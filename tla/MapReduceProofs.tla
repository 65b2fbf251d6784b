--------------------------- MODULE MapReduceProofs ---------------------------
(***************************************************************************)
(* Proofs about the word count, for every text, every number of chunks and *)
(* any number of runs that share their S3 objects: what a chunk's words    *)
(* are, and that the counts of a run's chunks add up to those of the text. *)
(***************************************************************************)
EXTENDS MapReduce, SequenceTheorems, FiniteSetTheorems, WellFoundedInduction, TLAPS

\* A set of natural numbers has a least element, and a bounded one a greatest.
LEMMA LeastElement ==
    ASSUME NEW T \in SUBSET Nat, T # {}
    PROVE  \E x \in T : \A y \in T : x <= y
<1> DEFINE R == OpToRel(<, Nat)
<1>1. IsWellFoundedOn(R, Nat)
  BY NatLessThanWellFounded, Zenon
<1>2. \A x, y \in Nat : y < x => <<y, x>> \in R
  BY DEF OpToRel
<1> HIDE DEF R
<1>3. PICK x \in T : \A y \in T : ~ (<<y, x>> \in R)
  BY <1>1, WFMin
<1>4. \A y \in T : ~ (y < x)
  BY <1>2, <1>3
<1>5. \A y \in T : x <= y
  BY <1>4, SMT
<1> QED BY <1>5

LEMMA MinFacts ==
    ASSUME NEW S \in SUBSET Nat, S # {}
    PROVE  Min(S) \in S /\ \A y \in S : Min(S) <= y
BY LeastElement DEF Min

LEMMA MaxFacts ==
    ASSUME NEW b \in Nat, NEW S \in SUBSET (0..b), S # {}
    PROVE  Max(S) \in S /\ \A y \in S : y <= Max(S)
<1> DEFINE T == {y \in 0..b : b - y \in S}
<1>1. T \in SUBSET Nat /\ T # {}
  <2>1. PICK y \in S : TRUE
    OBVIOUS
  <2>2. b - y \in 0..b /\ b - (b - y) = y
    BY <2>1, SMT
  <2> QED BY <2>1, <2>2
<1>2. PICK x \in T : \A y \in T : x <= y
  BY <1>1, LeastElement
<1>3. b - x \in S
  OBVIOUS
<1>4. ASSUME NEW y \in S PROVE b - x >= y
  <2>1. b - y \in 0..b /\ b - (b - y) = y
    BY SMT
  <2>2. b - y \in T
    BY <2>1
  <2>3. x <= b - y
    BY <1>2, <2>2
  <2> QED BY <2>3, SMT
<1>5. \E x_1 \in S : \A y \in S : x_1 >= y
  BY <1>3, <1>4
<1>6. Max(S) \in S /\ \A y \in S : Max(S) >= y
  BY <1>5 DEF Max
<1> QED BY <1>6, SMT

-----------------------------------------------------------------------------
(* The cuts.                                                               *)

LEMMA CeilingFacts ==
    ASSUME NEW l \in Nat, NEW m \in Nat, m > 0
    PROVE  LET c == (l + m - 1) \div m
           IN  c \in Nat /\ m * c >= l /\ (l > 0 => c > 0)
BY SMT

LEMMA MultipleFacts ==
    ASSUME NEW c \in Nat, c > 0
    PROVE  /\ \A k \in Nat : k % c = 0 => \E j \in Nat : k = j * c
           /\ \A j \in Nat : (j * c) % c = 0
<1>1. ASSUME NEW k \in Nat, k % c = 0 PROVE \E j \in Nat : k = j * c
  <2>1. k \div c \in Nat /\ k = (k \div c) * c
    BY <1>1, SMT
  <2> QED BY <2>1
<1>2. ASSUME NEW j \in Nat PROVE (j * c) % c = 0
  BY SMT
<1> QED BY <1>1, <1>2

\* The cut points of a text are the positions inside it at which two of its
\* chunks meet.
CutPoint(t, m, k) == k \in 1..(Len(t) - 1) /\ k % ChunkSize(t, m) = 0

LEMMA TextFacts ==
    ASSUME NEW t \in Texts
    PROVE  /\ t \in Seq(Characters) /\ Len(t) \in 0..MaxText /\ Len(t) \in Nat
           /\ t \in [1..Len(t) -> Characters]
<1>1. PICK l \in 0..MaxText : t \in [1..l -> Characters]
  BY DEF Texts
<1>2. l \in Nat
  <2>1. MaxText \in Nat
    BY MapReduceAssumption
  <2> QED BY <2>1, SMT
<1>3. t \in Seq(Characters)
  BY <1>1, <1>2, SeqDef
<1>4. Len(t) = l
  BY <1>1, <1>2, <1>3, LenProperties
<1> QED BY <1>1, <1>2, <1>3, <1>4

LEMMA CutIs ==
    ASSUME NEW t \in Texts, NEW m \in Nat, m > 0, NEW i \in Nat
    PROVE  Cut(t, m, i) = IF i * ChunkSize(t, m) <= Len(t)
                          THEN i * ChunkSize(t, m) ELSE Len(t)
<1> DEFINE x == i * ChunkSize(t, m)
           S == {x, Len(t)}
<1>1. x \in Nat /\ Len(t) \in Nat
  <2>1. ChunkSize(t, m) \in Nat
    BY TextFacts, CeilingFacts DEF ChunkSize
  <2> QED BY <2>1, TextFacts, SMT
<1>2. Min(S) \in S /\ \A y \in S : Min(S) <= y
  <2>1. S \in SUBSET Nat /\ S # {}
    BY <1>1
  <2> HIDE DEF S
  <2> QED BY <2>1, MinFacts
<1>3. Cut(t, m, i) = Min(S)
  BY DEF Cut
<1> HIDE DEF x
<1>4. Min(S) <= x /\ Min(S) <= Len(t) /\ (Min(S) = x \/ Min(S) = Len(t))
  BY <1>2
<1>5. Min(S) = IF x <= Len(t) THEN x ELSE Len(t)
  BY <1>1, <1>4, SMT
<1> QED BY <1>3, <1>5 DEF x

LEMMA CutFacts ==
    ASSUME NEW t \in Texts, NEW m \in Nat, m > 0, NEW i \in Nat
    PROVE  /\ Cut(t, m, 0) = 0 /\ Cut(t, m, m) = Len(t)
           /\ Cut(t, m, i) \in 0..Len(t)
           /\ Cut(t, m, i) <= Cut(t, m, i + 1)
           /\ Cut(t, m, i) \in 1..(Len(t) - 1) => CutPoint(t, m, Cut(t, m, i))
           /\ \A k : CutPoint(t, m, k) => k <= Cut(t, m, i) \/ Cut(t, m, i + 1) <= k
<1> DEFINE c == ChunkSize(t, m)
           L == Len(t)
           at(j) == IF j * c <= L THEN j * c ELSE L
<1>1. L \in Nat
  BY TextFacts
<1>2. c \in Nat /\ m * c >= L /\ (L > 0 => c > 0)
  BY <1>1, CeilingFacts DEF ChunkSize
<1>3. \A j \in Nat : Cut(t, m, j) = at(j)
  BY CutIs
<1>4. (i + 1) * c = i * c + c /\ i * c \in Nat /\ i + 1 \in Nat /\ 0 * c = 0 /\ m * c \in Nat
  BY <1>2, SMT
<1>5. L > 0 => (i * c) % c = 0
  BY <1>2, MultipleFacts
<1>6. ASSUME NEW k, CutPoint(t, m, k) PROVE k <= at(i) \/ at(i + 1) <= k
  <2>1. k \in Nat /\ k % c = 0 /\ k < L /\ c > 0
    BY <1>1, <1>2, <1>6, SMT DEF CutPoint
  <2>2. PICK j \in Nat : k = j * c
    BY <1>2, <2>1, MultipleFacts
  <2>3. CASE j <= i
    <3>1. j * c <= i * c
      BY ONLY <1>2, <2>3, i \in Nat, j \in Nat, SMT
    <3> QED BY <1>1, <1>4, <2>1, <2>2, <3>1, SMT
  <2>4. CASE i + 1 <= j
    <3>1. (i + 1) * c <= j * c
      BY ONLY <1>2, <2>4, i \in Nat, j \in Nat, SMT
    <3>2. (i + 1) * c <= L
      BY ONLY <1>1, <1>4, <1>2, <2>1, <2>2, <3>1, SMT
    <3>3. at(i + 1) = (i + 1) * c
      BY <3>2, Zenon
    <3> QED BY <2>2, <3>1, <3>3, Zenon
  <2> QED BY <2>3, <2>4, SMT
<1> HIDE DEF c, L
<1>7. /\ at(0) = 0 /\ at(m) = L /\ at(i) \in 0..L /\ at(i) <= at(i + 1)
      /\ at(i) \in 1..(L - 1) => at(i) = i * c
  BY <1>1, <1>2, <1>4, SMT
<1>8. at(i) \in 1..(L - 1) => CutPoint(t, m, at(i))
  <2>1. at(i) \in 1..(L - 1) => L > 0 /\ at(i) = i * c
    BY <1>1, <1>7, SMT
  <2> HIDE DEF at
  <2> QED BY <1>5, <2>1 DEF CutPoint, c, L
<1>9. /\ Cut(t, m, 0) = at(0) /\ Cut(t, m, m) = at(m)
      /\ Cut(t, m, i) = at(i) /\ Cut(t, m, i + 1) = at(i + 1)
  BY <1>3, <1>4
<1> HIDE DEF at
<1> QED BY <1>6, <1>7, <1>8, <1>9 DEF L

-----------------------------------------------------------------------------
(* A chunk and its words.                                                  *)

\* Where safeCut leaves the start: in place, unless that is inside a piece,
\* else at the piece's end or the chunk's, whichever comes first.
LEMMA StartFacts ==
    ASSUME NEW t \in Texts, NEW b \in 0..Len(t), NEW a \in 0..b
    PROVE  LET s == SafeStart(t, a, b)
           IN  /\ s \in a..b
               /\ ~(a < b /\ Inside(t, a)) => s = a
               /\ a < b /\ Inside(t, a) =>
                     /\ s = b \/ Space(t, s)
                     /\ \A j \in a..b : j = b \/ Space(t, j) => s <= j
<1> DEFINE S == {k \in a..b : k = b \/ Space(t, k)}
<1>1. a \in Nat /\ b \in Nat /\ a <= b
  BY TextFacts, SMT
<1>2. b \in S
  BY <1>1
<1>3. S \in SUBSET Nat /\ S # {}
  BY <1>1, <1>2
<1>4. Min(S) \in S /\ \A y \in S : Min(S) <= y
  BY <1>3, MinFacts
<1>5. CASE a < b /\ Inside(t, a)
  <2>1. SafeStart(t, a, b) = Min(S)
    BY <1>5 DEF SafeStart
  <2> QED BY <1>4, <1>5, <2>1
<1>6. CASE ~(a < b /\ Inside(t, a))
  <2>1. SafeStart(t, a, b) = a
    BY <1>6 DEF SafeStart
  <2> QED BY <1>1, <1>6, <2>1
<1> QED BY <1>5, <1>6

\* Where it leaves the end, the mirror image.
LEMMA EndFacts ==
    ASSUME NEW t \in Texts, NEW b \in 0..Len(t), NEW a \in 0..b
    PROVE  LET s == SafeStart(t, a, b)
               e == SafeEnd(t, a, b)
           IN  /\ e \in s..b
               /\ ~(a < b /\ Inside(t, b)) => e = b
               /\ a < b /\ Inside(t, b) =>
                     /\ e = s \/ Space(t, e - 1)
                     /\ \A j \in s..b : j = s \/ Space(t, j - 1) => j <= e
<1> DEFINE s == SafeStart(t, a, b)
           S == {k \in s..b : k = s \/ Space(t, k - 1)}
<1>1. a \in Nat /\ b \in Nat /\ a <= b
  BY TextFacts, SMT
<1>2. s \in a..b
  BY StartFacts
<1>3. s \in S /\ S \in SUBSET (0..b)
  <2> HIDE DEF s
  <2> QED BY <1>1, <1>2
<1>4. Max(S) \in S /\ \A y \in S : y <= Max(S)
  BY <1>1, <1>3, MaxFacts
<1>5. CASE a < b /\ Inside(t, b)
  <2>1. SafeEnd(t, a, b) = Max(S)
    BY <1>5 DEF SafeEnd
  <2> QED BY <1>4, <1>5, <2>1
<1>6. CASE ~(a < b /\ Inside(t, b))
  <2>1. SafeEnd(t, a, b) = b
    BY <1>6 DEF SafeEnd
  <2> HIDE DEF s
  <2> QED BY <1>1, <1>2, <1>6, <2>1 DEF s
<1> QED BY <1>5, <1>6

\* A word is a longest range of letters.
IsWord(t, u, v) ==
    /\ u \in Nat /\ v \in Nat /\ u < v /\ v <= Len(t)
    /\ \A k \in u..(v - 1) : t[k + 1] = "a"
    /\ u > 0 => t[u] # "a"
    /\ v < Len(t) => t[v + 1] # "a"

LEMMA WordFacts ==
    ASSUME NEW t \in Texts
    PROVE  /\ \A u, v : <<u, v>> \in Words(t) <=> IsWord(t, u, v)
           /\ \A p \in Words(t) : p = <<p[1], p[2]>> /\ IsWord(t, p[1], p[2])
<1>1. Len(t) \in Nat
  BY TextFacts
<1>2. \A u, v : IsWord(t, u, v) => u \in 0..Len(t) /\ v \in 0..Len(t)
  BY <1>1, SMT DEF IsWord
<1>3. \A u \in 0..Len(t) : u \in Nat /\ u <= Len(t)
  BY <1>1, SMT
<1>4. ASSUME NEW u, NEW v PROVE <<u, v>> \in Words(t) <=> IsWord(t, u, v)
  BY <1>1, <1>2, <1>3 DEF Words, IsWord
<1>5. \A p \in Words(t) : p = <<p[1], p[2]>>
  BY DEF Words
<1> QED BY <1>4, <1>5

LEMMA ChunkFacts ==
    ASSUME NEW t \in Texts, NEW s \in Nat, NEW e \in s..Len(t)
    PROVE  LET c == SubSeq(t, s + 1, e)
           IN  /\ c \in Texts /\ Len(c) = e - s
               /\ \A k \in 1..(e - s) : c[k] = t[s + k]
<1> DEFINE c == SubSeq(t, s + 1, e)
<1>1. t \in Seq(Characters) /\ Len(t) \in 0..MaxText /\ t \in [1..Len(t) -> Characters]
  BY TextFacts
<1>2. MaxText \in Nat
  BY MapReduceAssumption
<1>3. /\ s + 1 \in Int /\ e \in Int
      /\ s + 1 <= e => e - (s + 1) + 1 = e - s
      /\ ~(s + 1 <= e) => e - s = 0
      /\ e - (s + 1) + 1 = e - s
      /\ e - s \in 0..MaxText
      /\ (s + 1)..e \subseteq 1..Len(t)
  BY ONLY <1>1, <1>2, s \in Nat, e \in s..Len(t), SMT
<1>4. \A k \in (s + 1)..e : t[k] \in Characters
  BY <1>1, <1>3
<1>5. /\ c \in Seq(Characters)
      /\ Len(c) = IF s + 1 <= e THEN e - (s + 1) + 1 ELSE 0
      /\ \A k \in 1..(e - (s + 1) + 1) : c[k] = t[s + 1 + k - 1]
  BY ONLY <1>3, <1>4, SubSeqProperties
<1>6. \A k \in 1..(e - s) : s + 1 + k - 1 = s + k
  BY <1>3, SMT
<1> HIDE DEF c
<1>7. Len(c) = e - s
  BY <1>3, <1>5, Zenon
<1>8. c \in Texts
  <2>1. c \in [1..Len(c) -> Characters]
    BY <1>5, LenProperties
  <2> QED BY <1>3, <1>7, <2>1 DEF Texts
<1> QED BY <1>3, <1>5, <1>6, <1>7, <1>8 DEF c

\* Letters are no white space; positions are counted from 0.
LEMMA LetterFacts ==
    ASSUME NEW t, NEW u, NEW v, IsWord(t, u, v)
    PROVE  /\ \A k \in u..(v - 1) : ~Space(t, k)
           /\ u \in Nat /\ v \in Nat /\ u < v /\ v <= Len(t)
BY DEF IsWord, Space

\* Every chunk is a text.
LEMMA ChunkIsText ==
    ASSUME NEW t \in Texts, NEW m \in Nat, m > 0, NEW i \in Nat
    PROVE  /\ Chunk(t, m, i) \in Texts
           /\ SafeStart(t, Cut(t, m, i), Cut(t, m, i + 1)) \in Nat
<1> DEFINE a == Cut(t, m, i)
           b == Cut(t, m, i + 1)
<1>1. a \in 0..Len(t) /\ b \in 0..Len(t) /\ a <= b /\ Len(t) \in Nat
  <2>1. i + 1 \in Nat
    OBVIOUS
  <2> QED BY <2>1, CutFacts, TextFacts
<1> HIDE DEF a, b
<1>2. a \in 0..b /\ b \in Nat
  BY <1>1, SMT
<1>3. SafeStart(t, a, b) \in a..b /\ SafeEnd(t, a, b) \in SafeStart(t, a, b)..b
  BY <1>1, <1>2, StartFacts, EndFacts
<1>4. SafeStart(t, a, b) \in Nat /\ SafeEnd(t, a, b) \in SafeStart(t, a, b)..Len(t)
  BY <1>1, <1>2, <1>3, SMT
<1>5. SubSeq(t, SafeStart(t, a, b) + 1, SafeEnd(t, a, b)) \in Texts
  BY <1>4, ChunkFacts
<1> QED BY <1>4, <1>5 DEF Chunk, a, b

\* A word of a chunk is a word of the text, at its place, in a piece no chunk
\* ends in: the cut has dropped what it could not keep whole.
LEMMA ChunkWordsAreUncut ==
    ASSUME NEW t \in Texts, NEW m \in Nat, m > 0, NEW i \in Nat,
           NEW u, NEW v, IsWord(Chunk(t, m, i), u, v)
    PROVE  LET s == SafeStart(t, Cut(t, m, i), Cut(t, m, i + 1))
           IN  /\ <<u + s, v + s>> \in UncutWords(t, m)
               /\ Cut(t, m, i) <= u + s /\ u + s < Cut(t, m, i + 1)
<1> DEFINE L == Len(t)
           a == Cut(t, m, i)
           b == Cut(t, m, i + 1)
           s == SafeStart(t, a, b)
           e == SafeEnd(t, a, b)
           p == u + s
           q == v + s
           c == Chunk(t, m, i)
<1>1. L \in Nat
  BY TextFacts
<1>2. /\ a \in 0..L /\ b \in 0..L /\ a <= b /\ a \in 0..b
      /\ \A k : CutPoint(t, m, k) => k <= a \/ b <= k
  BY <1>1, CutFacts, SMT
<1>3. /\ s \in a..b
      /\ ~(a < b /\ Inside(t, a)) => s = a
      /\ a < b /\ Inside(t, a) => s = b \/ Space(t, s)
  BY <1>2, StartFacts
<1>4. /\ e \in s..b
      /\ ~(a < b /\ Inside(t, b)) => e = b
      /\ a < b /\ Inside(t, b) => e = s \/ Space(t, e - 1)
  BY <1>2, EndFacts
<1> HIDE DEF a, b, s, e
<1>5. /\ s \in Nat /\ e \in Nat /\ e \in s..L
      /\ a \in Nat /\ b \in Nat /\ a <= s /\ s <= e /\ e <= b /\ b <= L
  BY <1>1, <1>2, <1>3, <1>4, SMT
<1>6. /\ Len(c) = e - s
      /\ \A k \in 1..(e - s) : c[k] = t[s + k]
  BY <1>5, ChunkFacts DEF Chunk, a, b, s, e
<1> HIDE DEF c
<1>7. /\ u \in Nat /\ v \in Nat /\ u < v /\ v <= e - s
      /\ p \in Nat /\ q \in Nat /\ s <= p /\ p < q /\ q <= e /\ q <= L
      /\ a <= p /\ p < b /\ a < b
  <2>1. u \in Nat /\ v \in Nat /\ u < v /\ v <= e - s
    BY <1>6 DEF IsWord, c
  <2> QED BY <1>5, <2>1, SMT
<1>8. \A k \in p..(q - 1) : t[k + 1] = "a" /\ ~Space(t, k)
  <2> SUFFICES ASSUME NEW k \in p..(q - 1) PROVE t[k + 1] = "a"
    BY DEF Space
  <2>1. /\ k - s \in u..(v - 1) /\ k - s + 1 \in 1..(e - s)
        /\ s + (k - s + 1) = k + 1
    BY <1>5, <1>7, SMT
  <2>2. c[k - s + 1] = "a"
    BY <2>1 DEF IsWord, c
  <2> QED BY <1>6, <2>1, <2>2
<1>9. p > 0 => t[p] # "a"
  <2>1. CASE u > 0
    <3>1. u \in 1..(e - s) /\ s + u = p
      BY <1>5, <1>7, <2>1, SMT
    <3>2. c[u] # "a"
      BY <2>1 DEF IsWord, c
    <3> QED BY <1>6, <3>1, <3>2
  <2>2. CASE u = 0
    <3>1. p = s
      BY <1>5, <1>7, <2>2, SMT
    <3>2. ~Space(t, s) /\ s # b
      BY <1>7, <1>8, <3>1, SMT
    <3>3. ~Inside(t, a) /\ s = a
      BY <1>3, <1>7, <3>2
    <3>4. p > 0 => Space(t, p - 1)
      BY <1>5, <1>7, <3>1, <3>2, <3>3, SMT DEF Inside
    <3>5. p - 1 + 1 = p
      BY <1>7, SMT
    <3> QED BY <3>4, <3>5 DEF Space
  <2> QED BY <1>7, <2>1, <2>2, SMT
<1>10. q < L => t[q + 1] # "a"
  <2>1. CASE v < e - s
    <3>1. v + 1 \in 1..(e - s) /\ s + (v + 1) = q + 1
      BY <1>5, <1>7, <2>1, SMT
    <3>2. c[v + 1] # "a"
      BY <1>6, <2>1 DEF IsWord, c
    <3> QED BY <1>6, <3>1, <3>2
  <2>2. CASE v = e - s
    <3>1. q = e
      BY <1>5, <1>7, <2>2, SMT
    <3>2. ~Space(t, e - 1) /\ e # s
      BY <1>5, <1>7, <1>8, <3>1, SMT
    <3>3. ~Inside(t, b) /\ e = b
      BY <1>4, <1>7, <3>2
    <3>4. q < L => Space(t, q)
      BY <1>5, <1>7, <3>1, <3>2, <3>3, SMT DEF Inside
    <3> QED BY <3>4 DEF Space
  <2> QED BY <1>5, <1>7, <2>1, <2>2, SMT
<1>11. IsWord(t, p, q)
  BY <1>7, <1>8, <1>9, <1>10 DEF IsWord
<1>12. ASSUME NEW k, CutPoint(t, m, k), Inside(t, k)
       PROVE  \/ \E j \in k..(p - 1) : Space(t, j)
              \/ \E j \in q..(k - 1) : Space(t, j)
  <2>1. k \in Nat /\ 0 < k /\ k < L /\ ~Space(t, k - 1) /\ ~Space(t, k)
    BY <1>1, <1>12, SMT DEF CutPoint, Inside
  <2>2. CASE k <= a
    <3>1. CASE Inside(t, a)
      <4>1. s = b \/ Space(t, s)
        BY <1>3, <1>7, <3>1
      <4>2. s # b
        BY <1>7, <1>5, SMT
      <4>3. s # p
        BY <1>7, <1>8, <4>1, <4>2, SMT
      <4>4. s \in k..(p - 1)
        BY <1>5, <1>7, <2>1, <2>2, <4>3, SMT
      <4> QED BY <4>1, <4>2, <4>4
    <3>2. CASE ~Inside(t, a)
      <4>1. k # a
        BY <1>12, <3>2
      <4>2. Space(t, a - 1) \/ Space(t, a)
        BY <1>5, <1>7, <2>1, <2>2, <3>2, SMT DEF Inside
      <4>3. a - 1 \in k..(p - 1)
        BY <1>5, <1>7, <2>1, <2>2, <4>1, SMT
      <4>4. CASE Space(t, a)
        <5>1. a # p
          BY <1>7, <1>8, <4>4, SMT
        <5>2. a \in k..(p - 1)
          BY <1>5, <1>7, <2>1, <2>2, <5>1, SMT
        <5> QED BY <4>4, <5>2
      <4> QED BY <4>2, <4>3, <4>4
    <3> QED BY <3>1, <3>2
  <2>3. CASE b <= k
    <3>1. CASE Inside(t, b)
      <4>1. e = s \/ Space(t, e - 1)
        BY <1>4, <1>7, <3>1
      <4>2. e # s
        BY <1>5, <1>7, SMT
      <4>3. q # e
        <5>1. q = e => e - 1 \in p..(q - 1)
          BY <1>7, SMT
        <5> QED BY <1>8, <4>1, <4>2, <5>1
      <4>4. e - 1 \in q..(k - 1)
        BY <1>5, <1>7, <2>1, <2>3, <4>3, SMT
      <4> QED BY <4>1, <4>2, <4>4
    <3>2. CASE ~Inside(t, b)
      <4>1. k # b
        BY <1>12, <3>2
      <4>2. Space(t, b - 1) \/ Space(t, b)
        BY <1>5, <1>7, <2>1, <2>3, <3>2, SMT DEF Inside
      <4>3. CASE Space(t, b)
        <5>1. b \in q..(k - 1)
          BY <1>5, <1>7, <2>1, <2>3, <4>1, SMT
        <5> QED BY <4>3, <5>1
      <4>4. CASE Space(t, b - 1)
        <5>1. q # b
          <6>1. q = b => b - 1 \in p..(q - 1)
            BY <1>7, SMT
          <6> QED BY <1>8, <4>4, <6>1
        <5>2. b - 1 \in q..(k - 1)
          BY <1>5, <1>7, <2>1, <2>3, <5>1, SMT
        <5> QED BY <4>4, <5>2
      <4> QED BY <4>2, <4>3, <4>4
    <3> QED BY <3>1, <3>2
  <2> QED BY <1>2, <1>12, <2>2, <2>3
<1>13. <<p, q>> \in UncutWords(t, m)
  <2>1. <<p, q>> \in Words(t)
    BY <1>11, WordFacts
  <2> QED BY <1>12, <2>1 DEF UncutWords, CutPoint
<1> QED BY <1>7, <1>13 DEF a, b, s

\* A word in a piece without a cut is whole in the chunk it begins in.
LEMMA UncutWordsAreInChunks ==
    ASSUME NEW t \in Texts, NEW m \in Nat, m > 0, NEW i \in Nat,
           NEW p, NEW q, <<p, q>> \in UncutWords(t, m),
           Cut(t, m, i) <= p, p < Cut(t, m, i + 1)
    PROVE  LET s == SafeStart(t, Cut(t, m, i), Cut(t, m, i + 1))
           IN  s \in Nat /\ s <= p /\ IsWord(Chunk(t, m, i), p - s, q - s)
<1> DEFINE L == Len(t)
           a == Cut(t, m, i)
           b == Cut(t, m, i + 1)
           s == SafeStart(t, a, b)
           e == SafeEnd(t, a, b)
           c == Chunk(t, m, i)
<1>1. L \in Nat
  BY TextFacts
<1>2. /\ a \in 0..L /\ b \in 0..L /\ a <= b /\ a \in 0..b
      /\ a \in 1..(L - 1) => CutPoint(t, m, a)
      /\ b \in 1..(L - 1) => CutPoint(t, m, b)
  <2>1. /\ a \in 0..L /\ a <= b
        /\ a \in 1..(L - 1) => CutPoint(t, m, a)
    BY CutFacts
  <2>2. i + 1 \in Nat
    OBVIOUS
  <2>3. /\ b \in 0..L
        /\ b \in 1..(L - 1) => CutPoint(t, m, b)
    BY <2>2, CutFacts
  <2> HIDE DEF a, b
  <2> QED BY <1>1, <2>1, <2>3, SMT
<1>3. /\ s \in a..b
      /\ ~(a < b /\ Inside(t, a)) => s = a
      /\ a < b /\ Inside(t, a) =>
            \A j \in a..b : j = b \/ Space(t, j) => s <= j
  BY <1>2, StartFacts
<1>4. /\ e \in s..b
      /\ ~(a < b /\ Inside(t, b)) => e = b
      /\ a < b /\ Inside(t, b) =>
            \A j \in s..b : j = s \/ Space(t, j - 1) => j <= e
  BY <1>2, EndFacts
<1> HIDE DEF s, e
<1>5. /\ s \in Nat /\ e \in Nat /\ e \in s..L
      /\ a \in Nat /\ b \in Nat /\ a <= s /\ s <= e /\ e <= b /\ b <= L
  BY <1>1, <1>2, <1>3, <1>4, SMT
<1>6. /\ Len(c) = e - s
      /\ \A k \in 1..(e - s) : c[k] = t[s + k]
  BY <1>5, ChunkFacts DEF Chunk, s, e
<1>7. /\ IsWord(t, p, q)
      /\ \A k \in 1..(L - 1) : CutPoint(t, m, k) /\ Inside(t, k) =>
            \/ \E j \in k..(p - 1) : Space(t, j)
            \/ \E j \in q..(k - 1) : Space(t, j)
  BY WordFacts DEF UncutWords, CutPoint
<1>8. /\ p \in Nat /\ q \in Nat /\ p < q /\ q <= L /\ a <= p /\ p < b /\ a < b
      /\ \A k \in p..(q - 1) : ~Space(t, k)
  BY <1>5, <1>7, LetterFacts, SMT
<1> HIDE DEF a, b, c
<1>9. s <= p
  <2>1. CASE Inside(t, a)
    <3>1. a \in 1..(L - 1)
      BY <1>1, <1>5, <2>1, SMT DEF Inside
    <3>2. \E j \in a..(p - 1) : Space(t, j)
      <4>1. \A j \in q..(a - 1) : FALSE
        BY <1>5, <1>8, SMT
      <4> QED BY <1>2, <1>7, <2>1, <3>1, <4>1
    <3>3. PICK j \in a..(p - 1) : Space(t, j)
      BY <3>2
    <3>4. j \in a..b /\ j < p
      BY <1>5, <1>8, <3>3, SMT
    <3>5. s <= j
      BY <1>3, <1>8, <2>1, <3>3, <3>4
    <3> QED BY <1>5, <1>8, <3>3, <3>4, <3>5, SMT
  <2>2. CASE ~Inside(t, a)
    BY <1>3, <1>8, <2>2
  <2> QED BY <2>1, <2>2
<1>10. q <= e
  <2>1. CASE Inside(t, b)
    <3>1. b \in 1..(L - 1)
      BY <1>1, <1>5, <2>1, SMT DEF Inside
    <3>2. \E j \in q..(b - 1) : Space(t, j)
      <4>1. \A j \in b..(p - 1) : FALSE
        BY <1>5, <1>8, SMT
      <4> QED BY <1>2, <1>7, <2>1, <3>1, <4>1
    <3>3. PICK j \in q..(b - 1) : Space(t, j)
      BY <3>2
    <3>4. j + 1 \in s..b /\ j + 1 - 1 = j /\ q <= j
      BY <1>5, <1>8, <1>9, <3>3, SMT
    <3>5. j + 1 <= e
      BY <1>4, <1>8, <2>1, <3>3, <3>4
    <3> QED BY <1>5, <1>8, <3>3, <3>4, <3>5, SMT
  <2>2. CASE ~Inside(t, b)
    <3>1. e = b
      BY <1>4, <2>2
    <3>2. CASE b < q
      <4>1. b \in p..(q - 1) /\ b - 1 \in p..(q - 1) /\ 0 < b /\ b < L
        BY <1>1, <1>5, <1>8, <3>2, SMT
      <4>2. ~Space(t, b) /\ ~Space(t, b - 1)
        BY <1>8, <4>1
      <4> QED BY <2>2, <4>1, <4>2 DEF Inside, L
    <3> QED BY <1>5, <1>8, <3>1, <3>2, SMT
  <2> QED BY <2>1, <2>2
<1>11. /\ p - s \in Nat /\ q - s \in Nat /\ p - s < q - s /\ q - s <= e - s
  BY <1>5, <1>8, <1>9, <1>10, SMT
<1>12. \A k \in (p - s)..(q - s - 1) : c[k + 1] = "a"
  <2> SUFFICES ASSUME NEW k \in (p - s)..(q - s - 1) PROVE c[k + 1] = "a"
    OBVIOUS
  <2>1. /\ k + 1 \in 1..(e - s) /\ k + s \in p..(q - 1)
        /\ s + (k + 1) = k + s + 1
    BY <1>5, <1>8, <1>11, SMT
  <2>2. t[k + s + 1] = "a"
    BY <1>7, <2>1 DEF IsWord
  <2> QED BY <1>6, <2>1, <2>2
<1>13. p - s > 0 => c[p - s] # "a"
  <2> SUFFICES ASSUME p - s > 0 PROVE c[p - s] # "a"
    OBVIOUS
  <2>1. p - s \in 1..(e - s) /\ s + (p - s) = p /\ p > 0
    BY <1>5, <1>8, <1>10, SMT
  <2>2. t[p] # "a"
    BY <1>7, <2>1 DEF IsWord
  <2> QED BY <1>6, <2>1, <2>2
<1>14. q - s < e - s => c[q - s + 1] # "a"
  <2> SUFFICES ASSUME q - s < e - s PROVE c[q - s + 1] # "a"
    OBVIOUS
  <2>1. q - s + 1 \in 1..(e - s) /\ s + (q - s + 1) = q + 1 /\ q < L
    BY <1>1, <1>5, <1>8, <1>11, SMT
  <2>2. t[q + 1] # "a"
    BY <1>7, <2>1 DEF IsWord
  <2> QED BY <1>6, <2>1, <2>2
<1>15. IsWord(c, p - s, q - s)
  BY <1>6, <1>11, <1>12, <1>13, <1>14 DEF IsWord
<1> QED BY <1>5, <1>9, <1>15 DEF a, b, c, s

-----------------------------------------------------------------------------
(* The counts of the chunks add up.                                        *)

LengthIs(words, l) == {p \in words : p[2] - p[1] = l}

LEMMA WordsFinite ==
    ASSUME NEW t \in Texts
    PROVE  /\ IsFiniteSet(Words(t))
           /\ \A W \in SUBSET Words(t) : \A l :
                 /\ IsFiniteSet(LengthIs(W, l))
                 /\ Cardinality(LengthIs(W, l)) \in Nat
<1> DEFINE I == 0..Len(t)
<1>1. IsFiniteSet(I)
  <2>1. Len(t) \in Int /\ 0 \in Int
    BY TextFacts
  <2> QED BY <2>1, FS_Interval
<1> HIDE DEF I
<1>2. IsFiniteSet(I \X I)
  BY <1>1, FS_Product
<1>3. Words(t) \subseteq I \X I
  BY DEF Words, I
<1>4. IsFiniteSet(Words(t))
  BY <1>2, <1>3, FS_Subset
<1>5. ASSUME NEW W \in SUBSET Words(t), NEW l
      PROVE  /\ IsFiniteSet(LengthIs(W, l))
             /\ Cardinality(LengthIs(W, l)) \in Nat
  <2>1. LengthIs(W, l) \in SUBSET Words(t)
    BY DEF LengthIs
  <2>2. IsFiniteSet(LengthIs(W, l))
    BY <1>4, <2>1, FS_Subset
  <2> QED BY <2>2, FS_CardinalityType
<1> QED BY <1>4, <1>5

LEMMA CountsType ==
    ASSUME NEW t \in Texts
    PROVE  /\ Counts(t) \in [1..MaxText -> Nat]
           /\ \A W \in SUBSET Words(t) : Tally(W) \in [1..MaxText -> Nat]
<1>1. ASSUME NEW W \in SUBSET Words(t) PROVE Tally(W) \in [1..MaxText -> Nat]
  BY WordsFinite DEF Tally, LengthIs
<1> QED BY <1>1 DEF Counts

\* The uncut words that begin in the first k chunks.
Begun(t, m, k) == {p \in UncutWords(t, m) : p[1] < Cut(t, m, k)}

\* Those that begin in chunk i.
BegunIn(t, m, i) ==
    {p \in UncutWords(t, m) : Cut(t, m, i) <= p[1] /\ p[1] < Cut(t, m, i + 1)}

\* safeCut keeps words whole: the words of a chunk are, length by length, as
\* many as the words of the text that begin in it and lie in a piece without a
\* cut.  So no half word is counted, no word twice, and none but the cut ones
\* is lost, for every text and every number of chunks.
THEOREM ChunkCountsWords ==
    ASSUME NEW t \in Texts, NEW m \in Nat, m > 0, NEW i \in Nat, NEW l
    PROVE  Cardinality(LengthIs(BegunIn(t, m, i), l)) =
             Cardinality(LengthIs(Words(Chunk(t, m, i)), l))
<1> DEFINE s == SafeStart(t, Cut(t, m, i), Cut(t, m, i + 1))
           c == Chunk(t, m, i)
           A == LengthIs(Words(c), l)
           B == LengthIs(BegunIn(t, m, i), l)
           f == [p \in A |-> <<p[1] + s, p[2] + s>>]
<1>1. c \in Texts /\ s \in Nat
  BY ChunkIsText
<1>2. IsFiniteSet(A)
  BY <1>1, WordsFinite
<1>3. ASSUME NEW p \in A
      PROVE  /\ p = <<p[1], p[2]>> /\ p[1] \in Nat /\ p[2] \in Nat
             /\ f[p] = <<p[1] + s, p[2] + s>> /\ f[p] \in B
  <2>1. p = <<p[1], p[2]>> /\ IsWord(c, p[1], p[2]) /\ p[2] - p[1] = l
    BY <1>1, WordFacts DEF LengthIs
  <2>2. p[1] \in Nat /\ p[2] \in Nat
    BY <2>1 DEF IsWord
  <2>3. /\ <<p[1] + s, p[2] + s>> \in UncutWords(t, m)
        /\ Cut(t, m, i) <= p[1] + s /\ p[1] + s < Cut(t, m, i + 1)
    BY <2>1, ChunkWordsAreUncut
  <2>4. (p[2] + s) - (p[1] + s) = l
    BY <1>1, <2>1, <2>2, SMT
  <2> HIDE DEF s, c
  <2>5. <<p[1] + s, p[2] + s>> \in B
    BY <2>3, <2>4 DEF LengthIs, BegunIn
  <2> QED BY <2>1, <2>2, <2>5
<1> HIDE DEF s, c
<1>4. f \in Injection(A, B)
  <2>1. f \in [A -> B]
    BY <1>3
  <2>2. ASSUME NEW x \in A, NEW y \in A, f[x] = f[y] PROVE x = y
    <3>1. x[1] + s = y[1] + s /\ x[2] + s = y[2] + s
      BY <1>3, <2>2
    <3>2. x[1] \in Nat /\ x[2] \in Nat /\ y[1] \in Nat /\ y[2] \in Nat
      BY <1>3
    <3>3. x[1] = y[1] /\ x[2] = y[2]
      BY <1>1, <3>1, <3>2, SMT
    <3> QED BY <1>3, <3>3
  <2> HIDE DEF f, A, B
  <2> QED BY <2>1, <2>2 DEF Injection, IsInjective
<1>5. ASSUME NEW y \in B PROVE \E x \in A : f[x] = y
  <2> DEFINE x == <<y[1] - s, y[2] - s>>
  <2>1. /\ y \in UncutWords(t, m) /\ y[2] - y[1] = l
        /\ Cut(t, m, i) <= y[1] /\ y[1] < Cut(t, m, i + 1)
    BY DEF LengthIs, BegunIn
  <2>2. y \in Words(t)
    BY <2>1 DEF UncutWords
  <2>3. y = <<y[1], y[2]>> /\ y[1] \in Nat /\ y[2] \in Nat
    BY <2>2, WordFacts DEF IsWord
  <2>4. <<y[1], y[2]>> \in UncutWords(t, m)
    BY <2>1, <2>3
  <2>5. IsWord(c, y[1] - s, y[2] - s)
    BY <2>1, <2>4, UncutWordsAreInChunks DEF s, c
  <2>6. x \in Words(c)
    BY <1>1, <2>5, WordFacts
  <2>7. (y[2] - s) - (y[1] - s) = l /\ y[1] - s + s = y[1] /\ y[2] - s + s = y[2]
    BY <1>1, <2>1, <2>3, SMT
  <2>8. x \in A
    BY <2>6, <2>7 DEF LengthIs
  <2>9. f[x] = y
    BY <2>3, <2>7, <2>8
  <2> QED BY <2>8, <2>9
<1>6. f \in Surjection(A, B)
  <2>1. f \in [A -> B]
    BY <1>3
  <2> HIDE DEF f, A, B
  <2> QED BY <1>5, <2>1 DEF Surjection
<1>7. ExistsBijection(A, B)
  BY <1>4, <1>6 DEF ExistsBijection, Bijection
<1> HIDE DEF A, B
<1>8. Cardinality(B) = Cardinality(A)
  BY <1>2, <1>7, FS_Bijection
<1> QED BY <1>8 DEF A, B, c

\* The counts of one more chunk are those of the uncut words begun in it.
LEMMA CountsAddUp ==
    ASSUME NEW t \in Texts, NEW m \in Nat, m > 0, NEW i \in Nat
    PROVE  Tally(Begun(t, m, i + 1)) =
             Add(Tally(Begun(t, m, i)), Counts(Chunk(t, m, i)))
<1> DEFINE A == Begun(t, m, i)
           B == BegunIn(t, m, i)
           C == Begun(t, m, i + 1)
<1>1. /\ Cut(t, m, i) \in Nat /\ Cut(t, m, i + 1) \in Nat
      /\ Cut(t, m, i) <= Cut(t, m, i + 1)
  <2>1. /\ Len(t) \in Nat /\ i + 1 \in Nat
    BY TextFacts
  <2>2. /\ Cut(t, m, i) \in 0..Len(t) /\ Cut(t, m, i + 1) \in 0..Len(t)
        /\ Cut(t, m, i) <= Cut(t, m, i + 1)
    BY <2>1, CutFacts
  <2> QED BY <2>1, <2>2, SMT
<1>2. UncutWords(t, m) \subseteq Words(t)
  BY DEF UncutWords
<1>3. \A p \in UncutWords(t, m) : p[1] \in Nat
  BY <1>2, WordFacts DEF IsWord
<1>4. \A p \in UncutWords(t, m) :
         /\ p[1] < Cut(t, m, i + 1) <=>
               \/ p[1] < Cut(t, m, i)
               \/ Cut(t, m, i) <= p[1] /\ p[1] < Cut(t, m, i + 1)
         /\ ~(p[1] < Cut(t, m, i) /\ Cut(t, m, i) <= p[1])
  BY <1>1, <1>3, SMT
<1>5. ASSUME NEW l \in 1..MaxText
      PROVE  Cardinality(LengthIs(C, l)) =
               Cardinality(LengthIs(A, l))
                 + Cardinality(LengthIs(Words(Chunk(t, m, i)), l))
  <2>1. LengthIs(C, l) = LengthIs(A, l) \union LengthIs(B, l)
    BY <1>4 DEF LengthIs, Begun, BegunIn
  <2>2. LengthIs(A, l) \intersect LengthIs(B, l) = {}
    BY <1>4 DEF LengthIs, Begun, BegunIn
  <2>3. A \in SUBSET Words(t) /\ B \in SUBSET Words(t)
    BY <1>2 DEF Begun, BegunIn
  <2> DEFINE X == LengthIs(A, l)
             Y == LengthIs(B, l)
  <2>4. /\ IsFiniteSet(X) /\ Cardinality(X) \in Nat
        /\ IsFiniteSet(Y) /\ Cardinality(Y) \in Nat
    BY <2>3, WordsFinite
  <2>5. Cardinality(Y) = Cardinality(LengthIs(Words(Chunk(t, m, i)), l))
    BY ChunkCountsWords
  <2> HIDE DEF A, B, C, X, Y
  <2>6. Cardinality(X \union Y) = Cardinality(X) + Cardinality(Y) - Cardinality(X \intersect Y)
    BY <2>4, FS_Union
  <2>7. Cardinality(X \intersect Y) = 0
    BY <2>2, FS_EmptySet DEF X, Y
  <2>8. Cardinality(X \union Y) = Cardinality(X) + Cardinality(Y)
    BY <2>4, <2>6, <2>7, SMT
  <2> QED BY <2>1, <2>5, <2>8 DEF X, Y
<1> HIDE DEF A, B, C
<1>6. /\ Tally(C) = [l \in 1..MaxText |-> Cardinality(LengthIs(C, l))]
      /\ Tally(A) = [l \in 1..MaxText |-> Cardinality(LengthIs(A, l))]
      /\ Counts(Chunk(t, m, i)) =
            [l \in 1..MaxText |-> Cardinality(LengthIs(Words(Chunk(t, m, i)), l))]
  BY DEF Tally, LengthIs, Counts
<1>7. Tally(C) = Add(Tally(A), Counts(Chunk(t, m, i)))
  BY <1>5, <1>6, Zenon DEF Add
<1> QED BY <1>7 DEF A, C

\* The first no chunks hold no words, and all of them the uncut ones.
LEMMA BegunFacts ==
    ASSUME NEW t \in Texts, NEW m \in Nat, m > 0
    PROVE  /\ Tally(Begun(t, m, 0)) = NoCounts
           /\ Begun(t, m, m) = UncutWords(t, m)
<1>1. \A p \in UncutWords(t, m) : p[1] \in Nat /\ p[1] < Len(t)
  <2> SUFFICES ASSUME NEW p \in UncutWords(t, m)
               PROVE  p[1] \in Nat /\ p[1] < Len(t)
    OBVIOUS
  <2>1. IsWord(t, p[1], p[2])
    BY WordFacts DEF UncutWords
  <2>2. Len(t) \in Nat
    BY TextFacts
  <2> QED BY <2>1, <2>2, SMT DEF IsWord
<1>2. Cut(t, m, 0) = 0 /\ Cut(t, m, m) = Len(t)
  BY CutFacts
<1>3. Begun(t, m, 0) = {}
  <2>1. \A p \in UncutWords(t, m) : ~(p[1] < 0)
    BY <1>1, SMT
  <2> QED BY <1>2, <2>1 DEF Begun
<1>4. Begun(t, m, m) = UncutWords(t, m)
  BY <1>1, <1>2 DEF Begun
<1>5. Tally({}) = NoCounts
  <2>1. \A l : {p \in {} : p[2] - p[1] = l} = {}
    OBVIOUS
  <2> QED BY <2>1, FS_EmptySet DEF Tally, NoCounts
<1> QED BY <1>3, <1>4, <1>5

-----------------------------------------------------------------------------
(* The services.                                                           *)

USE DEF s3, client

CountsSet == [1..MaxText -> Nat]

\* How far the requests of a run are at each of its states; what a mapper has
\* answered is in S3, and nothing is merged before the reducer runs.
StageInv ==
    \A r \in Runs :
        /\ state[r] = "idle" => r \notin disturbed
        /\ state[r] \in {"idle", "mapping"} => next[r] = 0
        /\ state[r] \in {"idle", "splitting"} =>
              \A i \in Index : stage[r][i] = "none"
        /\ state[r] = "mapping" =>
              \A i \in Index : i < n[r] => stage[r][i] # "none"
        /\ state[r] = "reducing" =>
              \A i \in Index : i < n[r] => stage[r][i] = "done"
        /\ state[r] \in {"reducing", "done", "failed"} =>
              \A i \in Index : stage[r][i] \in {"none", "done"}
        /\ \A i \in Index : stage[r][i] # "none" => i < n[r]
        /\ \A i \in Index : stage[r][i] = "done" => map[i] \in CountsSet
        /\ state[r] \in {"idle", "splitting", "mapping"} => merged[r] = NoCounts

LEMMA ModelFacts ==
    /\ NoCounts \in CountsSet
    /\ NoObject \in Texts
    /\ Index \subseteq Nat
    /\ \A r \in Runs : n \in [Runs -> 1..MaxChunks] =>
          /\ n[r] \in Nat /\ n[r] > 0
          /\ \A i \in Nat : i < n[r] => i \in Index
    /\ \A a, b \in CountsSet : Add(a, b) \in CountsSet
<1>1. MaxText \in Nat /\ MaxChunks \in Nat /\ MaxChunks > 0
  <2>1. MaxText \in Nat /\ MaxChunks \in Nat \ {0}
    BY MapReduceAssumption
  <2> QED BY <2>1, SMT
<1>2. NoCounts \in CountsSet
  BY DEF NoCounts, CountsSet
<1>3. NoObject \in Texts
  <2>1. NoObject \in [1..0 -> Characters]
    <3>1. <<>> \in Seq(Characters) /\ Len(<<>>) = 0
      BY EmptySeq
    <3>2. <<>> \in [1..Len(<<>>) -> Characters]
      BY <3>1, LenProperties
    <3> QED BY <3>1, <3>2 DEF NoObject
  <2>2. 0 \in 0..MaxText
    BY <1>1, SMT
  <2> QED BY <2>1, <2>2 DEF Texts
<1>4. Index \subseteq Nat
  BY <1>1, SMT DEF Index
<1>5. ASSUME NEW r \in Runs, n \in [Runs -> 1..MaxChunks]
      PROVE  /\ n[r] \in Nat /\ n[r] > 0
             /\ \A i \in Nat : i < n[r] => i \in Index
  BY <1>1, <1>5, SMT DEF Index
<1>6. \A a, b \in CountsSet : Add(a, b) \in CountsSet
  BY SMT DEF Add, CountsSet
<1> QED BY <1>2, <1>3, <1>4, <1>5, <1>6

LEMMA TypeStep ==
    ASSUME TypeOK, StageInv, [Next]_vars PROVE TypeOK' /\ StageInv'
<1> USE ModelFacts DEF TypeOK, StageInv
<1> DEFINE Counted == [1..MaxText -> Nat]
<1>0. Counted = CountsSet
  BY DEF CountsSet
<1>1. ASSUME NEW r \in Runs, Start(r) PROVE TypeOK' /\ StageInv'
  <2>1. \A q \in Runs : Active(q) => state[q] # "idle"
    BY DEF Active
  <2>2. /\ disturbed' \in SUBSET Runs
        /\ \A q \in Runs : state'[q] = "idle" => q \notin disturbed'
    <3> DEFINE others == {q \in Runs : Active(q) /\ (n[q] # n[r] \/ q \in disturbed)}
    <3>1. /\ disturbed' = IF others = {} THEN disturbed
                          ELSE disturbed \union others \union {r}
          /\ \A q \in Runs : state'[q] = "idle" => q # r /\ state[q] = "idle"
      BY <1>1 DEF Start
    <3>2. \A q \in others : q \in Runs /\ state[q] # "idle"
      BY <2>1
    <3> HIDE DEF others
    <3>3. disturbed \subseteq Runs
      OBVIOUS
    <3>4. \A q \in disturbed' : q \in disturbed \/ q \in others \/ q = r
      BY <3>1
    <3>5. disturbed' \in SUBSET Runs
      BY <3>2, <3>3, <3>4
    <3>6. ASSUME NEW q \in Runs, state'[q] = "idle" PROVE q \notin disturbed'
      BY <3>1, <3>2, <3>4, <3>6
    <3> QED BY <3>5, <3>6
  <2> QED BY <1>1, <2>2, SMT DEF Start
<1>2. ASSUME NEW r \in Runs, SplitChunk(r) PROVE TypeOK' /\ StageInv'
  <2>1. Chunk(text, n[r], next[r]) \in Texts
    BY ChunkIsText
  <2>2. next[r] \in Index
    <3>1. next[r] \in Nat /\ next[r] < n[r]
      BY <1>2 DEF SplitChunk
    <3> QED BY <3>1
  <2>3. chunk' \in [Index -> Texts]
    BY <1>2, <2>1, <2>2 DEF SplitChunk
  <2>4. next' \in [Runs -> Nat] /\ \A q \in Runs : next'[q] <= n[q]
    BY <1>2, SMT DEF SplitChunk
  <2>5. \A q \in Runs : state[q] \in {"idle", "mapping"} => next'[q] = 0
    BY <1>2, SMT DEF SplitChunk
  <2>6. /\ UNCHANGED <<text, n, state, stage, held, merged, map, result, gone>>
        /\ UNCHANGED disturbed
    BY <1>2 DEF SplitChunk
  <2> QED BY <2>3, <2>4, <2>5, <2>6
<1>3. ASSUME NEW r \in Runs, SplitDone(r) PROVE TypeOK' /\ StageInv'
  BY <1>3, SMT DEF SplitDone
<1>4. ASSUME NEW r \in Runs, NEW i \in Index, MapRead(r, i) PROVE TypeOK' /\ StageInv'
  <2>1. Counts(chunk[i]) \in CountsSet
    BY CountsType DEF CountsSet
  <2> QED BY <1>0, <1>4, <2>1, SMT DEF MapRead
<1>5. ASSUME NEW r \in Runs, NEW i \in Index, MapWrite(r, i) PROVE TypeOK' /\ StageInv'
  BY <1>0, <1>5, SMT DEF MapWrite
<1>6. ASSUME NEW r \in Runs, MapDone(r) PROVE TypeOK' /\ StageInv'
  BY <1>6, SMT DEF MapDone
<1>7. ASSUME NEW r \in Runs, ReduceRead(r) PROVE TypeOK' /\ StageInv'
  <2>1. next[r] \in Index /\ stage[r][next[r]] = "done"
    BY <1>7 DEF ReduceRead
  <2>2. Add(merged[r], map[next[r]]) \in CountsSet
    BY <1>0, <2>1
  <2> QED BY <1>0, <1>7, <2>2, SMT DEF ReduceRead
<1>8. ASSUME NEW r \in Runs, ReduceWrite(r) PROVE TypeOK' /\ StageInv'
  BY <1>8, SMT DEF ReduceWrite
<1>9. ASSUME NEW r \in Runs, GiveUp(r) PROVE TypeOK' /\ StageInv'
  BY <1>9, SMT DEF GiveUp
<1>10. ASSUME NEW r \in Runs, HandlerFails(r) PROVE TypeOK' /\ StageInv'
  BY <1>10, SMT DEF HandlerFails
<1>11. ASSUME NEW r \in Runs, NEW i \in Index, MapFails(r, i) PROVE TypeOK' /\ StageInv'
  BY <1>0, <1>11, SMT DEF MapFails
<1>12. CASE UNCHANGED vars
  BY <1>12 DEF vars
<1> QED
  BY <1>1, <1>2, <1>3, <1>4, <1>5, <1>6, <1>7, <1>8, <1>9, <1>10, <1>11, <1>12
     DEF Next

LEMMA TypeInvariant == Spec => [](TypeOK /\ StageInv)
<1>1. Init => TypeOK /\ StageInv
  <2> SUFFICES ASSUME Init PROVE TypeOK /\ StageInv
    OBVIOUS
  <2>1. NoCounts \in [1..MaxText -> Nat] /\ NoObject \in Texts
    BY ModelFacts DEF CountsSet
  <2>2. \A r \in Runs : n[r] \in 1..MaxChunks /\ 0 <= n[r]
    <3>1. \A r \in Runs : n[r] \in 1..MaxChunks
      BY DEF Init
    <3> QED BY <3>1, ModelFacts DEF Init
  <2> QED BY <2>1, <2>2, Zenon DEF Init, TypeOK, StageInv
<1>2. TypeOK /\ StageInv /\ [Next]_vars => (TypeOK /\ StageInv)'
  BY TypeStep
<1> QED BY <1>1, <1>2, PTL DEF Spec

\* Every variable has its type: every chunk is a part of the text, every object
\* under maps/ a count, and no index passes the run's num_chunks.
THEOREM TypeCorrect == Spec => []TypeOK
BY TypeInvariant, PTL

-----------------------------------------------------------------------------
(* The runs.                                                               *)

\* The counts of one chunk.
ChunkCounts(r, i) == Counts(Chunk(text, n[r], i))

\* What a run and its objects hold while a service works for it.
Objects(r) ==
    /\ \A i \in Index :
          /\ \/ state[r] = "splitting" /\ i < next[r]
             \/ state[r] = "mapping" /\ i < n[r]
             => chunk[i] = Chunk(text, n[r], i)
          /\ stage[r][i] = "read" => held[r][i] = ChunkCounts(r, i)
          /\ stage[r][i] = "done" => map[i] = ChunkCounts(r, i)
    /\ state[r] = "reducing" => merged[r] = Tally(Begun(text, n[r], next[r]))

RunInv(r) ==
    /\ \A q \in Runs : Active(q) => q \notin disturbed /\ n[q] = n[r]
    /\ Objects(r)

\* A run that was not disturbed finds under its keys what it, or a run like it,
\* put there: no run with other chunks works on them as long as it is active.
DataInv ==
    \A r \in Runs \ disturbed :
        /\ Active(r) => RunInv(r)
        /\ state[r] = "done" => merged[r] = Tally(UncutWords(text, n[r]))

\* Only its start makes a run active.
LEMMA ActiveFacts ==
    ASSUME TypeOK, StageInv, [Next]_vars, NEW q \in Runs, Active(q)'
    PROVE  Active(q) \/ Start(q)
<1> USE ModelFacts DEF TypeOK, StageInv
<1>1. ASSUME NEW r \in Runs, Start(r) PROVE Active(q) \/ Start(q)
  <2>1. CASE q = r
    BY <1>1, <2>1
  <2>2. CASE q # r
    <3>1. state'[q] = state[q] /\ UNCHANGED <<n, next, stage, gone>>
      BY <1>1, <2>2 DEF Start
    <3> QED BY <3>1 DEF Active
  <2> QED BY <2>1, <2>2
<1>2. ASSUME NEW r \in Runs, SplitChunk(r) PROVE Active(q)
  BY <1>2, SMT DEF SplitChunk, Active
<1>3. ASSUME NEW r \in Runs, SplitDone(r) PROVE Active(q)
  BY <1>3, SMT DEF SplitDone, Active
<1>4. ASSUME NEW r \in Runs, NEW i \in Index, MapRead(r, i) PROVE Active(q)
  BY <1>4, SMT DEF MapRead, Active
<1>5. ASSUME NEW r \in Runs, NEW i \in Index, MapWrite(r, i) PROVE Active(q)
  BY <1>5, SMT DEF MapWrite, Active
<1>6. ASSUME NEW r \in Runs, MapDone(r) PROVE Active(q)
  BY <1>6, SMT DEF MapDone, Active
<1>7. ASSUME NEW r \in Runs, ReduceRead(r) \/ ReduceWrite(r) PROVE Active(q)
  <2>1. CASE q = r
    BY <1>7, <2>1 DEF ReduceRead, ReduceWrite, Active
  <2>2. CASE q # r
    <3>1. /\ state'[q] = state[q] /\ next'[q] = next[q]
          /\ UNCHANGED <<n, stage, gone>>
      BY <1>7, <2>2 DEF ReduceRead, ReduceWrite
    <3> QED BY <3>1 DEF Active
  <2> QED BY <2>1, <2>2
<1>8. ASSUME NEW r \in Runs, GiveUp(r) PROVE Active(q)
  BY <1>8, SMT DEF GiveUp, Active
<1>9. ASSUME NEW r \in Runs, HandlerFails(r) PROVE Active(q)
  BY <1>9, SMT DEF HandlerFails, Active
<1>10. ASSUME NEW r \in Runs, NEW i \in Index, MapFails(r, i) PROVE Active(q)
  BY <1>10, SMT DEF MapFails, Active
<1>11. CASE UNCHANGED vars
  BY <1>11 DEF vars, Active
<1> QED
  BY <1>1, <1>2, <1>3, <1>4, <1>5, <1>6, <1>7, <1>8, <1>9, <1>10, <1>11 DEF Next

\* No run is disturbed while it and another undisturbed one are active.
LEMMA PeersStep ==
    ASSUME TypeOK, StageInv, DataInv, [Next]_vars,
           NEW r \in Runs, r \notin disturbed', Active(r)',
           NEW q \in Runs, Active(q)'
    PROVE  q \notin disturbed' /\ n'[q] = n'[r]
<1>1. n' = n
  BY DEF Next, vars, Start, SplitChunk, SplitDone, MapRead, MapWrite, MapDone,
         ReduceRead, ReduceWrite, GiveUp, HandlerFails, MapFails
<1>2. CASE \E x \in Runs : Start(x)
  <2>1. PICK x \in Runs : Start(x)
    BY <1>2
  <2> DEFINE others == {y \in Runs : Active(y) /\ (n[y] # n[x] \/ y \in disturbed)}
  <2>2. /\ disturbed' = IF others = {} THEN disturbed
                        ELSE disturbed \union others \union {x}
        /\ state[x] = "idle"
    BY <2>1 DEF Start
  <2>3. \A y \in Runs : Active(y)' => Active(y) \/ y = x
    BY <2>1, ActiveFacts DEF Start, Active, TypeOK, StageInv
  <2>4. x \notin disturbed
    BY <2>2 DEF StageInv
  <2>5. \A y : y \in others <=> /\ y \in Runs /\ Active(y)
                                /\ n[y] # n[x] \/ y \in disturbed
    OBVIOUS
  <2>6. \A y \in Runs : y \notin disturbed /\ Active(y) =>
           \A z \in Runs : Active(z) => z \notin disturbed /\ n[z] = n[y]
    BY DEF DataInv, RunInv
  <2> HIDE DEF others
  <2>7. r \notin others /\ r \notin disturbed /\ (r = x => others = {})
    BY <2>2
  <2>8. others = {}
    <3>1. CASE r = x
      BY <2>7, <3>1
    <3>2. CASE r # x
      <4>1. Active(r) /\ n[r] = n[x]
        BY <2>3, <2>5, <2>7, <3>2
      <4>2. \A y \in Runs : Active(y) => y \notin disturbed /\ n[y] = n[x]
        BY <2>6, <2>7, <4>1
      <4> QED BY <2>5, <4>2
    <3> QED BY <3>1, <3>2
  <2>9. \A y \in Runs : Active(y) => n[y] = n[x] /\ y \notin disturbed
    BY <2>5, <2>8
  <2> QED BY <1>1, <2>2, <2>3, <2>4, <2>8, <2>9
<1>3. CASE ~ \E x \in Runs : Start(x)
  <2>1. disturbed' = disturbed
    BY <1>3 DEF Next, vars, SplitChunk, SplitDone, MapRead, MapWrite, MapDone,
                ReduceRead, ReduceWrite, GiveUp, HandlerFails, MapFails
  <2>2. Active(r) /\ Active(q)
    BY <1>3, ActiveFacts
  <2> QED BY <1>1, <2>1, <2>2 DEF DataInv, RunInv
<1> QED BY <1>2, <1>3

LEMMA ObjectsKept ==
    ASSUME NEW r \in Runs, Objects(r), UNCHANGED <<text, n, chunk, map>>,
           state'[r] = state[r], next'[r] = next[r], stage'[r] = stage[r],
           held'[r] = held[r], merged'[r] = merged[r]
    PROVE  Objects(r)'
BY DEF Objects, ChunkCounts

\* What each step does to the objects of an undisturbed run, its own or not.
LEMMA ObjectsStep ==
    ASSUME TypeOK, StageInv, DataInv, [Next]_vars,
           NEW r \in Runs, r \notin disturbed', Active(r)'
    PROVE  Objects(r)'
<1> USE ModelFacts DEF TypeOK, StageInv
<1>1. ASSUME Active(r), r \notin disturbed
      PROVE  /\ Objects(r)
             /\ \A q \in Runs : Active(q) => q \notin disturbed /\ n[q] = n[r]
  BY <1>1 DEF DataInv, RunInv
<1>2. ASSUME NEW x \in Runs, Start(x) PROVE Objects(r)'
  <2>1. CASE x = r
    <3>1. state'[r] = "splitting" /\ next'[r] = 0
          /\ \A i \in Index : stage'[r][i] = "none"
      BY <1>2, <2>1 DEF Start
    <3>2. \A i \in Index : ~(i < 0)
      <4>1. \A i \in Nat : ~(i < 0)
        BY SMT
      <4> QED BY <4>1
    <3> QED BY <3>1, <3>2 DEF Objects
  <2>2. CASE x # r
    <3>1. /\ state'[r] = state[r]
          /\ UNCHANGED <<text, n, next, stage, held, merged, chunk, map, gone>>
      BY <1>2, <2>2 DEF Start
    <3>2. r \notin disturbed
      BY <1>2 DEF Start
    <3>3. Active(r)
      BY <3>1 DEF Active
    <3> QED BY <1>1, <3>1, <3>2, <3>3, ObjectsKept
  <2> QED BY <2>1, <2>2
<1>3. ASSUME disturbed' = disturbed, ~ \E x \in Runs : Start(x)
      PROVE  /\ Active(r) /\ r \notin disturbed /\ Objects(r)
             /\ \A q \in Runs : Active(q) => q \notin disturbed /\ n[q] = n[r]
  BY <1>1, <1>3, ActiveFacts
<1>4. ASSUME NEW x \in Runs, SplitChunk(x) PROVE Objects(r)'
  <2> DEFINE k == next[x]
  <2>1. /\ state[x] = "splitting" /\ k < n[x] /\ k \in Nat /\ Active(x)
        /\ chunk' = [chunk EXCEPT ![k] = Chunk(text, n[x], k)]
        /\ next' = [next EXCEPT ![x] = k + 1]
        /\ UNCHANGED <<text, n, state, stage, held, merged, map, gone, disturbed>>
    BY <1>4 DEF SplitChunk, Active
  <2>2. /\ Active(r) /\ r \notin disturbed /\ Objects(r) /\ n[x] = n[r]
    <3>1. Active(r)
      <4>1. CASE x = r
        BY <2>1, <4>1
      <4>2. CASE x # r
        <5>1. next'[r] = next[r]
          BY <2>1, <4>2
        <5> QED BY <2>1, <5>1 DEF Active
      <4> QED BY <4>1, <4>2
    <3> QED BY <1>1, <2>1, <3>1
  <2>3. k \in Index
    BY <2>1
  <2>4. \A i \in Index : chunk'[i] = IF i = k THEN Chunk(text, n[r], i) ELSE chunk[i]
    BY <2>1, <2>2
  <2>5. \A i \in Index : x = r /\ i < next'[r] => i = k \/ i < next[r]
    <3>1. x = r => next'[r] = next[r] + 1 /\ next[r] \in Nat /\ k = next[r]
      BY <2>1
    <3> HIDE DEF k
    <3> QED BY <3>1, SMT
  <2>6. x # r => next'[r] = next[r]
    BY <2>1
  <2>7. state[r] = "reducing" => next'[r] = next[r]
    BY <2>1
  <2> HIDE DEF k
  <2>8. ASSUME NEW i \in Index,
               \/ state[r] = "splitting" /\ i < next'[r]
               \/ state[r] = "mapping" /\ i < n[r]
        PROVE  chunk'[i] = Chunk(text, n[r], i)
    <3>1. \/ i = k
          \/ state[r] = "splitting" /\ i < next[r]
          \/ state[r] = "mapping" /\ i < n[r]
      BY <2>5, <2>6, <2>8
    <3> QED BY <2>2, <2>4, <3>1 DEF Objects
  <2> QED BY <2>1, <2>2, <2>7, <2>8 DEF Objects, ChunkCounts
<1>5. ASSUME NEW x \in Runs, SplitDone(x) PROVE Objects(r)'
  <2>1. CASE x = r
    <3>1. /\ state[r] = "splitting" /\ r \notin gone /\ next[r] >= n[r]
          /\ state'[r] = "mapping"
          /\ \A i \in Index : stage'[r][i] \in {"todo", "none"}
          /\ UNCHANGED <<text, n, chunk, disturbed>>
      BY <1>5, <2>1 DEF SplitDone
    <3>2. Active(r)
      BY <3>1 DEF Active
    <3>3. Objects(r)
      BY <1>1, <3>1, <3>2
    <3>4. \A i \in Index : i < n[r] => i < next[r]
      BY <3>1, SMT
    <3> QED BY <3>1, <3>3, <3>4 DEF Objects
  <2>2. CASE x # r
    <3>1. /\ state'[r] = state[r] /\ next'[r] = next[r] /\ stage'[r] = stage[r]
          /\ UNCHANGED <<text, n, gone, held, merged, chunk, map, disturbed>>
      BY <1>5, <2>2 DEF SplitDone
    <3>2. Active(r)
      BY <3>1 DEF Active
    <3> QED BY <1>1, <3>1, <3>2, ObjectsKept
  <2> QED BY <2>1, <2>2
<1>6. ASSUME NEW x \in Runs, NEW j \in Index, MapRead(x, j) PROVE Objects(r)'
  <2>1. /\ stage[x][j] = "todo"
        /\ stage' = [stage EXCEPT ![x][j] = "read"]
        /\ held' = [held EXCEPT ![x][j] = Counts(chunk[j])]
        /\ UNCHANGED <<text, n, state, next, merged, chunk, map, gone, disturbed>>
    BY <1>6 DEF MapRead
  <2>2. CASE x = r
    <3>1. state[r] = "mapping" /\ Active(r)
      BY <2>1, <2>2 DEF Active
    <3>2. Objects(r)
      BY <1>1, <2>1, <3>1
    <3>3. j < n[r]
      BY <2>1, <2>2, <3>1
    <3>4. chunk[j] = Chunk(text, n[r], j)
      BY <3>1, <3>2, <3>3 DEF Objects
    <3>5. /\ stage'[r][j] = "read" /\ held'[r][j] = ChunkCounts(r, j)
          /\ \A i \in Index : i # j => /\ stage'[r][i] = stage[r][i]
                                       /\ held'[r][i] = held[r][i]
      BY <2>1, <2>2, <3>4 DEF ChunkCounts
    <3> QED BY <2>1, <3>1, <3>2, <3>5 DEF Objects, ChunkCounts
  <2>3. CASE x # r
    <3>1. stage'[r] = stage[r] /\ held'[r] = held[r]
      BY <2>1, <2>3
    <3>2. Active(r)
      BY <2>1, <3>1 DEF Active
    <3> QED BY <1>1, <2>1, <3>1, <3>2, ObjectsKept
  <2> QED BY <2>2, <2>3
<1>7. ASSUME NEW x \in Runs, NEW j \in Index, MapWrite(x, j) PROVE Objects(r)'
  <2>1. /\ stage[x][j] = "read" /\ Active(x)
        /\ stage' = [stage EXCEPT ![x][j] = "done"]
        /\ held' = [held EXCEPT ![x][j] = NoCounts]
        /\ map' = [map EXCEPT ![j] = held[x][j]]
        /\ UNCHANGED <<text, n, state, next, merged, chunk, gone, disturbed>>
    BY <1>7 DEF MapWrite, Active
  <2>2. Active(r)
    <3>1. CASE x = r
      BY <2>1, <3>1
    <3>2. CASE x # r
      <4>1. stage'[r] = stage[r]
        BY <2>1, <3>2
      <4> QED BY <2>1, <4>1 DEF Active
    <3> QED BY <3>1, <3>2
  <2>3. /\ Objects(r) /\ x \notin disturbed /\ n[x] = n[r]
    BY <1>1, <2>1, <2>2
  <2>4. Objects(x)
    BY <2>1, <2>3 DEF DataInv, RunInv
  <2>5. held[x][j] = ChunkCounts(r, j)
    BY <2>1, <2>3, <2>4 DEF Objects, ChunkCounts
  <2>6. \A i \in Index : map'[i] = IF i = j THEN ChunkCounts(r, j) ELSE map[i]
    BY <2>1, <2>5
  <2>7. \A i \in Index : \/ i = j
                         \/ /\ stage'[r][i] = stage[r][i]
                            /\ held'[r][i] = held[r][i]
    BY <2>1
  <2>8. stage'[r][j] = "read" => stage[r][j] = "read" /\ held'[r][j] = held[r][j]
    BY <2>1
  <2> QED BY <2>1, <2>3, <2>6, <2>7, <2>8 DEF Objects, ChunkCounts
<1>8. ASSUME NEW x \in Runs, MapDone(x) PROVE Objects(r)'
  <2>1. /\ state[x] = "mapping" /\ x \notin gone
        /\ state' = [state EXCEPT ![x] = "reducing"]
        /\ UNCHANGED <<text, n, next, stage, held, merged, chunk, map, gone, disturbed>>
    BY <1>8 DEF MapDone
  <2>2. CASE x = r
    <3>1. Active(r) /\ state'[r] = "reducing" /\ next[r] = 0 /\ merged[r] = NoCounts
      BY <2>1, <2>2 DEF Active
    <3>2. Objects(r)
      BY <1>1, <2>1, <3>1
    <3>3. Tally(Begun(text, n[r], 0)) = NoCounts
      BY BegunFacts
    <3> QED BY <2>1, <3>1, <3>2, <3>3 DEF Objects, ChunkCounts
  <2>3. CASE x # r
    <3>1. state'[r] = state[r]
      BY <2>1, <2>3
    <3>2. Active(r)
      BY <2>1, <3>1 DEF Active
    <3> QED BY <1>1, <2>1, <3>1, <3>2, ObjectsKept
  <2> QED BY <2>2, <2>3
<1>9. ASSUME NEW x \in Runs, ReduceRead(x) PROVE Objects(r)'
  <2> DEFINE k == next[x]
  <2>1. /\ state[x] = "reducing" /\ k < n[x]
        /\ merged' = [merged EXCEPT ![x] = Add(merged[x], map[k])]
        /\ next' = [next EXCEPT ![x] = k + 1]
        /\ UNCHANGED <<text, n, state, stage, held, chunk, map, gone, disturbed>>
    BY <1>9 DEF ReduceRead
  <2>2. CASE x = r
    <3>1. Active(r) /\ k \in Nat /\ k \in Index /\ stage[r][k] = "done"
      BY <2>1, <2>2 DEF Active
    <3>2. Objects(r)
      BY <1>1, <2>1, <3>1
    <3>3. /\ map[k] = ChunkCounts(r, k)
          /\ merged[r] = Tally(Begun(text, n[r], k))
      BY <2>1, <2>2, <3>1, <3>2 DEF Objects
    <3>4. Tally(Begun(text, n[r], k + 1)) =
             Add(Tally(Begun(text, n[r], k)), Counts(Chunk(text, n[r], k)))
      BY <3>1, CountsAddUp
    <3>5. merged'[r] = Tally(Begun(text, n[r], k + 1)) /\ next'[r] = k + 1
      BY <2>1, <2>2, <3>3, <3>4 DEF ChunkCounts
    <3> QED BY <2>1, <2>2, <3>2, <3>5 DEF Objects, ChunkCounts
  <2>3. CASE x # r
    <3>1. next'[r] = next[r] /\ merged'[r] = merged[r]
      BY <2>1, <2>3
    <3>2. Active(r)
      BY <2>1, <3>1 DEF Active
    <3> QED BY <1>1, <2>1, <3>1, <3>2, ObjectsKept
  <2> QED BY <2>2, <2>3
<1>10. ASSUME NEW x \in Runs,
              ReduceWrite(x) \/ GiveUp(x) \/ HandlerFails(x)
       PROVE  Objects(r)'
  <2>1. /\ Active(r)
        /\ UNCHANGED <<text, n, next, stage, held, merged, chunk, map, disturbed>>
        /\ state' = state \/ state' = [state EXCEPT ![x] = "done"]
              \/ state' = [state EXCEPT ![x] = "failed"]
    <3>1. ~ \E y \in Runs : Start(y)
      BY <1>10 DEF ReduceWrite, GiveUp, HandlerFails, Start
    <3>2. Active(r)
      BY <3>1, ActiveFacts
    <3> QED BY <1>10, <3>2 DEF ReduceWrite, GiveUp, HandlerFails
  <2>2. Objects(r)
    BY <1>1, <2>1
  <2>3. state'[r] = state[r] \/ state'[r] \in {"done", "failed"}
    BY <2>1
  <2> QED BY <2>1, <2>2, <2>3 DEF Objects, ChunkCounts
<1>11. ASSUME NEW x \in Runs, NEW j \in Index, MapFails(x, j) PROVE Objects(r)'
  <2>1. /\ stage' = [stage EXCEPT ![x][j] = "failed"]
        /\ held' = [held EXCEPT ![x][j] = NoCounts]
        /\ stage[x][j] \in {"todo", "read"}
        /\ UNCHANGED <<text, n, state, next, merged, chunk, map, disturbed>>
    BY <1>11 DEF MapFails
  <2>2. Active(r)
    <3>1. CASE x = r
      BY <2>1, <3>1 DEF Active
    <3>2. CASE x # r
      <4>1. stage'[r] = stage[r] /\ (r \in gone' <=> r \in gone)
        BY <1>11, <2>1, <3>2 DEF MapFails
      <4> QED BY <2>1, <4>1 DEF Active
    <3> QED BY <3>1, <3>2
  <2>3. Objects(r)
    BY <1>1, <2>1, <2>2
  <2>4. \A i \in Index : \/ stage'[r][i] = "failed"
                         \/ /\ stage'[r][i] = stage[r][i]
                            /\ held'[r][i] = held[r][i]
    BY <2>1
  <2> QED BY <2>1, <2>3, <2>4 DEF Objects, ChunkCounts
<1>12. CASE UNCHANGED vars
  <2>1. Active(r) /\ disturbed' = disturbed
    BY <1>12 DEF vars, Active
  <2> QED BY <1>1, <1>12, <2>1, ObjectsKept DEF vars
<1> QED
  BY <1>2, <1>4, <1>5, <1>6, <1>7, <1>8, <1>9, <1>10, <1>11, <1>12 DEF Next

LEMMA DataStep ==
    ASSUME TypeOK, StageInv, DataInv, [Next]_vars PROVE DataInv'
<1> SUFFICES ASSUME NEW r \in Runs, r \notin disturbed'
             PROVE  /\ Active(r)' => RunInv(r)'
                    /\ state'[r] = "done" =>
                          merged'[r] = Tally(UncutWords(text', n'[r]))
  BY DEF DataInv
<1>1. Active(r)' => RunInv(r)'
  BY ObjectsStep, PeersStep DEF RunInv
<1>2. ASSUME state'[r] = "done"
      PROVE  merged'[r] = Tally(UncutWords(text', n'[r]))
  <2>0. /\ disturbed \subseteq disturbed'
        /\ text' = text /\ n' = n
    BY DEF Next, vars, Start, SplitChunk, SplitDone, MapRead, MapWrite, MapDone,
           ReduceRead, ReduceWrite, GiveUp, HandlerFails, MapFails
  <2>1. CASE ReduceWrite(r)
    <3>1. /\ state[r] = "reducing" /\ next[r] = n[r] /\ merged' = merged
          /\ Active(r) /\ r \notin disturbed
      BY <2>0, <2>1 DEF ReduceWrite, Active
    <3>2. merged[r] = Tally(Begun(text, n[r], n[r]))
      BY <3>1 DEF DataInv, RunInv, Objects
    <3>3. Begun(text, n[r], n[r]) = UncutWords(text, n[r])
      BY ModelFacts, BegunFacts DEF TypeOK
    <3> QED BY <2>0, <3>1, <3>2, <3>3
  <2>2. CASE ~ReduceWrite(r)
    <3>1. state[r] = "done" /\ merged'[r] = merged[r]
      BY <1>2, <2>2
         DEF Next, vars, Start, SplitChunk, SplitDone, MapRead, MapWrite, MapDone,
             ReduceRead, ReduceWrite, GiveUp, HandlerFails, MapFails, TypeOK
    <3> QED BY <2>0, <3>1 DEF DataInv
  <2> QED BY <2>1, <2>2
<1> QED BY <1>1, <1>2

\* A run that no run with other chunks has disturbed counts each word that lies
\* whole in a chunk once and no half word, for every text and every number of
\* chunks, whatever its mappers' order, the runs at its side, the objects that
\* earlier or failed runs have left, and the calls that fail.
THEOREM UncutWordsAreCounted == Spec => []ResultIsUncutWords
<1>1. Init => DataInv
  BY DEF Init, DataInv, Active
<1>2. TypeOK /\ StageInv /\ DataInv /\ [Next]_vars => DataInv'
  BY DataStep
<1>3. DataInv => ResultIsUncutWords
  BY DEF DataInv, ResultIsUncutWords
<1> QED BY TypeInvariant, <1>1, <1>2, <1>3, PTL DEF Spec

\* A text in one chunk has no cut point.
LEMMA OneChunkIsUncut ==
    ASSUME NEW t \in Texts, NEW k PROVE ~CutPoint(t, 1, k)
<1> SUFFICES ASSUME CutPoint(t, 1, k) PROVE FALSE
  OBVIOUS
<1>1. Len(t) \in Nat
  BY TextFacts
<1>2. ChunkSize(t, 1) = Len(t)
  BY <1>1, SMT DEF ChunkSize
<1>3. k \in Nat /\ 0 < k /\ k < Len(t) /\ k % Len(t) = 0
  BY <1>1, <1>2, SMT DEF CutPoint
<1> QED BY <1>1, <1>3, SMT

\* What verify.py compares holds where it can: a run whose cuts fall on white
\* space, and so every run with one chunk, counts all words of the text.
THEOREM CleanCutsCountAll ==
    Spec => [](\A r \in Runs \ disturbed :
                  /\ state[r] = "done"
                  /\ \/ n[r] = 1
                     \/ \A k : CutPoint(text, n[r], k) => ~Inside(text, k)
                  => merged[r] = Counts(text))
<1> DEFINE Clean == \A r \in Runs \ disturbed :
                       /\ state[r] = "done"
                       /\ \/ n[r] = 1
                          \/ \A k : CutPoint(text, n[r], k) => ~Inside(text, k)
                       => merged[r] = Counts(text)
<1>1. ASSUME TypeOK, ResultIsUncutWords PROVE Clean
  <2> SUFFICES ASSUME NEW r \in Runs \ disturbed, state[r] = "done",
                      \/ n[r] = 1
                      \/ \A k : CutPoint(text, n[r], k) => ~Inside(text, k)
               PROVE  merged[r] = Counts(text)
    OBVIOUS
  <2>1. \A k : CutPoint(text, n[r], k) => ~Inside(text, k)
    BY <1>1, OneChunkIsUncut DEF TypeOK
  <2>2. UncutWords(text, n[r]) = Words(text)
    BY <2>1 DEF UncutWords, CutPoint
  <2>3. merged[r] = Tally(UncutWords(text, n[r]))
    BY <1>1 DEF ResultIsUncutWords
  <2> QED BY <2>2, <2>3 DEF Counts
<1> HIDE DEF Clean
<1>2. Spec => []Clean
  BY TypeCorrect, UncutWordsAreCounted, <1>1, PTL
<1> QED BY <1>2 DEF Clean
=============================================================================
