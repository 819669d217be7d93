---------------------------- MODULE CacheFileProofs ----------------------------
(***************************************************************************)
(* Proofs about the cache file: types, for any number of processes that    *)
(* read, write, unlink and crash, and for processes that follow one        *)
(* another, that a file marked complete is a complete dump, and that the   *)
(* file implements the atomic register of AtomicCache.                     *)
(***************************************************************************)
EXTENDS CacheFile, DataLemmas, SequenceTheorems

\* How many fields of s have ended when the reader is behind i.
EndsUpTo(s, i) == {j \in Ends(s) : j <= i}
Rank(s, i) == Cardinality(EndsUpTo(s, i))

LEMMA EndsAreFinite ==
  ASSUME NEW s \in Seq(Byte)
  PROVE  /\ Ends(s) \subseteq 1..Len(s) /\ IsFiniteSet(Ends(s))
         /\ Terminated(s) \in Nat /\ Terminated(s) <= Len(s)
         /\ \A i : IsFiniteSet(EndsUpTo(s, i)) /\ Rank(s, i) \in Nat
<1>1. Ends(s) \subseteq 1..Len(s) /\ Len(s) \in Nat
  BY DEF Ends
<1>2. IsFiniteSet(1..Len(s)) /\ Cardinality(1..Len(s)) = Len(s)
  <2>1. /\ 1 \in Int /\ Len(s) \in Int
        /\ Cardinality(1..Len(s)) = IF 1 > Len(s) THEN 0 ELSE Len(s) - 1 + 1
    BY <1>1, FS_Interval
  <2> QED BY <1>1, <2>1, FS_Interval
<1>3. IsFiniteSet(Ends(s)) /\ Terminated(s) <= Len(s)
  <2>1. IsFiniteSet(Ends(s)) /\ Cardinality(Ends(s)) <= Cardinality(1..Len(s))
    BY <1>1, <1>2, FS_Subset
  <2> QED BY <1>2, <2>1 DEF Terminated
<1>4. Terminated(s) \in Nat
  BY <1>3, FS_CardinalityType DEF Terminated
<1>5. ASSUME NEW i PROVE IsFiniteSet(EndsUpTo(s, i)) /\ Rank(s, i) \in Nat
  <2>1. EndsUpTo(s, i) \subseteq Ends(s)
    BY DEF EndsUpTo
  <2>2. IsFiniteSet(EndsUpTo(s, i))
    BY <1>3, <2>1, FS_Subset
  <2> QED BY <2>2, FS_CardinalityType DEF Rank
<1> QED BY <1>1, <1>3, <1>4, <1>5

\* The further, the more fields have ended.
LEMMA RankGrows ==
  ASSUME NEW s \in Seq(Byte), NEW i \in Ends(s), NEW j \in Ends(s), i < j
  PROVE  Rank(s, i) < Rank(s, j)
<1>1. i \in Nat /\ j \in Nat /\ Ends(s) \subseteq Nat
  BY EndsAreFinite
<1>2. EndsUpTo(s, i) \subseteq EndsUpTo(s, j) /\ EndsUpTo(s, i) # EndsUpTo(s, j)
  <2>1. EndsUpTo(s, i) \subseteq EndsUpTo(s, j)
    BY <1>1 DEF EndsUpTo
  <2>2. j \in EndsUpTo(s, j) /\ j \notin EndsUpTo(s, i)
    BY <1>1 DEF EndsUpTo
  <2> QED BY <2>1, <2>2
<1>3. IsFiniteSet(EndsUpTo(s, j))
  BY EndsAreFinite
<1>4. Rank(s, i) <= Rank(s, j) /\ Rank(s, i) # Rank(s, j)
  BY <1>2, <1>3, FS_Subset DEF Rank
<1>5. Rank(s, i) \in Nat /\ Rank(s, j) \in Nat
  BY EndsAreFinite
<1> QED BY <1>4, <1>5

\* The end with the rank k is the end of field k.
LEMMA EndIs ==
  ASSUME NEW s \in Seq(Byte), NEW i \in Ends(s)
  PROVE  /\ Rank(s, i) \in 1..Terminated(s) /\ End(s, Rank(s, i)) = i
<1>1. i \in Nat /\ Ends(s) \subseteq Nat
  BY EndsAreFinite
<1>2. Rank(s, i) \in 1..Terminated(s)
  <2>1. EndsUpTo(s, i) \subseteq Ends(s) /\ i \in EndsUpTo(s, i)
    BY <1>1 DEF EndsUpTo
  <2>2. Rank(s, i) <= Terminated(s)
    BY <2>1, EndsAreFinite, FS_Subset DEF Rank, Terminated
  <2>3. Rank(s, i) # 0
    BY <2>1, EndsAreFinite, FS_EmptySet DEF Rank
  <2> QED BY <2>2, <2>3, EndsAreFinite
<1>3. ASSUME NEW j \in Ends(s), Rank(s, j) = Rank(s, i) PROVE j = i
  <2>1. ~ (i < j) /\ ~ (j < i)
    BY <1>3, RankGrows, EndsAreFinite
  <2> QED BY <1>1, <2>1
<1> DEFINE k == Rank(s, i)
<1>4. (CHOOSE j \in Ends(s) : Rank(s, j) = k) = i
  BY <1>3
<1>5. k # 0 /\ ~ (k > Terminated(s))
  BY <1>2, EndsAreFinite
<1>6. End(s, k) = CHOOSE j \in Ends(s) : Rank(s, j) = k
  <2> HIDE DEF k
  <2> QED BY <1>5, Zenon DEF End, Rank, EndsUpTo
<1> QED BY <1>2, <1>4, <1>6

\* There is one for each field that is terminated.
LEMMA EveryFieldEnds ==
  ASSUME NEW s \in Seq(Byte), NEW k \in 1..Terminated(s)
  PROVE  \E i \in Ends(s) : Rank(s, i) = k
<1> DEFINE E(n) == {i \in Ends(s) : i <= n}
           S == {n \in Nat : \A m \in 1..Cardinality(E(n)) : \E i \in E(n) : Rank(s, i) = m}
<1>1. Ends(s) \subseteq Nat \ {0} /\ \A n : IsFiniteSet(E(n)) /\ Cardinality(E(n)) \in Nat
  <2>1. \A n : E(n) = EndsUpTo(s, n)
    BY DEF EndsUpTo
  <2>2. \A n : IsFiniteSet(EndsUpTo(s, n)) /\ Cardinality(EndsUpTo(s, n)) \in Nat
    BY EndsAreFinite DEF Rank
  <2>3. Ends(s) \subseteq Nat \ {0}
    BY EndsAreFinite
  <2> HIDE DEF E
  <2> QED BY <2>1, <2>2, <2>3
<1>2. 0 \in S
  <2>1. E(0) = {}
    BY <1>1
  <2>2. Cardinality(E(0)) = 0
    BY <2>1, FS_EmptySet
  <2> HIDE DEF E
  <2> QED BY <2>2
<1>3. ASSUME NEW n \in Nat, n \in S PROVE n + 1 \in S
  <2>1. CASE n + 1 \notin Ends(s)
    <3>1. E(n + 1) = E(n)
      BY <1>1, <2>1
    <3> QED BY <1>3, <3>1
  <2>2. CASE n + 1 \in Ends(s)
    <3>1. E(n + 1) = E(n) \cup {n + 1} /\ n + 1 \notin E(n)
      BY <1>1, <2>2
    <3>2. Cardinality(E(n + 1)) = Cardinality(E(n)) + 1
      <4>1. IsFiniteSet(E(n))
        BY <1>1
      <4> HIDE DEF E
      <4>2. Cardinality(E(n) \cup {n + 1}) = Cardinality(E(n)) + 1
        BY <3>1, <4>1, FS_AddElement
      <4> QED BY <3>1, <4>2
    <3>3. Rank(s, n + 1) = Cardinality(E(n + 1))
      BY DEF Rank, EndsUpTo
    <3>4. \A m \in 1..Cardinality(E(n)) : \E i \in E(n + 1) : Rank(s, i) = m
      BY <1>3, <3>1
    <3>5. \A m \in 1..Cardinality(E(n + 1)) :
            m \in 1..Cardinality(E(n)) \/ m = Cardinality(E(n + 1))
      <4>1. Cardinality(E(n)) \in Nat
        BY <1>1
      <4> HIDE DEF E
      <4> QED BY <3>2, <4>1
    <3>6. n + 1 \in E(n + 1)
      BY <3>1
    <3> HIDE DEF E
    <3> QED BY <3>3, <3>4, <3>5, <3>6
  <2> QED BY <2>1, <2>2
<1>4. Len(s) \in S
  <2> HIDE DEF S
  <2>1. Nat \subseteq S
    BY <1>2, <1>3, Induction
  <2> QED BY <2>1
<1>5. E(Len(s)) = Ends(s)
  BY EndsAreFinite
<1> QED BY <1>4, <1>5 DEF Terminated

LEMMA EndOfField ==
  ASSUME NEW s \in Seq(Byte), NEW k \in 1..Terminated(s)
  PROVE  /\ End(s, k) \in Ends(s) /\ Rank(s, End(s, k)) = k
<1>1. PICK i \in Ends(s) : Rank(s, i) = k
  BY EveryFieldEnds
<1>2. End(s, k) = i
  BY <1>1, EndIs
<1> QED BY <1>1, <1>2

LEMMA FieldType ==
  ASSUME NEW s \in Seq(Byte), NEW k \in Nat \ {0}
  PROVE  Field(s, k) \in Seq(Byte)
<1>1. ASSUME NEW n \in Nat PROVE End(s, n) \in 0..(Len(s) + 1)
  <2>1. n \in 1..Terminated(s) => End(s, n) \in 1..Len(s)
    BY EndOfField, EndsAreFinite
  <2>2. n = 0 => End(s, n) = 0
    BY DEF End
  <2>3. n # 0 /\ n > Terminated(s) => End(s, n) = Len(s) + 1
    BY DEF End
  <2>4. Terminated(s) \in Nat /\ Len(s) \in Nat
    BY EndsAreFinite
  <2> QED BY <2>1, <2>2, <2>3, <2>4
<1> DEFINE a == End(s, k - 1) + 1
           b == End(s, k) - 1
<1>2. a \in Int /\ b \in Int /\ a >= 1 /\ b <= Len(s)
  <2>1. End(s, k - 1) \in 0..(Len(s) + 1) /\ End(s, k) \in 0..(Len(s) + 1) /\ Len(s) \in Nat
    BY <1>1, SMTT(30)
  <2> QED BY <2>1
<1>3. Field(s, k) = SubSeq(s, a, b)
  BY DEF Field
<1> HIDE DEF a, b
<1>4. SubSeq(s, a, b) \in Seq(Byte)
  BY <1>2
<1> QED BY <1>3, <1>4

PageType == [label: Seq(Byte), text: Seq(Byte)]
MemType == [valid: BOOLEAN, pages: Seq(PageType)]

\* Whatever a file holds, what is read from it are pages.
LEMMA LoadType ==
  ASSUME NEW bytes \in Seq(Byte)
  PROVE  Load(bytes) \in MemType
<1>1. NoCache \in MemType
  BY DEF NoCache, MemType
<1>2. CASE IsComplete(bytes)
  <2> DEFINE s == Tail(bytes)
             n == Cardinality({k \in 1..Len(s) : PageReadable(s, k)})
             pages == [k \in 1..n |-> [label |-> Field(s, 2 * k), text |-> Field(s, 2 * k + 1)]]
  <2>1. s \in Seq(Byte)
    BY <1>2 DEF IsComplete
  <2>2. n \in Nat
    <3>1. IsFiniteSet(1..Len(s))
      BY <2>1, FS_Interval
    <3> DEFINE readable == {k \in 1..Len(s) : PageReadable(s, k)}
    <3>2. IsFiniteSet(readable)
      BY <3>1, FS_Subset
    <3> QED BY <3>2, FS_CardinalityType
  <2>3. pages \in Seq(PageType)
    <3> HIDE DEF s, n
    <3>1. \A k \in 1..n : Field(s, 2 * k) \in Seq(Byte) /\ Field(s, 2 * k + 1) \in Seq(Byte)
      <4> TAKE k \in 1..n
      <4>1. 2 * k \in Nat \ {0} /\ 2 * k + 1 \in Nat \ {0}
        BY <2>2
      <4> QED BY <2>1, <4>1, FieldType
    <3> QED BY <2>2, <3>1 DEF PageType
  <2>4. Load(bytes) = NoCache \/ Load(bytes) = [valid |-> TRUE, pages |-> pages]
    BY DEF Load
  <2> HIDE DEF pages
  <2>5. [valid |-> TRUE, pages |-> pages] \in MemType
    BY <2>3 DEF MemType
  <2> QED BY <1>1, <2>4, <2>5
<1>3. CASE ~IsComplete(bytes)
  BY <1>1, <1>3 DEF Load
<1> QED BY <1>2, <1>3

-----------------------------------------------------------------------------
\* Parts of sequences.
LEMMA AppendToOne ==
  ASSUME NEW a, NEW b
  PROVE  Append(<<a>>, b) = <<a, b>>
<1>1. <<a>> \in Seq({a, b}) /\ <<a, b>> \in Seq({a, b}) /\ Append(<<a>>, b) \in Seq({a, b})
  OBVIOUS
<1>2. Len(Append(<<a>>, b)) = 2 /\ Append(<<a>>, b)[1] = a /\ Append(<<a>>, b)[2] = b
  BY <1>1
<1>3. Len(<<a, b>>) = 2 /\ <<a, b>>[1] = a /\ <<a, b>>[2] = b
  OBVIOUS
<1>4. \A i \in 1..2 : i = 1 \/ i = 2
  OBVIOUS
<1> QED BY <1>1, <1>2, <1>3, <1>4, SeqEqual

LEMMA AppendType ==
  ASSUME NEW S, NEW s \in Seq(S), NEW e \in S
  PROVE  /\ Append(s, e) \in Seq(S) /\ Len(Append(s, e)) = Len(s) + 1
         /\ Append(s, e)[Len(s) + 1] = e
         /\ \A i \in 1..Len(s) : Append(s, e)[i] = s[i]
OBVIOUS
LEMMA SamePart ==
  ASSUME NEW S, NEW s \in Seq(S), NEW r \in Seq(S), NEW a \in Nat \ {0}, NEW b \in Nat,
         b <= Len(s), b <= Len(r), \A i \in a..b : s[i] = r[i]
  PROVE  SubSeq(r, a, b) = SubSeq(s, a, b)
<1>1. (\A i \in a..b : s[i] \in S) /\ (\A i \in a..b : r[i] \in S)
  OBVIOUS
<1>2. /\ SubSeq(s, a, b) \in Seq(S) /\ SubSeq(r, a, b) \in Seq(S)
      /\ Len(SubSeq(s, a, b)) = (IF a <= b THEN b - a + 1 ELSE 0)
      /\ Len(SubSeq(r, a, b)) = (IF a <= b THEN b - a + 1 ELSE 0)
      /\ \A i \in 1..(b - a + 1) : SubSeq(s, a, b)[i] = s[a + i - 1]
                                 /\ SubSeq(r, a, b)[i] = r[a + i - 1]
  <2>1. a \in Int /\ b \in Int
    OBVIOUS
  <2> QED BY <1>1, <2>1, SubSeqProperties
<1>3. \A i \in 1..(b - a + 1) : a + i - 1 \in a..b
  OBVIOUS
<1>4. \A i \in 1..Len(SubSeq(r, a, b)) : SubSeq(r, a, b)[i] = SubSeq(s, a, b)[i]
  BY <1>2, <1>3
<1> QED BY <1>2, <1>4, SeqEqual

LEMMA PartIs ==
  ASSUME NEW S, NEW r \in Seq(S), NEW f \in Seq(S), NEW n \in Nat, n + Len(f) <= Len(r),
         \A i \in 1..Len(f) : r[n + i] = f[i]
  PROVE  SubSeq(r, n + 1, n + Len(f)) = f
<1> DEFINE part == SubSeq(r, n + 1, n + Len(f))
<1>1. Len(f) \in Nat /\ n + 1 \in Int /\ n + Len(f) \in Int
  OBVIOUS
<1>2. \A i \in (n + 1)..(n + Len(f)) : r[i] \in S
  OBVIOUS
<1>3. /\ part \in Seq(S)
      /\ Len(part) = (IF n + 1 <= n + Len(f) THEN (n + Len(f)) - (n + 1) + 1 ELSE 0)
      /\ \A i \in 1..((n + Len(f)) - (n + 1) + 1) : part[i] = r[n + 1 + i - 1]
  BY <1>1, <1>2, SubSeqProperties
<1> HIDE DEF part
<1>4. Len(part) = Len(f)
  BY <1>1, <1>3
<1>5. \A i \in 1..Len(part) : part[i] = f[i]
  <2>1. \A i \in 1..Len(f) : n + 1 + i - 1 = n + i
                             /\ i \in 1..((n + Len(f)) - (n + 1) + 1)
    BY <1>1
  <2> QED BY <1>3, <1>4, <2>1
<1>6. part = f
  BY <1>3, <1>4, <1>5, SeqEqual
<1> QED BY <1>6 DEF part

-----------------------------------------------------------------------------
\* What the fields of a file are: s consists of the fields fs, each of them ended.
Parses(s, fs) ==
  /\ s \in Seq(Byte) /\ fs \in Seq(Seq(Byte))
  /\ Terminated(s) = Len(fs) /\ End(s, Len(fs)) = Len(s)
  /\ \A k \in 1..Len(fs) : Field(s, k) = fs[k]

LEMMA NothingParses == Parses(<<>>, <<>>)
<1>1. Ends(<<>>) = {}
  BY DEF Ends
<1>2. Terminated(<<>>) = 0
  BY <1>1, FS_EmptySet DEF Terminated
<1> QED BY <1>2 DEF Parses, End

\* One more field: those in front of it are read as before.
LEMMA OneFieldMore ==
  ASSUME NEW s, NEW fs, Parses(s, fs), NEW f \in Seq(Byte \ {NUL})
  PROVE  Parses(s \o Append(f, NUL), Append(fs, f))
<1> DEFINE r == s \o Append(f, NUL)
           T == Len(fs)
<1>1. /\ s \in Seq(Byte) /\ f \in Seq(Byte) /\ r \in Seq(Byte) /\ T \in Nat
      /\ Len(s) \in Nat /\ Len(f) \in Nat /\ Len(r) = Len(s) + Len(f) + 1
      /\ fs \in Seq(Seq(Byte))
  <2>1. s \in Seq(Byte) /\ fs \in Seq(Seq(Byte)) /\ NUL \in Byte
    BY ByteAssumption DEF Parses
  <2>2. Len(f) \in Nat /\ f = [i \in 1..Len(f) |-> f[i]] /\ \A i \in 1..Len(f) : f[i] \in Byte
    OBVIOUS
  <2>3. f \in Seq(Byte)
    BY <2>2
  <2>4. Append(f, NUL) \in Seq(Byte) /\ Len(Append(f, NUL)) = Len(f) + 1
    BY <2>1, <2>3, AppendType
  <2>5. r \in Seq(Byte) /\ Len(r) = Len(s) + (Len(f) + 1)
    BY <2>1, <2>4, ConcatProperties
  <2>6. Len(s) \in Nat /\ T \in Nat
    BY <2>1
  <2> HIDE DEF r, T
  <2> QED BY <2>1, <2>2, <2>3, <2>5, <2>6
<1>2. /\ \A i \in 1..Len(s) : r[i] = s[i]
      /\ \A i \in 1..Len(f) : r[Len(s) + i] = f[i] /\ f[i] # NUL
      /\ r[Len(r)] = NUL
  <2>1. \A i \in 1..Len(s) : r[i] = s[i]
    BY <1>1
  <2>2. \A i \in 1..Len(f) : r[Len(s) + i] = f[i] /\ f[i] # NUL
    BY <1>1
  <2>3. r[Len(r)] = NUL
    <3>1. Append(f, NUL)[Len(f) + 1] = NUL /\ Len(Append(f, NUL)) = Len(f) + 1
      BY <1>1
    <3>2. r[Len(s) + (Len(f) + 1)] = Append(f, NUL)[Len(f) + 1]
      BY <1>1
    <3> QED BY <1>1, <3>1, <3>2
  <2> QED BY <2>1, <2>2, <2>3
<1> HIDE DEF r
<1>3. Ends(r) = Ends(s) \cup {Len(r)} /\ Len(r) \notin Ends(s)
  <2>1. ASSUME NEW i \in 1..Len(r)
        PROVE  r[i] = NUL <=> (i \in 1..Len(s) /\ s[i] = NUL) \/ i = Len(r)
    <3>1. i \in 1..Len(s) \/ i = Len(r) \/ (i - Len(s) \in 1..Len(f) /\ Len(s) + (i - Len(s)) = i
                                             /\ i \notin 1..Len(s) /\ i # Len(r))
      <4>1. Len(s) \in Nat /\ Len(f) \in Nat /\ Len(r) = Len(s) + Len(f) + 1 /\ i \in Int
        BY <1>1
      <4>2. CASE i > Len(s) /\ i < Len(r)
        <5>1. i - Len(s) \in 1..Len(f) /\ Len(s) + (i - Len(s)) = i
          BY <4>1, <4>2
        <5>2. i \notin 1..Len(s) /\ i # Len(r)
          BY <4>1, <4>2
        <5> QED BY <5>1, <5>2
      <4>3. CASE i <= Len(s) \/ i >= Len(r)
        BY <4>1, <4>3
      <4> QED BY <4>1, <4>2, <4>3
    <3>2. i \in 1..Len(s) => i # Len(r)
      BY <1>1
    <3> QED BY <1>2, <3>1, <3>2
  <2>2. \A i \in Ends(s) : i \in 1..Len(r) /\ i # Len(r)
    BY <1>1 DEF Ends
  <2>3. Len(r) \in 1..Len(r) /\ DOMAIN r = 1..Len(r) /\ DOMAIN s = 1..Len(s)
    BY <1>1
  <2> QED BY <2>1, <2>2, <2>3 DEF Ends
<1>4. Terminated(r) = T + 1
  <2>1. IsFiniteSet(Ends(s)) /\ Cardinality(Ends(s)) = T
    BY <1>1, EndsAreFinite DEF Parses, Terminated
  <2>2. Cardinality(Ends(s) \cup {Len(r)}) = Cardinality(Ends(s)) + 1
    BY <1>3, <2>1, FS_AddElement
  <2> QED BY <1>3, <2>1, <2>2 DEF Terminated
<1>5. End(r, T + 1) = Len(r)
  <2>1. Len(r) \in Ends(r)
    BY <1>3
  <2>2. EndsUpTo(r, Len(r)) = Ends(r)
    BY <1>1, EndsAreFinite DEF EndsUpTo
  <2>3. Rank(r, Len(r)) = T + 1
    BY <1>4, <2>2 DEF Rank, Terminated
  <2> QED BY <1>1, <2>1, <2>3, EndIs
<1>6. ASSUME NEW k \in 1..T PROVE End(r, k) = End(s, k)
  <2>1. k \in 1..Terminated(s)
    BY DEF Parses
  <2>2. End(s, k) \in Ends(s) /\ Rank(s, End(s, k)) = k
    BY <1>1, <2>1, EndOfField
  <2>3. End(s, k) \in Ends(r) /\ End(s, k) <= Len(s) /\ End(s, k) \in Nat
    BY <1>1, <1>3, <2>2, EndsAreFinite
  <2>4. EndsUpTo(r, End(s, k)) = EndsUpTo(s, End(s, k))
    BY <1>1, <1>3, <2>3 DEF EndsUpTo
  <2>5. Rank(r, End(s, k)) = k
    BY <2>2, <2>4 DEF Rank
  <2> QED BY <1>1, <2>3, <2>5, EndIs
<1>7. End(s, 0) = 0 /\ End(r, 0) = 0 /\ End(s, T) = Len(s)
  BY DEF End, Parses
<1>8. \A k \in 0..T : End(r, k) = End(s, k)
  BY <1>1, <1>6, <1>7
<1>9. ASSUME NEW k \in 1..T PROVE Field(r, k) = fs[k]
  <2>1. End(r, k - 1) = End(s, k - 1) /\ End(r, k) = End(s, k)
    BY <1>1, <1>8
  <2>2. End(s, k - 1) \in Nat /\ End(s, k) \in 1..Len(s)
    <3>1. k \in 1..Terminated(s) /\ (k # 1 => k - 1 \in 1..Terminated(s))
      BY <1>1 DEF Parses
    <3>2. End(s, k) \in 1..Len(s)
      BY <1>1, <3>1, EndOfField, EndsAreFinite
    <3>3. k # 1 => End(s, k - 1) \in 1..Len(s)
      BY <1>1, <3>1, EndOfField, EndsAreFinite
    <3>4. k = 1 => End(s, k - 1) = 0
      BY <1>7
    <3> QED BY <1>1, <3>2, <3>3, <3>4
  <2> DEFINE a == End(s, k - 1) + 1
             b == End(s, k) - 1
  <2>3. a \in Nat \ {0} /\ b \in Nat /\ b <= Len(s) /\ b <= Len(r)
    BY <1>1, <2>2
  <2>4. Field(r, k) = SubSeq(r, a, b) /\ Field(s, k) = SubSeq(s, a, b)
    BY <2>1 DEF Field
  <2> HIDE DEF a, b
  <2>5. SubSeq(r, a, b) = SubSeq(s, a, b)
    <3>1. Len(s) \in Nat /\ Len(r) \in Nat
      BY <1>1
    <3>2. \A i \in a..b : s[i] = r[i]
      BY <1>2, <2>3, <3>1
    <3>3. s \in Seq(Byte) /\ r \in Seq(Byte)
      BY <1>1
    <3> QED BY <2>3, <3>2, <3>3, SamePart
  <2>6. Field(s, k) = fs[k]
    BY DEF Parses
  <2> QED BY <2>4, <2>5, <2>6
<1>10. Field(r, T + 1) = f
  <2>1. End(r, (T + 1) - 1) = Len(s)
    BY <1>1, <1>7, <1>8
  <2>2. Field(r, T + 1) = SubSeq(r, Len(s) + 1, Len(s) + Len(f))
    BY <1>1, <1>5, <2>1, SMTT(30) DEF Field
  <2>3. SubSeq(r, Len(s) + 1, Len(s) + Len(f)) = f
    <3>1. \A i \in 1..Len(f) : r[Len(s) + i] = f[i]
      BY <1>2
    <3>2. Len(s) \in Nat /\ Len(s) + Len(f) <= Len(r)
      BY <1>1
    <3>3. f \in Seq(Byte) /\ r \in Seq(Byte)
      BY <1>1
    <3> QED BY <3>1, <3>2, <3>3, PartIs
  <2> QED BY <2>2, <2>3
<1>11. /\ Append(fs, f) \in Seq(Seq(Byte)) /\ Len(Append(fs, f)) = T + 1
       /\ Append(fs, f)[T + 1] = f /\ \A k \in 1..T : Append(fs, f)[k] = fs[k]
  BY <1>1
<1>12. \A k \in 1..(T + 1) : Field(r, k) = Append(fs, f)[k]
  BY <1>1, <1>9, <1>10, <1>11
<1>13. Parses(r, Append(fs, f))
  BY <1>1, <1>4, <1>5, <1>11, <1>12 DEF Parses
<1> QED BY <1>13 DEF r

-----------------------------------------------------------------------------
\* The first pages of the PDF, and what dump() writes behind the indicator.
FirstPages(n) == SubSeq(Doc, 1, n)
Dumped(n) == <<CACHE_VERSION, NUL>> \o Records(FirstPages(n))

LEMMA FirstPagesAre ==
  ASSUME NEW n \in 0..Len(Doc)
  PROVE  /\ FirstPages(n) \in Seq(PageType) /\ Len(FirstPages(n)) = n
         /\ \A i \in 1..n : FirstPages(n)[i] = Doc[i]
<1>1. Doc \in Seq(PageType)
  <2>1. \A l : l \in Seq(Byte \ {NUL}) => l \in Seq(Byte)
    <3> TAKE l
    <3> HAVE l \in Seq(Byte \ {NUL})
    <3>1. Len(l) \in Nat /\ l = [i \in 1..Len(l) |-> l[i]] /\ \A i \in 1..Len(l) : l[i] \in Byte
      OBVIOUS
    <3> QED BY <3>1
  <2> DEFINE T == [label: Seq(Byte \ {NUL}), text: Seq(Byte \ {NUL})]
  <2>2. \A page \in T : page \in PageType
    BY <2>1 DEF PageType
  <2>3. Doc \in Seq(T)
    BY DocAssumption
  <2> HIDE DEF T
  <2>4. Len(Doc) \in Nat /\ Doc = [i \in 1..Len(Doc) |-> Doc[i]] /\ \A i \in 1..Len(Doc) : Doc[i] \in T
    BY <2>3
  <2> QED BY <2>2, <2>4
<1>2. n \in Nat /\ n <= Len(Doc)
  BY <1>1
<1>3. \A i \in 1..n : Doc[i] \in PageType
  BY <1>1, <1>2
<1>4. /\ SubSeq(Doc, 1, n) \in Seq(PageType)
      /\ Len(SubSeq(Doc, 1, n)) = (IF 1 <= n THEN n - 1 + 1 ELSE 0)
      /\ \A i \in 1..(n - 1 + 1) : SubSeq(Doc, 1, n)[i] = Doc[1 + i - 1]
  BY <1>2, <1>3, SubSeqProperties
<1>5. n - 1 + 1 = n /\ (IF 1 <= n THEN n - 1 + 1 ELSE 0) = n /\ \A i \in 1..n : 1 + i - 1 = i
  BY <1>2
<1> QED BY <1>4, <1>5 DEF FirstPages

LEMMA FieldsOfPage ==
  ASSUME NEW i \in 1..Len(Doc)
  PROVE  /\ Doc[i].label \in Seq(Byte \ {NUL}) /\ Doc[i].text \in Seq(Byte \ {NUL})
         /\ Doc[i] = [label |-> Doc[i].label, text |-> Doc[i].text]
<1> DEFINE T == [label: Seq(Byte \ {NUL}), text: Seq(Byte \ {NUL})]
<1>1. Doc[i] \in T
  <2>1. Doc \in Seq(T)
    BY DocAssumption
  <2> HIDE DEF T
  <2> QED BY <2>1
<1> QED BY <1>1

LEMMA Characters ==
  /\ NUL \in Byte /\ CACHE_VERSION \in Byte /\ Indicator \in Byte
  /\ CACHE_VERSION \in Byte \ {NUL} /\ Indicator # NUL
BY ByteAssumption

LEMMA RecordType ==
  ASSUME NEW page \in PageType
  PROVE  Record(page) \in Seq(Byte)
<1>1. page.label \in Seq(Byte) /\ page.text \in Seq(Byte) /\ NUL \in Byte
  BY ByteAssumption DEF PageType
<1>2. Append(page.label, NUL) \in Seq(Byte) /\ Append(page.text, NUL) \in Seq(Byte)
  BY <1>1, AppendType
<1> QED BY <1>2, ConcatProperties DEF Record

LEMMA RecordsType ==
  ASSUME NEW pages \in Seq(PageType)
  PROVE  Records(pages) \in Seq(Byte)
<1> DEFINE rs == [i \in 1..Len(pages) |-> Record(pages[i])]
<1>1. rs \in Seq(Seq(Byte))
  <2>1. Len(pages) \in Nat /\ \A i \in 1..Len(pages) : pages[i] \in PageType
    OBVIOUS
  <2>2. \A i \in 1..Len(pages) : Record(pages[i]) \in Seq(Byte)
    BY <2>1, RecordType
  <2> QED BY <2>1, <2>2
<1> HIDE DEF rs
<1>2. FlattenSeq(rs) \in Seq(Byte)
  BY <1>1, FlattenType
<1> QED BY <1>2 DEF Records, rs

\* The first page follows nothing, each other one those before it.
LEMMA RecordsGrow ==
  /\ Records(FirstPages(0)) = <<>>
  /\ \A n \in Nat : n + 1 <= Len(Doc) =>
       Records(FirstPages(n + 1)) = Records(FirstPages(n)) \o Record(Doc[n + 1])
<1>1. Len(Doc) \in Nat
  BY DocAssumption
<1>2. Records(FirstPages(0)) = <<>>
  <2>1. Len(FirstPages(0)) = 0
    BY <1>1, FirstPagesAre
  <2>2. [i \in 1..Len(FirstPages(0)) |-> Record(FirstPages(0)[i])] = <<>>
    BY <2>1
  <2> QED BY <2>2, FlattenEmpty DEF Records
<1>3. ASSUME NEW n \in Nat, n + 1 <= Len(Doc)
      PROVE  Records(FirstPages(n + 1)) = Records(FirstPages(n)) \o Record(Doc[n + 1])
  <2> DEFINE all == [i \in 1..Len(FirstPages(n + 1)) |-> Record(FirstPages(n + 1)[i])]
             front == [i \in 1..Len(FirstPages(n)) |-> Record(FirstPages(n)[i])]
             last == Record(Doc[n + 1])
  <2>1. n \in 0..Len(Doc) /\ n + 1 \in 0..Len(Doc)
    BY <1>1, <1>3
  <2>2. /\ Len(FirstPages(n)) = n /\ Len(FirstPages(n + 1)) = n + 1
        /\ \A i \in 1..n : FirstPages(n)[i] = Doc[i]
        /\ \A i \in 1..(n + 1) : FirstPages(n + 1)[i] = Doc[i]
    BY <2>1, FirstPagesAre
  <2>3. \A i \in 1..(n + 1) : Record(Doc[i]) \in Seq(Byte)
    <3>1. FirstPages(n + 1) \in Seq(PageType)
      BY <2>1, FirstPagesAre
    <3>2. \A i \in 1..(n + 1) : Doc[i] \in PageType
      BY <2>2, <3>1
    <3> QED BY <3>2, RecordType
  <2>4. all = [i \in 1..(n + 1) |-> Record(Doc[i])] /\ front = [i \in 1..n |-> Record(Doc[i])]
    BY <2>2
  <2>5. front \in Seq(Seq(Byte)) /\ last \in Seq(Byte) /\ all = Append(front, last)
    <3>1. front \in Seq(Seq(Byte)) /\ Len(front) = n
      <4>1. \A i \in 1..n : Record(Doc[i]) \in Seq(Byte)
        BY <2>3
      <4> HIDE DEF front
      <4> QED BY <2>4, <4>1
    <3>2. last \in Seq(Byte)
      BY <2>3
    <3>3. all \in Seq(Seq(Byte)) /\ Len(all) = n + 1
      <4> HIDE DEF all
      <4> QED BY <2>3, <2>4
    <3>4. \A i \in 1..n : all[i] = front[i]
      <4> HIDE DEF all, front
      <4> QED BY <2>4
    <3>5. all[n + 1] = last
      <4> HIDE DEF all
      <4> QED BY <2>4
    <3> HIDE DEF all, front, last
    <3>6. /\ Append(front, last) \in Seq(Seq(Byte)) /\ Len(Append(front, last)) = n + 1
          /\ Append(front, last)[n + 1] = last
          /\ \A i \in 1..n : Append(front, last)[i] = front[i]
      BY <3>1, <3>2, AppendType
    <3>7. \A i \in 1..(n + 1) : all[i] = Append(front, last)[i]
      <4>1. \A i \in 1..(n + 1) : i \in 1..n \/ i = n + 1
        OBVIOUS
      <4> QED BY <3>4, <3>5, <3>6, <4>1
    <3>8. all = Append(front, last)
      BY <3>3, <3>6, <3>7, SeqEqual
    <3> QED BY <3>1, <3>2, <3>8
  <2>6. Records(FirstPages(n + 1)) = FlattenSeq(all) /\ Records(FirstPages(n)) = FlattenSeq(front)
    BY DEF Records
  <2> HIDE DEF all, front, last
  <2>7. FlattenSeq(Append(front, last)) = FlattenSeq(front) \o last
    BY <2>5, FlattenAppend
  <2> QED BY <2>5, <2>6, <2>7 DEF last
<1> QED BY <1>2, <1>3

\* The fields of a file are the version, and the label and text of each page.
HoldsPages(fs, n) ==
  /\ Len(fs) = 2 * n + 1 /\ fs[1] = <<CACHE_VERSION>>
  /\ \A i \in 1..n : fs[2 * i] = Doc[i].label /\ fs[2 * i + 1] = Doc[i].text

LEMMA DumpParses ==
  ASSUME NEW n \in 0..Len(Doc)
  PROVE  \E fs : Parses(Dumped(n), fs) /\ HoldsPages(fs, n)
<1> DEFINE P(k) == \E fs : Parses(Dumped(k), fs) /\ HoldsPages(fs, k)
           S == {k \in Nat : k <= Len(Doc) => P(k)}
<1>1. 0 \in S
  <2>1. Dumped(0) = <<CACHE_VERSION, NUL>>
    <3>1. <<CACHE_VERSION, NUL>> \in Seq(Byte)
      BY Characters
    <3>2. Records(FirstPages(0)) = <<>>
      BY RecordsGrow
    <3> QED BY <3>1, <3>2, ConcatEmptySeq DEF Dumped
  <2>2. <<>> \o Append(<<CACHE_VERSION>>, NUL) = <<CACHE_VERSION, NUL>>
    <3>1. Append(<<CACHE_VERSION>>, NUL) = <<CACHE_VERSION, NUL>>
      BY AppendToOne
    <3>2. <<CACHE_VERSION, NUL>> \in Seq(Byte)
      BY Characters
    <3> QED BY <3>1, <3>2, ConcatEmptySeq
  <2>3. <<CACHE_VERSION>> \in Seq(Byte \ {NUL})
    BY Characters
  <2>4. Parses(<<>> \o Append(<<CACHE_VERSION>>, NUL), Append(<<>>, <<CACHE_VERSION>>))
    BY <2>3, NothingParses, OneFieldMore
  <2>5. HoldsPages(Append(<<>>, <<CACHE_VERSION>>), 0)
    BY DEF HoldsPages
  <2>6. P(0)
    BY <2>1, <2>2, <2>4, <2>5
  <2> HIDE DEF P
  <2> QED BY <2>6
<1>2. ASSUME NEW k \in Nat, k \in S PROVE k + 1 \in S
  <2> SUFFICES ASSUME k + 1 <= Len(Doc) PROVE P(k + 1)
    BY DEF P
  <2>1. k <= Len(Doc) /\ k \in 0..Len(Doc) /\ k + 1 \in 1..Len(Doc)
    BY DocAssumption
  <2>2. PICK fs : Parses(Dumped(k), fs) /\ HoldsPages(fs, k)
    BY <1>2, <2>1
  <2> DEFINE l == Doc[k + 1].label
             t == Doc[k + 1].text
             gs == Append(fs, l)
             hs == Append(gs, t)
  <2>3. l \in Seq(Byte \ {NUL}) /\ t \in Seq(Byte \ {NUL})
    BY <2>1, FieldsOfPage
  <2>4. Parses(Dumped(k) \o Append(l, NUL), gs)
    BY <2>2, <2>3, OneFieldMore
  <2>5. Parses((Dumped(k) \o Append(l, NUL)) \o Append(t, NUL), hs)
    BY <2>3, <2>4, OneFieldMore
  <2>6. Dumped(k + 1) = (Dumped(k) \o Append(l, NUL)) \o Append(t, NUL)
    <3> DEFINE h == <<CACHE_VERSION, NUL>>
               r == Records(FirstPages(k))
               lf == Append(l, NUL)
               tf == Append(t, NUL)
    <3>1. h \in Seq(Byte) /\ r \in Seq(Byte) /\ lf \in Seq(Byte) /\ tf \in Seq(Byte)
      <4>1. h \in Seq(Byte)
        BY Characters
      <4>2. r \in Seq(Byte)
        BY <2>1, FirstPagesAre, RecordsType
      <4>3. l \in Seq(Byte) /\ t \in Seq(Byte)
        <5>1. FirstPages(k + 1) \in Seq(PageType) /\ Len(FirstPages(k + 1)) = k + 1
              /\ FirstPages(k + 1)[k + 1] = Doc[k + 1]
          BY <2>1, FirstPagesAre
        <5>2. Doc[k + 1] \in PageType
          BY <5>1
        <5> QED BY <5>2 DEF PageType
      <4>4. NUL \in Byte
        BY ByteAssumption
      <4> QED BY <4>1, <4>2, <4>3, <4>4, AppendType
    <3>2. Dumped(k + 1) = h \o (r \o (lf \o tf)) /\ Dumped(k) = h \o r
      BY RecordsGrow, <2>1 DEF Dumped, Record
    <3> HIDE DEF h, r, lf, tf
    <3>3. h \o r \in Seq(Byte) /\ lf \o tf \in Seq(Byte)
      BY <3>1, ConcatProperties
    <3>4. (h \o r) \o (lf \o tf) = h \o (r \o (lf \o tf))
      <4> DEFINE both == lf \o tf
      <4>1. h \in Seq(Byte) /\ r \in Seq(Byte) /\ both \in Seq(Byte)
        BY <3>1, <3>3
      <4> HIDE DEF both
      <4>2. (h \o r) \o both = h \o (r \o both)
        BY <4>1, ConcatAssociative, SMTT(30)
      <4> QED BY <4>2 DEF both
    <3>5. ((h \o r) \o lf) \o tf = (h \o r) \o (lf \o tf)
      <4> DEFINE front == h \o r
      <4>1. front \in Seq(Byte) /\ lf \in Seq(Byte) /\ tf \in Seq(Byte)
        BY <3>1, <3>3
      <4> HIDE DEF front
      <4>2. (front \o lf) \o tf = front \o (lf \o tf)
        BY <4>1, ConcatAssociative, SMTT(30)
      <4> QED BY <4>2 DEF front
    <3> QED BY <3>2, <3>4, <3>5 DEF lf, tf
  <2>7. HoldsPages(hs, k + 1)
    <3>1. /\ fs \in Seq(Seq(Byte)) /\ gs \in Seq(Seq(Byte)) /\ hs \in Seq(Seq(Byte))
          /\ Len(fs) = 2 * k + 1
      BY <2>2, <2>4, <2>5 DEF Parses, HoldsPages
    <3>2. l \in Seq(Byte) /\ t \in Seq(Byte)
      <4>1. FirstPages(k + 1) \in Seq(PageType) /\ Len(FirstPages(k + 1)) = k + 1
            /\ FirstPages(k + 1)[k + 1] = Doc[k + 1]
        BY <2>1, FirstPagesAre
      <4>2. Doc[k + 1] \in PageType
        BY <4>1
      <4> QED BY <4>2 DEF PageType
    <3> HIDE DEF l, t
    <3>3. /\ Len(gs) = 2 * k + 2 /\ gs[2 * k + 2] = l
          /\ \A i \in 1..(2 * k + 1) : gs[i] = fs[i]
      <4>1. /\ Len(gs) = Len(fs) + 1 /\ gs[Len(fs) + 1] = l
            /\ \A i \in 1..Len(fs) : gs[i] = fs[i]
        <5>1. fs \in Seq(Seq(Byte)) /\ l \in Seq(Byte)
          BY <3>1, <3>2
        <5> QED BY <5>1, AppendType
      <4>2. Len(fs) + 1 = 2 * k + 2
        BY <3>1
      <4> HIDE DEF gs
      <4> QED BY <3>1, <4>1, <4>2
    <3>4. /\ Len(hs) = 2 * k + 3 /\ hs[2 * k + 3] = t
          /\ \A i \in 1..(2 * k + 2) : hs[i] = gs[i]
      <4> HIDE DEF gs
      <4>1. /\ Len(hs) = Len(gs) + 1 /\ hs[Len(gs) + 1] = t
            /\ \A i \in 1..Len(gs) : hs[i] = gs[i]
        BY <3>1, <3>2, AppendType
      <4>2. Len(gs) + 1 = 2 * k + 3
        BY <3>3
      <4> HIDE DEF hs
      <4> QED BY <3>3, <4>1, <4>2
    <3> HIDE DEF gs, hs
    <3>5. hs[1] = <<CACHE_VERSION>>
      BY <2>2, <3>3, <3>4 DEF HoldsPages
    <3>6. ASSUME NEW i \in 1..(k + 1) PROVE hs[2 * i] = Doc[i].label /\ hs[2 * i + 1] = Doc[i].text
      <4>1. CASE i \in 1..k
        <5>1. 2 * i \in 1..(2 * k + 1) /\ 2 * i + 1 \in 1..(2 * k + 1)
              /\ 2 * i \in 1..(2 * k + 2) /\ 2 * i + 1 \in 1..(2 * k + 2)
          BY <4>1
        <5>2. fs[2 * i] = Doc[i].label /\ fs[2 * i + 1] = Doc[i].text
          BY <2>2, <4>1 DEF HoldsPages
        <5> QED BY <3>3, <3>4, <5>1, <5>2
      <4>2. CASE i = k + 1
        <5>1. 2 * i = 2 * k + 2 /\ 2 * i + 1 = 2 * k + 3 /\ 2 * k + 2 \in 1..(2 * k + 2)
          BY <4>2
        <5> QED BY <3>3, <3>4, <4>2, <5>1 DEF l, t
      <4> QED BY <4>1, <4>2
    <3>7. Len(hs) = 2 * (k + 1) + 1
      BY <3>4
    <3> QED BY <3>5, <3>6, <3>7 DEF HoldsPages
  <2> HIDE DEF hs
  <2> QED BY <2>5, <2>6, <2>7
<1>3. n \in S
  <2> HIDE DEF S
  <2>1. Nat \subseteq S
    BY <1>1, <1>2, Induction
  <2>2. n \in Nat
    OBVIOUS
  <2> QED BY <2>1, <2>2
<1>4. n <= Len(Doc)
  BY DocAssumption
<1> QED BY <1>3, <1>4

\* A file is the indicator and what follows it.
LEMMA FileIs ==
  ASSUME NEW n \in 0..Len(Doc), NEW x \in Byte
  PROVE  LET file == FileOf(x, FirstPages(n)) IN
         /\ file \in Seq(Byte) /\ file # <<>> /\ Head(file) = x /\ file[1] = x
         /\ Tail(file) = Dumped(n) /\ Len(file) = Len(Dumped(n)) + 1
         /\ \A i \in 1..Len(Dumped(n)) : file[i + 1] = Dumped(n)[i]
<1> DEFINE rs == Records(FirstPages(n))
           file == FileOf(x, FirstPages(n))
           V == CACHE_VERSION
<1>1. rs \in Seq(Byte) /\ Len(rs) \in Nat
  BY FirstPagesAre, RecordsType
<1>2. /\ <<V, NUL>> \in Seq(Byte) /\ <<x, V, NUL>> \in Seq(Byte)
      /\ Len(<<V, NUL>>) = 2 /\ Len(<<x, V, NUL>>) = 3
      /\ <<x, V, NUL>>[1] = x /\ <<x, V, NUL>>[2] = V /\ <<x, V, NUL>>[3] = NUL
      /\ <<V, NUL>>[1] = V /\ <<V, NUL>>[2] = NUL
  BY Characters
<1>3. file = <<x, V, NUL>> \o rs /\ Dumped(n) = <<V, NUL>> \o rs
  BY DEF FileOf, Dumped
<1> HIDE DEF rs, file
<1>4. /\ file \in Seq(Byte) /\ Len(file) = 3 + Len(rs)
      /\ \A i \in 1..(3 + Len(rs)) : file[i] = IF i <= 3 THEN <<x, V, NUL>>[i] ELSE rs[i - 3]
  <2>1. <<x, V, NUL>> \in Seq(Byte) /\ rs \in Seq(Byte) /\ Len(<<x, V, NUL>>) = 3
    BY <1>1, <1>2
  <2> QED BY <1>3, <2>1, ConcatProperties
<1>5. /\ Dumped(n) \in Seq(Byte) /\ Len(Dumped(n)) = 2 + Len(rs)
      /\ \A i \in 1..(2 + Len(rs)) :
           Dumped(n)[i] = IF i <= 2 THEN <<V, NUL>>[i] ELSE rs[i - 2]
  <2>1. <<V, NUL>> \in Seq(Byte) /\ rs \in Seq(Byte) /\ Len(<<V, NUL>>) = 2
    BY <1>1, <1>2
  <2> QED BY <1>3, <2>1, ConcatProperties
<1>6. Len(file) = Len(Dumped(n)) + 1 /\ file # <<>> /\ file[1] = x
  <2>1. Len(file) \in Nat /\ Len(file) >= 3 /\ Len(file) = Len(Dumped(n)) + 1
    BY <1>1, <1>4, <1>5
  <2>2. 1 \in 1..(3 + Len(rs))
    BY <1>1
  <2>3. file[1] = x
    BY <1>2, <1>4, <2>2
  <2>4. file # <<>>
    BY <2>1
  <2> QED BY <2>1, <2>3, <2>4
<1>7. \A i \in 1..Len(Dumped(n)) : file[i + 1] = Dumped(n)[i]
  <2> TAKE i \in 1..Len(Dumped(n))
  <2>1. i \in 1..(2 + Len(rs)) /\ i + 1 \in 1..(3 + Len(rs)) /\ (i + 1) - 3 = i - 2
    BY <1>1, <1>5
  <2>2. CASE i = 1
    <3>1. i + 1 = 2 /\ i + 1 <= 3 /\ i <= 2
      BY <2>2
    <3> QED BY <1>2, <1>4, <1>5, <2>1, <2>2, <3>1
  <2>3. CASE i = 2
    <3>1. i + 1 = 3 /\ i + 1 <= 3 /\ i <= 2
      BY <2>3
    <3> QED BY <1>2, <1>4, <1>5, <2>1, <2>3, <3>1
  <2>4. CASE i # 1 /\ i # 2
    <3>1. ~ (i + 1 <= 3) /\ ~ (i <= 2)
      BY <2>1, <2>4
    <3>2. file[i + 1] = rs[(i + 1) - 3] /\ Dumped(n)[i] = rs[i - 2]
      BY <1>4, <1>5, <2>1, <3>1
    <3> QED BY <2>1, <3>2
  <2> QED BY <2>2, <2>3, <2>4
<1>8. Tail(file) = Dumped(n)
  <2>1. /\ Tail(file) \in Seq(Byte) /\ Len(Tail(file)) = Len(file) - 1
        /\ \A i \in 1..Len(Tail(file)) : Tail(file)[i] = file[i + 1]
    BY <1>4, <1>6, HeadTailProperties
  <2>2. Len(Tail(file)) = Len(Dumped(n))
    BY <1>1, <1>5, <1>6, <2>1
  <2>3. \A i \in 1..Len(Tail(file)) : Tail(file)[i] = Dumped(n)[i]
    BY <1>7, <2>1, <2>2
  <2> QED BY <1>5, <2>1, <2>2, <2>3, SeqEqual
<1>9. Head(file) = x
  BY <1>4, <1>6
<1> QED BY <1>4, <1>6, <1>7, <1>8, <1>9 DEF file

\* What was dumped and marked is what the next process reads, no page cut,
\* shifted or missing.
LEMMA DumpLoads ==
  ASSUME NEW n \in 0..Len(Doc)
  PROVE  Load(FileOf(Indicator, FirstPages(n))) = [valid |-> TRUE, pages |-> FirstPages(n)]
<1> DEFINE s == Dumped(n)
           file == FileOf(Indicator, FirstPages(n))
<1>1. file # <<>> /\ Head(file) = Indicator /\ Tail(file) = s
  BY FileIs, Characters
<1>2. PICK fs : Parses(s, fs) /\ HoldsPages(fs, n)
  BY DumpParses
<1> HIDE DEF s, file
<1>3. /\ s \in Seq(Byte) /\ n \in Nat /\ Terminated(s) = 2 * n + 1
      /\ Field(s, 1) = <<CACHE_VERSION>>
      /\ \A i \in 1..n : Field(s, 2 * i) = Doc[i].label /\ Field(s, 2 * i + 1) = Doc[i].text
  <2>1. Terminated(s) = 2 * n + 1 /\ s \in Seq(Byte) /\ n \in Nat
    BY <1>2 DEF Parses, HoldsPages
  <2>2. \A k \in 1..(2 * n + 1) : Field(s, k) = fs[k]
    BY <1>2 DEF Parses, HoldsPages
  <2>3. 1 \in 1..(2 * n + 1) /\ \A i \in 1..n : 2 * i \in 1..(2 * n + 1) /\ 2 * i + 1 \in 1..(2 * n + 1)
    BY <2>1
  <2> QED BY <1>2, <2>1, <2>2, <2>3 DEF HoldsPages
<1>4. IsComplete(file) /\ IsCurrent(s)
  <2>1. Readable(s, 1)
    BY <1>3 DEF Readable
  <2> QED BY <1>1, <1>3, <2>1 DEF IsComplete, IsCurrent
<1>5. {k \in 1..Len(s) : PageReadable(s, k)} = 1..n
  <2>1. 2 * n + 1 <= Len(s) /\ Len(s) \in Nat
    BY <1>3, EndsAreFinite
  <2>2. ASSUME NEW k \in 1..Len(s) PROVE PageReadable(s, k) <=> k \in 1..n
    <3>1. k \in 1..n => 2 * k <= 2 * n + 1 /\ 2 * k + 1 <= 2 * n + 1
      BY <1>3, <2>1
    <3>2. k \in 1..n => PageReadable(s, k)
      BY <1>3, <3>1 DEF PageReadable, Readable
    <3>3. k \notin 1..n => ~ (2 * k <= 2 * n + 1)
      BY <1>3, <2>1
    <3>4. k \notin 1..n => ~PageReadable(s, k)
      BY <1>3, <3>3 DEF PageReadable
    <3> QED BY <3>2, <3>4
  <2>3. \A k \in 1..n : k \in 1..Len(s)
    BY <1>3, <2>1
  <2> QED BY <2>2, <2>3
<1>6. Cardinality({k \in 1..Len(s) : PageReadable(s, k)}) = n
  <2>1. 1 \in Int /\ n \in Int /\ n \in Nat
    BY <1>3
  <2>2. Cardinality(1..n) = IF 1 > n THEN 0 ELSE n - 1 + 1
    BY <2>1, FS_Interval
  <2>3. Cardinality(1..n) = n
    BY <2>1, <2>2
  <2> QED BY <1>5, <2>3
<1>7. Load(file) = [valid |-> TRUE,
                    pages |-> [k \in 1..n |-> [label |-> Field(s, 2 * k),
                                               text  |-> Field(s, 2 * k + 1)]]]
  BY <1>1, <1>4, <1>6 DEF Load
<1>8. [k \in 1..n |-> [label |-> Field(s, 2 * k), text |-> Field(s, 2 * k + 1)]] = FirstPages(n)
  <2>1. \A k \in 1..n : [label |-> Field(s, 2 * k), text |-> Field(s, 2 * k + 1)] = FirstPages(n)[k]
    <3> TAKE k \in 1..n
    <3>1. k \in 1..Len(Doc)
      BY DocAssumption
    <3> QED BY <1>3, <3>1, FieldsOfPage, FirstPagesAre
  <2>2. FirstPages(n) = [k \in 1..n |-> FirstPages(n)[k]]
    BY FirstPagesAre
  <2> QED BY <2>1, <2>2
<1> QED BY <1>7, <1>8 DEF file

\* A file that does not begin with the indicator is none.
LEMMA UnmarkedIsNoCache ==
  ASSUME NEW bytes \in Seq(Byte), bytes = <<>> \/ bytes[1] # Indicator
  PROVE  Load(bytes) = NoCache
<1>1. bytes # <<>> => Head(bytes) = bytes[1]
  OBVIOUS
<1>2. ~IsComplete(bytes)
  BY <1>1 DEF IsComplete
<1> QED BY <1>2 DEF Load

-----------------------------------------------------------------------------
\* What the actions are built from.
LEMMA MaxIs ==
  ASSUME NEW a \in Nat, NEW b \in Nat
  PROVE  Max({a, b}) = IF a >= b THEN a ELSE b
<1> DEFINE m == IF a >= b THEN a ELSE b
<1>1. m \in {a, b} /\ \A y \in {a, b} : m >= y
  OBVIOUS
<1>2. \A x \in {a, b} : (\A y \in {a, b} : x >= y) => x = m
  OBVIOUS
<1> HIDE DEF m
<1>3. Max({a, b}) = m
  BY <1>1, <1>2 DEF Max
<1> QED BY <1>3 DEF m

LEMMA ChunksAre ==
  ASSUME NEW rest \in Int, NEW n \in Chunks(rest)
  PROVE  n \in Nat \ {0} /\ n <= rest
BY DEF Chunks

LEMMA WriteAtType ==
  ASSUME NEW file \in Seq(Byte), NEW offset \in Nat, NEW chunk \in Seq(Byte)
  PROVE  WriteAt(file, offset, chunk) \in Seq(Byte)
<1> DEFINE m == Max({Len(file), offset + Len(chunk)})
<1>1. Len(file) \in Nat /\ Len(chunk) \in Nat /\ offset + Len(chunk) \in Nat
  OBVIOUS
<1>2. m \in Nat
  BY <1>1, MaxIs
<1> HIDE DEF m
<1>3. ASSUME NEW i \in 1..m
      PROVE  (IF offset < i /\ i <= offset + Len(chunk) THEN chunk[i - offset]
              ELSE IF i <= Len(file) THEN file[i] ELSE NUL) \in Byte
  <2>1. offset < i /\ i <= offset + Len(chunk) => i - offset \in 1..Len(chunk)
    BY <1>1, <1>2
  <2>2. i <= Len(file) => i \in 1..Len(file)
    BY <1>1, <1>2
  <2>3. offset < i /\ i <= offset + Len(chunk) => chunk[i - offset] \in Byte
    BY <2>1
  <2>4. i <= Len(file) => file[i] \in Byte
    BY <2>2
  <2> QED BY <2>3, <2>4, Characters
<1>4. WriteAt(file, offset, chunk) =
        [i \in 1..m |-> IF offset < i /\ i <= offset + Len(chunk) THEN chunk[i - offset]
                        ELSE IF i <= Len(file) THEN file[i] ELSE NUL]
  BY DEF WriteAt, m
<1> QED BY <1>2, <1>3, <1>4

LEMMA ExtendedType ==
  ASSUME NEW pages \in Seq(PageType), NEW k \in 0..Len(Doc)
  PROVE  Extended(pages, k) \in Seq(PageType)
<1>1. Len(pages) \in Nat /\ k \in Nat /\ k <= Len(Doc)
  BY DocAssumption
<1> DEFINE m == Max({k, Len(pages)})
<1>2. m \in Nat /\ (m = k \/ m = Len(pages))
  BY <1>1, MaxIs
<1> HIDE DEF m
<1>3. ASSUME NEW i \in 1..m
      PROVE  (IF i <= Len(pages) THEN pages[i] ELSE Doc[i]) \in PageType
  <2>1. i <= Len(pages) => pages[i] \in PageType
    BY <1>1, <1>2
  <2>2. ~ (i <= Len(pages)) => i \in 1..k
    BY <1>1, <1>2
  <2>3. \A j \in 1..k : Doc[j] \in PageType
    <3>1. FirstPages(k) \in Seq(PageType) /\ Len(FirstPages(k)) = k
          /\ \A j \in 1..k : FirstPages(k)[j] = Doc[j]
      BY FirstPagesAre
    <3> QED BY <3>1
  <2> QED BY <2>1, <2>2, <2>3
<1>4. Extended(pages, k) = [i \in 1..m |-> IF i <= Len(pages) THEN pages[i] ELSE Doc[i]]
  BY DEF Extended, m
<1> QED BY <1>2, <1>3, <1>4

LEMMA FileType ==
  ASSUME NEW pages \in Seq(PageType)
  PROVE  FileOf(NUL, pages) \in Seq(Byte)
<1>1. <<NUL, CACHE_VERSION, NUL>> \in Seq(Byte)
  BY Characters
<1> QED BY <1>1, RecordsType, ConcatProperties DEF FileOf

LEMMA InodesAre == 1 \in Inodes /\ 0 \notin Inodes /\ Inodes \subseteq Nat
<1>1. Cardinality(Procs) \in Nat
  BY ProcsAssumption, FS_CardinalityType
<1> QED BY <1>1 DEF Inodes

\* The types of the variables, the Cache objects as a whole.
Phases == {"idle", "reading", "searching", "dumping", "writing"}
FilesTyped == entry \in Inodes \cup {0} /\ content \in [Inodes -> Seq(Byte)]
ProcsTyped ==
  /\ pc \in [Procs -> Phases] /\ fd \in [Procs -> Inodes \cup {0}]
  /\ \A p \in Procs : fd[p] # 0 <=> pc[p] \in {"reading", "writing"}
  /\ pos \in [Procs -> Nat] /\ buf \in [Procs -> Seq(Byte)]
  /\ mem \in [Procs -> MemType] /\ starts \in 0..MaxStarts
Typed == FilesTyped /\ ProcsTyped

LEMMA TypedIsEnough == Typed => TypeOK
<1> SUFFICES ASSUME Typed PROVE TypeOK
  OBVIOUS
<1>1. \A p \in Procs : mem[p].valid \in BOOLEAN /\ mem[p].pages \in Seq(PageType)
  BY DEF Typed, ProcsTyped, MemType
<1> QED BY <1>1 DEF Typed, FilesTyped, ProcsTyped, Phases, TypeOK, PageType

LEMMA GoneTyped ==
  ASSUME Typed, NEW p \in Procs, Gone(p)
  PROVE  ProcsTyped' /\ entry' \in Inodes \cup {0}
<1>1. NoCache \in MemType /\ <<>> \in Seq(Byte)
  BY DEF NoCache, MemType
<1> HIDE DEF NoCache, MemType
<1> QED BY <1>1 DEF Typed, FilesTyped, ProcsTyped, Phases, Gone

LEMMA OpenInode ==
  ASSUME Typed, NEW p \in Procs, pc[p] \in {"reading", "writing"}
  PROVE  fd[p] \in Inodes /\ content[fd[p]] \in Seq(Byte)
BY DEF Typed, FilesTyped, ProcsTyped

LEMMA TypedNext == Typed /\ [Next]_vars => Typed'
<1> SUFFICES ASSUME Typed, [Next]_vars PROVE Typed'
  OBVIOUS
<1> USE DEF Typed, FilesTyped, ProcsTyped
<1> HIDE DEF MemType
<1>1. ASSUME NEW p \in Procs, OpenForReading(p) PROVE Typed'
  <2>1. starts + 1 \in 0..MaxStarts
    BY <1>1, BoundsAssumption DEF OpenForReading
  <2>2. CASE entry = 0
    BY <1>1, <2>1, <2>2 DEF OpenForReading, Phases
  <2>3. CASE entry # 0
    BY <1>1, <2>1, <2>3, InodesAre DEF OpenForReading, Phases
  <2> QED BY <2>2, <2>3
<1>2. ASSUME NEW p \in Procs, ReadChunk(p) PROVE Typed'
  <2> DEFINE file == content[fd[p]]
  <2>1. pc[p] = "reading" /\ file \in Seq(Byte)
    BY <1>2, OpenInode DEF ReadChunk
  <2>2. PICK n \in Chunks(Len(file) - pos[p]) :
          /\ buf' = [buf EXCEPT ![p] = @ \o SubSeq(file, pos[p] + 1, pos[p] + n)]
          /\ pos' = [pos EXCEPT ![p] = @ + n]
    BY <1>2 DEF ReadChunk
  <2> HIDE DEF file
  <2>3. pos[p] \in Nat /\ Len(file) \in Nat
    BY <2>1
  <2>4. n \in Nat \ {0} /\ pos[p] + n <= Len(file)
    <3>1. Len(file) - pos[p] \in Int
      BY <2>3
    <3>2. n \in Nat \ {0} /\ n <= Len(file) - pos[p]
      BY <3>1, ChunksAre
    <3> QED BY <2>3, <3>2
  <2>5. SubSeq(file, pos[p] + 1, pos[p] + n) \in Seq(Byte)
    BY <2>1, <2>3, <2>4
  <2>6. buf[p] \o SubSeq(file, pos[p] + 1, pos[p] + n) \in Seq(Byte)
    BY <2>5, ConcatProperties
  <2>7. buf' \in [Procs -> Seq(Byte)]
    <3> DEFINE more == buf[p] \o SubSeq(file, pos[p] + 1, pos[p] + n)
    <3>1. buf' = [buf EXCEPT ![p] = more]
      BY <2>2
    <3> HIDE DEF more
    <3>2. more \in Seq(Byte)
      BY <2>6 DEF more
    <3> QED BY <3>1, <3>2
  <2>8. pos' \in [Procs -> Nat]
    <3>1. pos[p] + n \in Nat
      BY <2>3, <2>4
    <3> QED BY <2>2, <3>1
  <2> QED BY <1>2, <2>7, <2>8 DEF ReadChunk
<1>3. ASSUME NEW p \in Procs, EndOfFile(p) PROVE Typed'
  <2>1. Load(buf[p]) \in MemType /\ <<>> \in Seq(Byte)
    BY LoadType
  <2> QED BY <1>3, <2>1, InodesAre DEF EndOfFile, Phases
<1>4. ASSUME NEW p \in Procs, Search(p) PROVE Typed'
  <2>1. PICK k \in 0..Len(Doc) :
          mem' = [mem EXCEPT ![p].pages = Extended(mem[p].pages, k)]
    BY <1>4 DEF Search
  <2>2. mem[p] \in MemType
    OBVIOUS
  <2>3. Extended(mem[p].pages, k) \in Seq(PageType)
    BY <2>2, ExtendedType DEF MemType
  <2>4. [mem[p] EXCEPT !.pages = Extended(mem[p].pages, k)] \in MemType
    BY <2>2, <2>3 DEF MemType
  <2>5. mem' \in [Procs -> MemType]
    BY <2>1, <2>4
  <2> QED BY <1>4, <2>5 DEF Search, Phases
<1>5. ASSUME NEW p \in Procs, OpenForWriting(p) PROVE Typed'
  <2>1. FileOf(NUL, mem[p].pages) \in Seq(Byte) /\ <<>> \in Seq(Byte)
    <3>1. mem[p].pages \in Seq(PageType)
      BY DEF MemType
    <3> QED BY <3>1, FileType
  <2>2. PICK i \in Inodes : /\ entry' = i /\ content' = [content EXCEPT ![i] = <<>>]
                            /\ fd' = [fd EXCEPT ![p] = i]
    BY <1>5 DEF OpenForWriting
  <2> QED BY <1>5, <2>1, <2>2, InodesAre DEF OpenForWriting, Phases
<1>6. ASSUME NEW p \in Procs, WriteChunk(p) PROVE Typed'
  <2>1. pc[p] = "writing" /\ fd[p] \in Inodes /\ content[fd[p]] \in Seq(Byte)
    BY <1>6, OpenInode DEF WriteChunk
  <2>2. PICK n \in Chunks(Len(buf[p])) :
          /\ content' = [content EXCEPT ![fd[p]] = WriteAt(@, pos[p], SubSeq(buf[p], 1, n))]
          /\ buf' = [buf EXCEPT ![p] = SubSeq(@, n + 1, Len(@))]
          /\ pos' = [pos EXCEPT ![p] = @ + n]
    BY <1>6 DEF WriteChunk
  <2>3. buf[p] \in Seq(Byte) /\ Len(buf[p]) \in Nat /\ pos[p] \in Nat
    OBVIOUS
  <2>4. n \in Nat \ {0} /\ n <= Len(buf[p])
    BY <2>3, ChunksAre
  <2>5. SubSeq(buf[p], 1, n) \in Seq(Byte) /\ SubSeq(buf[p], n + 1, Len(buf[p])) \in Seq(Byte)
    BY <2>3, <2>4
  <2>6. WriteAt(content[fd[p]], pos[p], SubSeq(buf[p], 1, n)) \in Seq(Byte)
    BY <2>1, <2>3, <2>5, WriteAtType
  <2>7. content' \in [Inodes -> Seq(Byte)]
    BY <2>1, <2>2, <2>6
  <2>8. buf' \in [Procs -> Seq(Byte)]
    <3> DEFINE rest == SubSeq(buf[p], n + 1, Len(buf[p]))
    <3>1. buf' = [buf EXCEPT ![p] = rest]
      BY <2>2
    <3>2. rest \in Seq(Byte)
      BY <2>5
    <3> HIDE DEF rest
    <3> QED BY <3>1, <3>2
  <2>9. pos' \in [Procs -> Nat]
    <3>1. pos[p] + n \in Nat
      BY <2>3, <2>4
    <3> QED BY <2>2, <3>1
  <2> QED BY <1>6, <2>7, <2>8, <2>9 DEF WriteChunk
<1>7. ASSUME NEW p \in Procs, Mark(p) PROVE Typed'
  <2>1. pc[p] = "writing" /\ fd[p] \in Inodes /\ content[fd[p]] \in Seq(Byte)
    BY <1>7, OpenInode DEF Mark
  <2>2. WriteAt(content[fd[p]], 0, <<Indicator>>) \in Seq(Byte)
    <3>1. <<Indicator>> \in Seq(Byte)
      BY Characters
    <3> QED BY <2>1, <3>1, WriteAtType
  <2>3. content' \in [Inodes -> Seq(Byte)]
    BY <1>7, <2>1, <2>2 DEF Mark
  <2>4. ProcsTyped' /\ entry' \in Inodes \cup {0}
    BY <1>7, GoneTyped DEF Mark
  <2> QED BY <2>3, <2>4
<1>8. ASSUME NEW p \in Procs, Stop(p) PROVE Typed'
  <2>1. ProcsTyped' /\ entry' \in Inodes \cup {0}
    BY <1>8, GoneTyped DEF Stop
  <2>2. content' \in [Inodes -> Seq(Byte)]
    BY <1>8 DEF Stop
  <2> QED BY <2>1, <2>2
<1>9. CASE Unlink
  BY <1>9 DEF Unlink
<1>10. CASE UNCHANGED vars
  BY <1>10 DEF vars
<1> QED
  BY <1>1, <1>2, <1>3, <1>4, <1>5, <1>6, <1>7, <1>8, <1>9, <1>10 DEF Next

LEMMA TypedInit == Init => Typed
<1> SUFFICES ASSUME Init PROVE Typed
  OBVIOUS
<1>1. NoCache \in MemType /\ <<>> \in Seq(Byte)
  BY DEF NoCache, MemType
<1>2. PICK file \in InitialFiles \cup {<<>>} :
        /\ content = [i \in Inodes |-> IF i = 1 THEN file ELSE <<>>]
        /\ entry \in IF file = <<>> THEN {0, 1} ELSE {1}
  BY DEF Init
<1>3. file \in Seq(Byte)
  BY <1>1, InitialFilesAssumption
<1>4. FilesTyped
  BY <1>1, <1>2, <1>3, InodesAre DEF FilesTyped
<1>5. ProcsTyped
  BY <1>1, BoundsAssumption DEF Init, ProcsTyped, Phases
<1> QED BY <1>4, <1>5 DEF Typed

\* The state of the file and of the processes is well typed, for any number of
\* processes that read, write, unlink and crash in any order (TypeOK).
THEOREM TypeCorrect == Spec => []TypeOK
<1>1. Spec => []Typed
  BY TypedInit, TypedNext, PTL DEF Spec
<1> QED BY <1>1, TypedIsEnough, PTL

-----------------------------------------------------------------------------
\* Chunk by chunk: what has been read, what has been written.
LEMMA ReadMore ==
  ASSUME NEW c \in Seq(Byte), NEW m \in Nat, NEW n \in Nat, m + n <= Len(c)
  PROVE  SubSeq(c, 1, m) \o SubSeq(c, m + 1, m + n) = SubSeq(c, 1, m + n)
<1> DEFINE a == SubSeq(c, 1, m)
           b == SubSeq(c, m + 1, m + n)
           all == SubSeq(c, 1, m + n)
<1>1. Len(c) \in Nat /\ \A i \in 1..Len(c) : c[i] \in Byte
  OBVIOUS
<1>2. a \in Seq(Byte) /\ Len(a) = m /\ \A i \in 1..m : a[i] = c[i]
  BY <1>1
<1>3. b \in Seq(Byte) /\ Len(b) = n /\ \A i \in 1..n : b[i] = c[m + i]
  BY <1>1
<1>4. all \in Seq(Byte) /\ Len(all) = m + n /\ \A i \in 1..(m + n) : all[i] = c[i]
  BY <1>1
<1> HIDE DEF a, b, all
<1>5. /\ a \o b \in Seq(Byte) /\ Len(a \o b) = m + n
      /\ \A i \in 1..(m + n) : (a \o b)[i] = IF i <= m THEN a[i] ELSE b[i - m]
  BY <1>2, <1>3, ConcatProperties, ZenonT(30)
<1>6. \A i \in 1..(m + n) : (a \o b)[i] = c[i]
  <2> TAKE i \in 1..(m + n)
  <2>1. i <= m => i \in 1..m
    OBVIOUS
  <2>2. ~ (i <= m) => i - m \in 1..n /\ m + (i - m) = i
    OBVIOUS
  <2> QED BY <1>2, <1>3, <1>5, <2>1, <2>2
<1>7. a \o b = all
  BY <1>4, <1>5, <1>6, SeqEqual
<1> QED BY <1>7 DEF a, b, all

LEMMA Regrouped ==
  ASSUME NEW a \in Seq(Byte), NEW b \in Seq(Byte), NEW c \in Seq(Byte)
  PROVE  (a \o b) \o c = a \o (b \o c)
BY ConcatAssociative

LEMMA WriteAtEnd ==
  ASSUME NEW c \in Seq(Byte), NEW chunk \in Seq(Byte)
  PROVE  WriteAt(c, Len(c), chunk) = c \o chunk
<1> DEFINE m == Max({Len(c), Len(c) + Len(chunk)})
           w == WriteAt(c, Len(c), chunk)
<1>1. Len(c) \in Nat /\ Len(chunk) \in Nat
  OBVIOUS
<1>2. m = Len(c) + Len(chunk)
  <2>1. Len(c) + Len(chunk) \in Nat
    BY <1>1
  <2>2. m = IF Len(c) >= Len(c) + Len(chunk) THEN Len(c) ELSE Len(c) + Len(chunk)
    BY <1>1, <2>1, MaxIs
  <2> QED BY <1>1, <2>2
<1> HIDE DEF m
<1>3. w = [i \in 1..m |-> IF Len(c) < i /\ i <= Len(c) + Len(chunk) THEN chunk[i - Len(c)]
                          ELSE IF i <= Len(c) THEN c[i] ELSE NUL]
  BY DEF WriteAt, m
<1>4. w \in Seq(Byte)
  BY <1>1, WriteAtType
<1> HIDE DEF w
<1>5. Len(w) = m
  BY <1>1, <1>2, <1>3
<1>6. \A i \in 1..m : w[i] = IF i <= Len(c) THEN c[i] ELSE chunk[i - Len(c)]
  <2> TAKE i \in 1..m
  <2>1. i <= Len(c) => ~ (Len(c) < i)
    BY <1>1, <1>2
  <2>2. ~ (i <= Len(c)) => Len(c) < i /\ i <= Len(c) + Len(chunk)
    BY <1>1, <1>2
  <2> QED BY <1>3, <2>1, <2>2
<1>7. /\ c \o chunk \in Seq(Byte) /\ Len(c \o chunk) = m
      /\ \A i \in 1..m : (c \o chunk)[i] = IF i <= Len(c) THEN c[i] ELSE chunk[i - Len(c)]
  BY <1>2, ConcatProperties
<1>8. w = c \o chunk
  BY <1>4, <1>5, <1>6, <1>7, SeqEqual
<1> QED BY <1>8 DEF w

LEMMA MarkedFile ==
  ASSUME NEW n \in 0..Len(Doc)
  PROVE  WriteAt(FileOf(NUL, FirstPages(n)), 0, <<Indicator>>) = FileOf(Indicator, FirstPages(n))
<1> DEFINE c == FileOf(NUL, FirstPages(n))
           d == FileOf(Indicator, FirstPages(n))
           w == WriteAt(c, 0, <<Indicator>>)
           m == Max({Len(c), 0 + Len(<<Indicator>>)})
           L == Len(Dumped(n))
<1>1. /\ c \in Seq(Byte) /\ c # <<>> /\ Len(c) = L + 1 /\ \A i \in 1..L : c[i + 1] = Dumped(n)[i]
      /\ d \in Seq(Byte) /\ d[1] = Indicator /\ Len(d) = L + 1
      /\ \A i \in 1..L : d[i + 1] = Dumped(n)[i]
  BY FileIs, Characters
<1>2. L \in Nat
  <2>1. Dumped(n) \in Seq(Byte)
    <3>1. PICK fs : Parses(Dumped(n), fs)
      BY DumpParses
    <3> QED BY <3>1 DEF Parses
  <2> QED BY <2>1
<1> HIDE DEF c, d, L
<1>3. m = L + 1
  <2>1. Len(c) \in Nat /\ 1 \in Nat /\ 0 + Len(<<Indicator>>) = 1
    BY <1>1, <1>2
  <2>2. m = IF Len(c) >= 1 THEN Len(c) ELSE 1
    BY <2>1, MaxIs
  <2> QED BY <1>1, <1>2, <2>2
<1>4. w = [i \in 1..m |-> IF 0 < i /\ i <= 0 + Len(<<Indicator>>) THEN <<Indicator>>[i - 0]
                          ELSE IF i <= Len(c) THEN c[i] ELSE NUL]
  BY DEF WriteAt
<1> HIDE DEF m
<1>5. w \in Seq(Byte)
  <2>1. <<Indicator>> \in Seq(Byte)
    BY Characters
  <2> QED BY <1>1, <2>1, WriteAtType
<1> HIDE DEF w
<1>6. Len(w) = L + 1
  BY <1>2, <1>3, <1>4
<1>7. ASSUME NEW i \in 1..(L + 1) PROVE w[i] = d[i]
  <2>1. CASE i = 1
    <3>1. w[1] = Indicator
      BY <1>2, <1>3, <1>4
    <3> QED BY <1>1, <2>1, <3>1
  <2>2. CASE i # 1
    <3>1. i - 1 \in 1..L /\ (i - 1) + 1 = i
      BY <1>2, <2>2
    <3>2. w[i] = c[i]
      BY <1>1, <1>2, <1>3, <1>4, <2>2
    <3> QED BY <1>1, <3>1, <3>2
  <2> QED BY <2>1, <2>2
<1>8. w = d
  BY <1>1, <1>5, <1>6, <1>7, SeqEqual
<1> QED BY <1>8 DEF w, c, d

-----------------------------------------------------------------------------
\* Processes that follow one another: one at a time, any number of starts.
\* (With two at once the properties below do not hold, cache_file_two_writers.)
OneProcess == \A p, q \in Procs : p = q

\* Pages as the PDF has them, from the first on; a file that is no cache or that
\* was dumped completely.
Rendered(pages) == \E n \in 0..Len(Doc) : pages = FirstPages(n)
Sound(file) ==
  Load(file) = NoCache \/ \E n \in 0..Len(Doc) : file = FileOf(Indicator, FirstPages(n))

\* A process that reads has the beginning of its file; the beginning of what one
\* that writes has to write is in its file, the rest in its buffer.
ReadSoFar(p) ==
  pos[p] <= Len(content[fd[p]]) /\ buf[p] = SubSeq(content[fd[p]], 1, pos[p])
WrittenSoFar(p) ==
  /\ entry \in {0, fd[p]} /\ Len(content[fd[p]]) = pos[p]
  /\ content[fd[p]] \o buf[p] = FileOf(NUL, mem[p].pages)
ProcInv(p) ==
  /\ Rendered(mem[p].pages)
  /\ pc[p] \in {"idle", "searching", "dumping"} => pos[p] = 0 /\ buf[p] = <<>>
  /\ pc[p] = "reading" => ReadSoFar(p)
  /\ pc[p] = "writing" => WrittenSoFar(p)
AllSound == \A i \in Inodes : Sound(content[i])
FileInv == AllSound /\ \A p \in Procs : ProcInv(p)

LEMMA EmptyIsSound == Sound(<<>>) /\ Load(<<>>) = NoCache
<1>1. <<>> \in Seq(Byte)
  OBVIOUS
<1> QED BY <1>1, UnmarkedIsNoCache DEF Sound

LEMMA NoPages == Rendered(NoCache.pages)
<1>1. 0 \in 0..Len(Doc)
  BY DocAssumption
<1>2. FirstPages(0) = <<>>
  BY <1>1, FirstPagesAre
<1> QED BY <1>1, <1>2 DEF Rendered, NoCache

\* A process reads what is rendered.
LEMMA SoundLoads ==
  ASSUME NEW file, Sound(file)
  PROVE  /\ Rendered(Load(file).pages)
         /\ Load(file) = NoCache \/ Load(file) = [valid |-> TRUE, pages |-> Load(file).pages]
<1>1. CASE Load(file) = NoCache
  BY <1>1, NoPages
<1>2. ASSUME NEW n \in 0..Len(Doc), file = FileOf(Indicator, FirstPages(n))
      PROVE  Rendered(Load(file).pages)
             /\ Load(file) = [valid |-> TRUE, pages |-> Load(file).pages]
  <2>1. Load(file) = [valid |-> TRUE, pages |-> FirstPages(n)]
    BY <1>2, DumpLoads
  <2>2. Load(file).pages = FirstPages(n)
    BY <2>1
  <2> QED BY <2>1, <2>2 DEF Rendered
<1> QED BY <1>1, <1>2 DEF Sound

\* A search adds to the first pages the next ones.
LEMMA SearchRenders ==
  ASSUME NEW pages, Rendered(pages), NEW k \in 0..Len(Doc)
  PROVE  Rendered(Extended(pages, k))
<1>1. PICK j \in 0..Len(Doc) : pages = FirstPages(j)
  BY DEF Rendered
<1>2. Len(pages) = j /\ (\A i \in 1..j : pages[i] = Doc[i]) /\ j \in Nat /\ k \in Nat
  BY <1>1, FirstPagesAre
<1> DEFINE m == IF k >= j THEN k ELSE j
<1>3. m \in 0..Len(Doc) /\ m \in Nat /\ Max({k, j}) = m
  BY <1>2, MaxIs
<1> HIDE DEF m
<1>4. Extended(pages, k) = [i \in 1..m |-> IF i <= j THEN pages[i] ELSE Doc[i]]
  BY <1>2, <1>3 DEF Extended
<1>5. \A i \in 1..m : (IF i <= j THEN pages[i] ELSE Doc[i]) = Doc[i]
  BY <1>2, <1>3
<1>6. FirstPages(m) = [i \in 1..m |-> Doc[i]]
  <2>1. FirstPages(m) = [i \in 1..m |-> FirstPages(m)[i]]
    BY <1>3, FirstPagesAre
  <2> QED BY <1>3, <2>1, FirstPagesAre
<1> QED BY <1>3, <1>4, <1>5, <1>6 DEF Rendered

LEMMA FileInvInit == Init => FileInv
<1> SUFFICES ASSUME Init PROVE FileInv
  OBVIOUS
<1>1. PICK file \in InitialFiles \cup {<<>>} :
        content = [i \in Inodes |-> IF i = 1 THEN file ELSE <<>>]
  BY DEF Init
<1>2. Sound(file)
  <2>1. file \in InitialFiles => Load(file) = NoCache
    BY InitialFilesAssumption DEF Load
  <2> QED BY <2>1, EmptyIsSound DEF Sound
<1>3. AllSound
  BY <1>1, <1>2, EmptyIsSound DEF AllSound
<1>4. \A p \in Procs : ProcInv(p)
  BY NoPages DEF Init, ProcInv
<1> QED BY <1>3, <1>4 DEF FileInv

\* What a killed process leaves behind, and how each one begins.
LEMMA GoneInv ==
  ASSUME NEW p \in Procs, Typed, Gone(p)
  PROVE  ProcInv(p)'
<1>1. pc'[p] = "idle" /\ pos'[p] = 0 /\ buf'[p] = <<>> /\ mem'[p] = NoCache
  BY DEF Gone, Typed, ProcsTyped
<1> QED BY <1>1, NoPages DEF ProcInv

\* At the end of the file the process has all of it.
LEMMA AllIsRead ==
  ASSUME NEW p \in Procs, Typed, ProcInv(p), EndOfFile(p)
  PROVE  buf[p] = content[fd[p]] /\ fd[p] \in Inodes
<1>1. pc[p] = "reading" /\ fd[p] \in Inodes /\ content[fd[p]] \in Seq(Byte)
  BY OpenInode DEF EndOfFile
<1>2. ReadSoFar(p) /\ pos[p] >= Len(content[fd[p]]) /\ pos[p] \in Nat
  BY <1>1 DEF ProcInv, EndOfFile, Typed, ProcsTyped
<1>3. pos[p] = Len(content[fd[p]])
  BY <1>1, <1>2 DEF ReadSoFar
<1> QED BY <1>1, <1>2, <1>3, SubSeqFull DEF ReadSoFar

\* The file a process is writing has no 'C': all other bytes go first.
LEMMA WritingIsUnmarked ==
  ASSUME NEW p \in Procs
  PROVE  Typed /\ pc[p] = "writing" /\ ProcInv(p) => Load(content[fd[p]]) = NoCache
<1> SUFFICES ASSUME Typed, pc[p] = "writing", ProcInv(p)
             PROVE  Load(content[fd[p]]) = NoCache
  OBVIOUS
<1> DEFINE file == content[fd[p]]
           rest == buf[p]
           all == FileOf(NUL, mem[p].pages)
<1>1. file \in Seq(Byte) /\ rest \in Seq(Byte) /\ file \o rest = all
  BY OpenInode DEF ProcInv, WrittenSoFar, Typed, ProcsTyped
<1>2. all[1] = NUL
  BY Characters, FileIs DEF ProcInv, Rendered
<1> HIDE DEF file, rest, all
<1>3. file = <<>> \/ (file \o rest)[1] = file[1]
  <2>1. CASE file # <<>>
    <3>1. Len(file) \in Nat /\ Len(rest) \in Nat /\ Len(file) >= 1
      BY <1>1, <2>1
    <3>2. 1 \in 1..(Len(file) + Len(rest)) /\ 1 <= Len(file)
      BY <3>1
    <3> QED BY <1>1, <3>2, ConcatProperties
  <2> QED BY <2>1
<1>4. file = <<>> \/ file[1] # Indicator
  BY <1>1, <1>2, <1>3, Characters
<1>5. Load(file) = NoCache
  BY <1>1, <1>4, UnmarkedIsNoCache
<1> QED BY <1>5 DEF file

LEMMA FileInvNext ==
  ASSUME OneProcess
  PROVE  Typed /\ FileInv /\ [Next]_vars => FileInv'
<1> SUFFICES ASSUME Typed, FileInv, [Next]_vars PROVE FileInv'
  OBVIOUS
<1> USE DEF Typed, FilesTyped, ProcsTyped
<1>1. ASSUME NEW p \in Procs, AllSound', ProcInv(p)' PROVE FileInv'
  BY <1>1 DEF OneProcess, FileInv
<1>2. \A p \in Procs : ProcInv(p)
  BY DEF FileInv
<1>3. UNCHANGED content => AllSound'
  BY DEF FileInv, AllSound
<1>4. ASSUME NEW p \in Procs, OpenForReading(p) PROVE FileInv'
  <2>1. pos'[p] = 0 /\ buf'[p] = <<>> /\ Rendered(mem'[p].pages)
    BY <1>2, <1>4 DEF OpenForReading, ProcInv
  <2>2. CASE entry = 0
    <3>1. pc'[p] = "searching"
      BY <1>4, <2>2 DEF OpenForReading
    <3> QED BY <1>1, <1>3, <1>4, <2>1, <3>1 DEF OpenForReading, ProcInv
  <2>3. CASE entry # 0
    <3>1. pc'[p] = "reading" /\ fd'[p] = entry /\ content' = content
      BY <1>4, <2>3 DEF OpenForReading
    <3>2. content[entry] \in Seq(Byte)
      BY <2>3
    <3>3. 0 <= Len(content[entry]) /\ SubSeq(content[entry], 1, 0) = <<>>
      BY <3>2
    <3>4. ReadSoFar(p)'
      BY <2>1, <3>1, <3>3 DEF ReadSoFar
    <3> QED BY <1>1, <1>3, <2>1, <3>1, <3>4 DEF ProcInv
  <2> QED BY <2>2, <2>3
<1>5. ASSUME NEW p \in Procs, ReadChunk(p) PROVE FileInv'
  <2> DEFINE file == content[fd[p]]
  <2>1. /\ pc[p] = "reading" /\ file \in Seq(Byte) /\ pos[p] \in Nat
        /\ pos[p] <= Len(file) /\ buf[p] = SubSeq(file, 1, pos[p]) /\ Len(file) \in Nat
    <3>1. pc[p] = "reading" /\ file \in Seq(Byte)
      BY <1>5, OpenInode DEF ReadChunk
    <3>2. ReadSoFar(p)
      BY <1>2, <3>1 DEF ProcInv
    <3> QED BY <3>1, <3>2 DEF ReadSoFar
  <2>2. PICK n \in Chunks(Len(file) - pos[p]) :
          /\ buf' = [buf EXCEPT ![p] = @ \o SubSeq(file, pos[p] + 1, pos[p] + n)]
          /\ pos' = [pos EXCEPT ![p] = @ + n]
    BY <1>5 DEF ReadChunk
  <2>3. content' = content /\ fd' = fd /\ pc' = pc /\ mem' = mem
    BY <1>5 DEF ReadChunk
  <2>4. content'[fd'[p]] = file
    BY <2>3
  <2> HIDE DEF file
  <2>5. n \in Nat /\ pos[p] + n <= Len(file)
    <3>1. Len(file) - pos[p] \in Int
      BY <2>1
    <3>2. n \in Nat /\ n <= Len(file) - pos[p]
      BY <3>1, ChunksAre
    <3> QED BY <2>1, <3>2
  <2>6. pos'[p] = pos[p] + n /\ buf'[p] = SubSeq(file, 1, pos[p] + n)
    <3>1. SubSeq(file, 1, pos[p]) \o SubSeq(file, pos[p] + 1, pos[p] + n) = SubSeq(file, 1, pos[p] + n)
      BY <2>1, <2>5, ReadMore
    <3>2. buf'[p] = buf[p] \o SubSeq(file, pos[p] + 1, pos[p] + n)
      BY <2>2
    <3>3. pos'[p] = pos[p] + n
      BY <2>2
    <3> QED BY <2>1, <3>1, <3>2, <3>3
  <2>7. ReadSoFar(p)'
    BY <2>4, <2>5, <2>6 DEF ReadSoFar
  <2>8. ProcInv(p)'
    BY <1>2, <2>1, <2>3, <2>7 DEF ProcInv
  <2> QED BY <1>1, <1>3, <2>3, <2>8
<1>6. ASSUME NEW p \in Procs, EndOfFile(p) PROVE FileInv'
  <2>1. mem'[p] = Load(buf[p]) /\ pc'[p] = "searching" /\ pos'[p] = 0 /\ buf'[p] = <<>>
        /\ UNCHANGED content
    BY <1>6 DEF EndOfFile
  <2>2. buf[p] = content[fd[p]] /\ fd[p] \in Inodes
    BY <1>2, <1>6, AllIsRead
  <2>3. Rendered(mem'[p].pages)
    BY <2>1, <2>2, SoundLoads DEF FileInv, AllSound
  <2>4. ProcInv(p)'
    BY <2>1, <2>3 DEF ProcInv
  <2> QED BY <1>1, <1>3, <2>1, <2>4
<1>7. ASSUME NEW p \in Procs, Search(p) PROVE FileInv'
  <2>1. PICK k \in 0..Len(Doc) : mem' = [mem EXCEPT ![p].pages = Extended(mem[p].pages, k)]
    BY <1>7 DEF Search
  <2>2. mem'[p].pages = Extended(mem[p].pages, k)
    <3>1. mem[p] \in MemType
      OBVIOUS
    <3> QED BY <2>1, <3>1 DEF MemType
  <2>3. Rendered(mem'[p].pages)
    BY <1>2, <2>2, SearchRenders DEF ProcInv
  <2>4. pc[p] = "searching" /\ pc'[p] = "dumping" /\ UNCHANGED <<content, pos, buf>>
    BY <1>7 DEF Search
  <2>5. ProcInv(p)'
    BY <1>2, <2>3, <2>4 DEF ProcInv
  <2> QED BY <1>1, <1>3, <2>4, <2>5
<1>8. ASSUME NEW p \in Procs, OpenForWriting(p) PROVE FileInv'
  <2>1. PICK i \in Inodes : /\ entry' = i /\ content' = [content EXCEPT ![i] = <<>>]
                            /\ fd' = [fd EXCEPT ![p] = i]
    BY <1>8 DEF OpenForWriting
  <2>2. /\ pc[p] = "dumping" /\ pc'[p] = "writing" /\ buf'[p] = FileOf(NUL, mem[p].pages)
        /\ UNCHANGED <<pos, mem>> /\ fd'[p] = i /\ content'[i] = <<>>
    BY <1>8, <2>1 DEF OpenForWriting
  <2>3. AllSound'
    BY <2>1, EmptyIsSound DEF FileInv, AllSound
  <2>4. buf'[p] \in Seq(Byte)
    BY <2>2, FileType DEF MemType
  <2>5. WrittenSoFar(p)'
    <3>1. pos'[p] = 0 /\ Len(content'[fd'[p]]) = 0
      BY <1>2, <2>2 DEF ProcInv
    <3>2. content'[fd'[p]] \o buf'[p] = buf'[p]
      BY <2>2, <2>4, ConcatEmptySeq
    <3> QED BY <2>1, <2>2, <3>1, <3>2 DEF WrittenSoFar
  <2>6. ProcInv(p)'
    BY <1>2, <2>2, <2>5 DEF ProcInv
  <2> QED BY <1>1, <2>3, <2>6
<1>9. ASSUME NEW p \in Procs, WriteChunk(p) PROVE FileInv'
  <2> DEFINE file == content[fd[p]]
  <2>1. /\ pc[p] = "writing" /\ file \in Seq(Byte) /\ WrittenSoFar(p) /\ fd[p] \in Inodes
        /\ Len(file) = pos[p]
    <3>1. pc[p] = "writing" /\ file \in Seq(Byte) /\ fd[p] \in Inodes
      BY <1>9, OpenInode DEF WriteChunk
    <3>2. WrittenSoFar(p)
      BY <1>2, <3>1 DEF ProcInv
    <3> QED BY <3>1, <3>2 DEF WrittenSoFar
  <2>2. PICK n \in Chunks(Len(buf[p])) :
          /\ content' = [content EXCEPT ![fd[p]] = WriteAt(@, pos[p], SubSeq(buf[p], 1, n))]
          /\ buf' = [buf EXCEPT ![p] = SubSeq(@, n + 1, Len(@))]
          /\ pos' = [pos EXCEPT ![p] = @ + n]
    BY <1>9 DEF WriteChunk
  <2>3. UNCHANGED <<entry, pc, fd, mem>>
    BY <1>9 DEF WriteChunk
  <2>4. buf[p] \in Seq(Byte) /\ Len(buf[p]) \in Nat /\ pos[p] \in Nat
    OBVIOUS
  <2>5. n \in Nat \ {0} /\ n <= Len(buf[p])
    BY <2>4, ChunksAre
  <2> DEFINE chunk == SubSeq(buf[p], 1, n)
             rest == SubSeq(buf[p], n + 1, Len(buf[p]))
  <2>6. /\ chunk \in Seq(Byte) /\ Len(chunk) = n /\ rest \in Seq(Byte)
        /\ chunk \o rest = buf[p]
    <3>1. chunk \in Seq(Byte) /\ Len(chunk) = n /\ rest \in Seq(Byte)
      BY <2>4, <2>5
    <3>2. Len(buf[p]) - n \in Nat /\ n + (Len(buf[p]) - n) = Len(buf[p])
      BY <2>4, <2>5
    <3>3. chunk \o SubSeq(buf[p], n + 1, n + (Len(buf[p]) - n))
            = SubSeq(buf[p], 1, n + (Len(buf[p]) - n))
      <4> DEFINE b == buf[p]
                 m == Len(b) - n
      <4>1. b \in Seq(Byte) /\ n \in Nat /\ m \in Nat /\ n + m <= Len(b)
        BY <2>4, <2>5, <3>2
      <4> HIDE DEF b, m
      <4>2. SubSeq(b, 1, n) \o SubSeq(b, n + 1, n + m) = SubSeq(b, 1, n + m)
        BY <4>1, ReadMore
      <4> QED BY <4>2 DEF b, m
    <3>4. chunk \o rest = SubSeq(buf[p], 1, Len(buf[p]))
      BY <3>2, <3>3
    <3> QED BY <2>4, <3>1, <3>4, SubSeqFull
  <2>7. buf'[p] = rest /\ pos'[p] = pos[p] + n
    BY <2>2
  <2> HIDE DEF chunk, rest
  <2>8. content'[fd'[p]] = file \o chunk
    <3>1. WriteAt(file, pos[p], chunk) = file \o chunk
      BY <2>1, <2>6, WriteAtEnd
    <3>2. content'[fd[p]] = WriteAt(file, pos[p], chunk)
      BY <2>1, <2>2 DEF chunk
    <3> QED BY <2>3, <3>1, <3>2
  <2>9. file \o chunk \in Seq(Byte) /\ Len(file \o chunk) = pos[p] + n
    <3>1. file \in Seq(Byte) /\ chunk \in Seq(Byte) /\ Len(file) = pos[p] /\ Len(chunk) = n
      BY <2>1, <2>6
    <3> HIDE DEF file
    <3>2. file \o chunk \in Seq(Byte) /\ Len(file \o chunk) = Len(file) + Len(chunk)
      BY <3>1, ConcatProperties
    <3> QED BY <3>1, <3>2
  <2>10. (file \o chunk) \o rest = FileOf(NUL, mem[p].pages)
    <3>1. (file \o chunk) \o rest = file \o (chunk \o rest)
      <4>1. file \in Seq(Byte) /\ chunk \in Seq(Byte) /\ rest \in Seq(Byte)
        BY <2>1, <2>6
      <4> HIDE DEF file, Typed, FilesTyped, ProcsTyped
      <4> QED BY <4>1, Regrouped
    <3>2. file \o buf[p] = FileOf(NUL, mem[p].pages)
      BY <2>1 DEF WrittenSoFar
    <3> QED BY <2>6, <3>1, <3>2
  <2>11. WrittenSoFar(p)'
    <3>1. entry' \in {0, fd'[p]}
      BY <2>1, <2>3 DEF WrittenSoFar
    <3>2. Len(content'[fd'[p]]) = pos'[p]
      BY <2>7, <2>8, <2>9
    <3>3. content'[fd'[p]] \o buf'[p] = FileOf(NUL, mem'[p].pages)
      BY <2>3, <2>7, <2>8, <2>10
    <3> QED BY <3>1, <3>2, <3>3 DEF WrittenSoFar
  <2>12. ProcInv(p)'
    BY <1>2, <2>1, <2>3, <2>11 DEF ProcInv
  <2>13. Load(content'[fd[p]]) = NoCache
    <3>1. (Typed /\ pc[p] = "writing" /\ ProcInv(p) => Load(content[fd[p]]) = NoCache)'
      BY WritingIsUnmarked, PTL
    <3>2. Typed'
      BY TypedNext
    <3> QED BY <2>1, <2>3, <2>12, <3>1, <3>2
  <2>14. AllSound'
    <3>1. Sound(content'[fd[p]])
      BY <2>13 DEF Sound
    <3> QED BY <2>1, <2>2, <3>1 DEF FileInv, AllSound
  <2> QED BY <1>1, <2>12, <2>14
<1>10. ASSUME NEW p \in Procs, Mark(p) PROVE FileInv'
  <2>1. pc[p] = "writing" /\ fd[p] \in Inodes /\ content[fd[p]] \in Seq(Byte) /\ buf[p] = <<>>
    BY <1>10, OpenInode DEF Mark
  <2>2. PICK n \in 0..Len(Doc) : mem[p].pages = FirstPages(n)
    BY <1>2 DEF ProcInv, Rendered
  <2>3. content[fd[p]] = FileOf(NUL, FirstPages(n))
    <3>1. content[fd[p]] \o <<>> = FileOf(NUL, FirstPages(n))
      BY <1>2, <2>1, <2>2 DEF ProcInv, WrittenSoFar
    <3> QED BY <2>1, <3>1, ConcatEmptySeq
  <2>4. content'[fd[p]] = FileOf(Indicator, FirstPages(n))
    BY <1>10, <2>1, <2>3, MarkedFile DEF Mark
  <2>5. Sound(content'[fd[p]])
    BY <2>4 DEF Sound
  <2>6. AllSound'
    BY <1>10, <2>1, <2>5 DEF Mark, FileInv, AllSound
  <2>7. ProcInv(p)'
    BY <1>10, GoneInv DEF Mark
  <2> QED BY <1>1, <2>6, <2>7
<1>11. ASSUME NEW p \in Procs, Stop(p) PROVE FileInv'
  BY <1>1, <1>3, <1>11, GoneInv DEF Stop
<1>12. CASE Unlink
  <2>1. \A p \in Procs : ProcInv(p)'
    BY <1>2, <1>12 DEF Unlink, ProcInv, ReadSoFar, WrittenSoFar
  <2> QED BY <1>3, <1>12, <2>1 DEF Unlink, FileInv
<1>13. CASE UNCHANGED vars
  <2>1. \A p \in Procs : ProcInv(p)'
    BY <1>2, <1>13 DEF vars, ProcInv, ReadSoFar, WrittenSoFar
  <2> QED BY <1>3, <1>13, <2>1 DEF vars, FileInv
<1> QED
  BY <1>4, <1>5, <1>6, <1>7, <1>8, <1>9, <1>10, <1>11, <1>12, <1>13 DEF Next

LEMMA FileInvAlways ==
  ASSUME OneProcess
  PROVE  Spec => [](Typed /\ FileInv)
BY TypedInit, TypedNext, FileInvInit, FileInvNext, PTL DEF Spec

\* A file that carries the 'C' and the version is a complete dump, whenever a
\* process was killed, a write failed or the file was unlinked (MarkedIsComplete).
THEOREM MarkedFilesAreComplete ==
  ASSUME OneProcess
  PROVE  Spec => []MarkedIsComplete
<1>1. FileInv => MarkedIsComplete
  <2> SUFFICES ASSUME FileInv, NEW i \in Inodes, Load(content[i]).valid
               PROVE  \E k \in 0..Len(Doc) : content[i] = FileOf(Indicator, SubSeq(Doc, 1, k))
    BY DEF MarkedIsComplete
  <2>1. Load(content[i]) # NoCache
    BY DEF NoCache
  <2> QED BY <2>1 DEF FileInv, AllSound, Sound, FirstPages
<1> QED BY <1>1, FileInvAlways, PTL

-----------------------------------------------------------------------------
\* The register that the file implements, and what its users have read from it.
Disk == IF entry = 0 THEN NoCache ELSE Load(content[entry])
MemOf(p) == IF pc[p] = "reading" THEN Load(content[fd[p]]) ELSE mem[p]
Mem == [p \in Procs |-> MemOf(p)]

LEMMA OnlyOneChanges ==
  ASSUME OneProcess, NEW p \in Procs
  PROVE  /\ Mem' = [Mem EXCEPT ![p] = MemOf(p)']
         /\ MemOf(p)' = MemOf(p) => Mem' = Mem
         /\ Mem[p] = MemOf(p)
<1>1. \A q \in Procs : q = p
  BY DEF OneProcess
<1> QED BY <1>1 DEF Mem

\* The actions of AtomicCache in these terms.
LEMMA AtomicActions ==
  ASSUME NEW p \in Procs
  PROVE  /\ Disk' = Disk /\ Mem' = [Mem EXCEPT ![p] = Disk] => Atomic!Load(p)
         /\ Disk' = Disk /\ Mem' = [Mem EXCEPT ![p] = NoCache] => Atomic!Exit(p)
         /\ (/\ Disk' = [valid |-> TRUE, pages |-> Mem[p].pages]
             /\ Mem' = [Mem EXCEPT ![p] = NoCache]) => Atomic!Save(p)
         /\ \A k \in 0..Len(Doc) :
              Disk' = Disk /\ Mem' = [Mem EXCEPT ![p].pages = Atomic!Extended(Mem[p].pages, k)]
                => Atomic!Render(p)
<1> USE DEF Disk, Mem, MemOf
<1>1. Disk' = Disk /\ Mem' = [Mem EXCEPT ![p] = Disk] => Atomic!Load(p)
  BY DEF Atomic!Load
<1>2. Disk' = Disk /\ Mem' = [Mem EXCEPT ![p] = NoCache] => Atomic!Exit(p)
  BY DEF Atomic!Exit, NoCache, Atomic!NoCache
<1>3. (/\ Disk' = [valid |-> TRUE, pages |-> Mem[p].pages]
       /\ Mem' = [Mem EXCEPT ![p] = NoCache]) => Atomic!Save(p)
  BY DEF Atomic!Save, NoCache, Atomic!NoCache
<1>4. ASSUME NEW k \in 0..Len(Doc), Disk' = Disk,
             Mem' = [Mem EXCEPT ![p].pages = Atomic!Extended(Mem[p].pages, k)]
      PROVE  Atomic!Render(p)
  BY <1>4 DEF Atomic!Render
<1> QED BY <1>1, <1>2, <1>3, <1>4

LEMMA AtomicLoss == Disk' = NoCache /\ Mem' = Mem => Atomic!Lose
BY DEF Atomic!Lose, NoCache, Atomic!NoCache, Disk, Mem, MemOf

LEMMA SameExtended ==
  ASSUME NEW pages \in Seq(PageType), NEW k \in 0..Len(Doc)
  PROVE  Extended(pages, k) = Atomic!Extended(pages, k)
<1>1. Len(pages) \in Nat /\ k \in Nat
  OBVIOUS
<1>2. Max({k, Len(pages)}) = IF k > Len(pages) THEN k ELSE Len(pages)
  <2>1. Max({k, Len(pages)}) = IF k >= Len(pages) THEN k ELSE Len(pages)
    BY <1>1, MaxIs
  <2> QED BY <1>1, <2>1
<1> QED BY <1>2 DEF Extended, Atomic!Extended

\* A process that reads already has what it will load, one that writes has taken
\* the register from all others, and the 'C' is the instant in which it saves.
LEMMA StepsAreAtomic ==
  ASSUME OneProcess
  PROVE  Typed /\ FileInv /\ [Next]_vars => [Atomic!Next]_<<Disk, Mem>>
<1> SUFFICES ASSUME Typed, FileInv, [Next]_vars
             PROVE  Atomic!Next \/ (Disk' = Disk /\ Mem' = Mem)
  OBVIOUS
<1>1. \A p \in Procs : ProcInv(p)
  BY DEF FileInv
<1>2. ASSUME NEW p \in Procs, OpenForReading(p) PROVE Atomic!Next \/ (Disk' = Disk /\ Mem' = Mem)
  <2>1. Disk' = Disk /\ mem' = mem /\ pc[p] = "idle"
    BY <1>2 DEF OpenForReading, Disk
  <2>2. CASE entry = 0
    <3>1. pc'[p] = "searching"
      BY <1>2, <2>2 DEF OpenForReading, Typed, ProcsTyped
    <3>2. MemOf(p)' = MemOf(p)
      BY <2>1, <3>1 DEF MemOf
    <3> QED BY <2>1, <3>2, OnlyOneChanges
  <2>3. CASE entry # 0
    <3>1. pc'[p] = "reading" /\ fd'[p] = entry /\ content' = content
      BY <1>2, <2>3 DEF OpenForReading, Typed, ProcsTyped
    <3>2. MemOf(p)' = Disk
      BY <2>3, <3>1 DEF MemOf, Disk
    <3>3. Mem' = [Mem EXCEPT ![p] = Disk]
      BY <3>2, OnlyOneChanges
    <3> QED BY <2>1, <3>3, AtomicActions DEF Atomic!Next
  <2> QED BY <2>2, <2>3
<1>3. ASSUME NEW p \in Procs, ReadChunk(p) PROVE Disk' = Disk /\ Mem' = Mem
  BY <1>3 DEF ReadChunk, Disk, Mem, MemOf
<1>4. ASSUME NEW p \in Procs, EndOfFile(p) PROVE Disk' = Disk /\ Mem' = Mem
  <2>1. Disk' = Disk
    BY <1>4 DEF EndOfFile, Disk
  <2>2. pc[p] = "reading" /\ pc'[p] = "searching" /\ mem'[p] = Load(buf[p])
    BY <1>4 DEF EndOfFile, Typed, ProcsTyped
  <2>3. buf[p] = content[fd[p]]
    BY <1>1, <1>4, AllIsRead
  <2>4. MemOf(p)' = MemOf(p)
    BY <2>2, <2>3 DEF MemOf
  <2> QED BY <2>1, <2>4, OnlyOneChanges
<1>5. ASSUME NEW p \in Procs, Search(p) PROVE Atomic!Next
  <2>1. PICK k \in 0..Len(Doc) : mem' = [mem EXCEPT ![p].pages = Extended(mem[p].pages, k)]
    BY <1>5 DEF Search
  <2>2. Disk' = Disk /\ pc[p] = "searching" /\ pc'[p] = "dumping"
    BY <1>5 DEF Search, Disk, Typed, ProcsTyped
  <2> DEFINE more == Atomic!Extended(mem[p].pages, k)
  <2>3. more = Extended(mem[p].pages, k)
    <3>1. mem[p].pages \in Seq(PageType)
      BY DEF Typed, ProcsTyped, MemType
    <3> QED BY <3>1, SameExtended
  <2>4. mem'[p] = [mem[p] EXCEPT !.pages = more]
    <3> HIDE DEF more
    <3> QED BY <2>1, <2>3 DEF Typed, ProcsTyped
  <2>5. MemOf(p) = mem[p] /\ MemOf(p)' = mem'[p]
    BY <2>2 DEF MemOf
  <2>6. Mem[p] = mem[p] /\ Mem' = [Mem EXCEPT ![p] = mem'[p]]
    BY <2>5, OnlyOneChanges
  <2>7. Mem' = [Mem EXCEPT ![p].pages = more]
    <3> HIDE DEF more
    <3> QED BY <2>4, <2>6 DEF Mem
  <2> QED BY <2>2, <2>6, <2>7, AtomicActions DEF Atomic!Next
<1>6. ASSUME NEW p \in Procs, OpenForWriting(p) PROVE Atomic!Next
  <2>1. PICK i \in Inodes : entry' = i /\ content' = [content EXCEPT ![i] = <<>>]
    BY <1>6 DEF OpenForWriting, Typed, FilesTyped
  <2>2. content'[i] = <<>> /\ i # 0
    BY <2>1, InodesAre DEF Typed, FilesTyped
  <2>3. Disk' = NoCache
    BY <2>1, <2>2, EmptyIsSound DEF Disk
  <2>4. MemOf(p)' = MemOf(p)
    BY <1>6 DEF OpenForWriting, MemOf, Typed, ProcsTyped
  <2> QED BY <2>3, <2>4, OnlyOneChanges, AtomicLoss DEF Atomic!Next
<1>7. ASSUME NEW p \in Procs, WriteChunk(p) PROVE Disk' = Disk /\ Mem' = Mem
  <2>1. pc[p] = "writing" /\ UNCHANGED <<entry, pc, fd, mem>>
    BY <1>7 DEF WriteChunk
  <2>2. MemOf(p)' = MemOf(p)
    BY <2>1 DEF MemOf
  <2>3. Load(content[fd[p]]) = NoCache
    BY <1>1, <2>1, WritingIsUnmarked
  <2>4. Load(content'[fd[p]]) = NoCache
    <3>1. (Typed /\ pc[p] = "writing" /\ ProcInv(p) => Load(content[fd[p]]) = NoCache)'
      BY WritingIsUnmarked, PTL
    <3>2. Typed' /\ ProcInv(p)'
      BY TypedNext, FileInvNext DEF FileInv
    <3> QED BY <2>1, <3>1, <3>2
  <2>5. entry = 0 \/ entry = fd[p]
    BY <1>1, <2>1 DEF ProcInv, WrittenSoFar
  <2>6. Disk' = Disk
    BY <2>1, <2>3, <2>4, <2>5 DEF Disk
  <2> QED BY <2>2, <2>6, OnlyOneChanges
<1>8. ASSUME NEW p \in Procs, Mark(p) PROVE Atomic!Next
  <2>1. /\ pc[p] = "writing" /\ buf[p] = <<>> /\ fd[p] \in Inodes /\ content[fd[p]] \in Seq(Byte)
        /\ pc'[p] = "idle" /\ mem'[p] = NoCache /\ entry' = entry
    BY <1>8, OpenInode DEF Mark, Gone, Typed, ProcsTyped
  <2>2. MemOf(p)' = NoCache /\ MemOf(p) = mem[p]
    BY <2>1 DEF MemOf
  <2>3. Mem' = [Mem EXCEPT ![p] = NoCache] /\ Mem[p] = mem[p]
    BY <2>2, OnlyOneChanges
  <2>4. CASE entry = 0
    <3>1. Disk' = Disk
      BY <2>1, <2>4 DEF Disk
    <3> QED BY <2>3, <3>1, AtomicActions DEF Atomic!Next
  <2>5. CASE entry = fd[p]
    <3>1. PICK n \in 0..Len(Doc) : mem[p].pages = FirstPages(n)
      BY <1>1 DEF ProcInv, Rendered
    <3>2. content[fd[p]] = FileOf(NUL, FirstPages(n))
      <4>1. content[fd[p]] \o <<>> = FileOf(NUL, FirstPages(n))
        BY <1>1, <2>1, <3>1 DEF ProcInv, WrittenSoFar
      <4> QED BY <2>1, <4>1, ConcatEmptySeq
    <3>3. content'[fd[p]] = FileOf(Indicator, FirstPages(n))
      BY <1>8, <2>1, <3>2, MarkedFile DEF Mark, Typed, FilesTyped
    <3>4. Disk' = [valid |-> TRUE, pages |-> Mem[p].pages]
      BY <2>1, <2>3, <2>5, <3>1, <3>3, DumpLoads, InodesAre DEF Disk
    <3> QED BY <2>3, <3>4, AtomicActions DEF Atomic!Next
  <2>6. entry = 0 \/ entry = fd[p]
    BY <1>1, <2>1 DEF ProcInv, WrittenSoFar
  <2> QED BY <2>4, <2>5, <2>6
<1>9. ASSUME NEW p \in Procs, Stop(p) PROVE Atomic!Next
  <2>1. Disk' = Disk /\ pc'[p] = "idle" /\ mem'[p] = NoCache
    BY <1>9 DEF Stop, Gone, Disk, Typed, ProcsTyped
  <2>2. MemOf(p)' = NoCache
    BY <2>1 DEF MemOf
  <2>3. Mem' = [Mem EXCEPT ![p] = NoCache]
    BY <2>2, OnlyOneChanges
  <2> QED BY <2>1, <2>3, AtomicActions DEF Atomic!Next
<1>10. CASE Unlink
  <2>1. Disk' = NoCache /\ Mem' = Mem
    BY <1>10 DEF Unlink, Disk, Mem, MemOf
  <2> QED BY <2>1, AtomicLoss DEF Atomic!Next
<1>11. CASE UNCHANGED vars
  BY <1>11 DEF vars, Disk, Mem, MemOf
<1> QED
  BY <1>2, <1>3, <1>4, <1>5, <1>6, <1>7, <1>8, <1>9, <1>10, <1>11 DEF Next

LEMMA AtomicInit == Init => Atomic!Init
<1> SUFFICES ASSUME Init PROVE Atomic!Init
  OBVIOUS
<1>1. PICK file \in InitialFiles \cup {<<>>} :
        /\ content = [i \in Inodes |-> IF i = 1 THEN file ELSE <<>>]
        /\ entry \in IF file = <<>> THEN {0, 1} ELSE {1}
  BY DEF Init
<1>2. Load(file) = NoCache
  <2>1. file \in InitialFiles => Load(file) = NoCache
    BY InitialFilesAssumption DEF Load
  <2> QED BY <2>1, EmptyIsSound
<1>3. entry # 0 => content[entry] = file
  BY <1>1, InodesAre
<1>4. Disk = NoCache
  BY <1>2, <1>3 DEF Disk
<1>5. Mem = [p \in Procs |-> NoCache]
  BY DEF Init, Mem, MemOf
<1> QED BY <1>4, <1>5 DEF Atomic!Init, Disk, Mem, MemOf, NoCache, Atomic!NoCache

\* The cache file is an atomic register for processes that follow one another,
\* however they read and write it, whenever they are killed (IsAtomic).
THEOREM FileIsAtomic ==
  ASSUME OneProcess
  PROVE  Spec => IsAtomic
<1>1. Typed /\ FileInv /\ [Next]_vars => [Atomic!Next]_<<Disk, Mem>>
  BY StepsAreAtomic
<1>2. Disk = (IF entry = 0 THEN NoCache ELSE Load(content[entry]))
      /\ Mem = [p \in Procs |-> IF pc[p] = "reading" THEN Load(content[fd[p]]) ELSE mem[p]]
  BY DEF Disk, Mem, MemOf
<1> QED
  BY <1>1, AtomicInit, FileInvAlways, PTL DEF Spec, IsAtomic, Atomic!Spec, Disk, Mem, MemOf

-----------------------------------------------------------------------------
\* Neither the file nor the memory of a process ever holds a page that is
\* truncated, shifted or missing.
OnlyRenderedPages == Rendered(Disk.pages) /\ \A p \in Procs : Rendered(Mem[p].pages)

\* The type of the register and its copies.
CacheType == [valid: BOOLEAN, pages: {FirstPages(n) : n \in 0..Len(Doc)}]
AtomicTypeOK == Disk \in CacheType /\ Mem \in [Procs -> CacheType]

\* Whoever uses an atomic register, be it several processes at once, only ever
\* sees pages as the PDF has them: what pdfgrep needs of its cache files.
THEOREM ReadersSeeRenderedPages == IsAtomic => []OnlyRenderedPages
<1>1. NoCache \in CacheType
  BY NoPages DEF NoCache, CacheType, Rendered
<1>2. Atomic!Init => AtomicTypeOK
  BY <1>1 DEF Atomic!Init, Atomic!NoCache, NoCache, AtomicTypeOK, Disk, Mem, MemOf
<1>3. AtomicTypeOK /\ [Atomic!Next]_<<Disk, Mem>> => AtomicTypeOK'
  <2> SUFFICES ASSUME AtomicTypeOK, [Atomic!Next]_<<Disk, Mem>> PROVE AtomicTypeOK'
    OBVIOUS
  <2>1. ASSUME NEW p \in Procs, Atomic!Render(p) PROVE AtomicTypeOK'
    <3>1. PICK k \in 0..Len(Doc) :
            /\ Mem' = [Mem EXCEPT ![p].pages = Atomic!Extended(Mem[p].pages, k)]
            /\ Disk' = Disk
      BY <2>1 DEF Atomic!Render, Mem, MemOf, Disk
    <3> DEFINE more == Atomic!Extended(Mem[p].pages, k)
    <3>2. more \in {FirstPages(n) : n \in 0..Len(Doc)}
      <4>1. Rendered(Mem[p].pages)
        BY DEF AtomicTypeOK, CacheType, Rendered
      <4>2. Mem[p].pages \in Seq(PageType)
        BY <4>1, FirstPagesAre DEF Rendered
      <4>3. more = Extended(Mem[p].pages, k)
        BY <4>2, SameExtended
      <4> QED BY <4>1, <4>3, SearchRenders DEF Rendered
    <3> HIDE DEF more
    <3>3. Mem[p] \in CacheType
      BY DEF AtomicTypeOK
    <3>4. [Mem[p] EXCEPT !.pages = more] \in CacheType
      BY <3>2, <3>3 DEF CacheType
    <3>5. Mem' = [Mem EXCEPT ![p] = [Mem[p] EXCEPT !.pages = more]]
      BY <3>1 DEF more
    <3> QED BY <3>1, <3>4, <3>5 DEF AtomicTypeOK
  <2>2. ASSUME NEW p \in Procs, Atomic!Load(p) PROVE AtomicTypeOK'
    <3>1. Mem' = [Mem EXCEPT ![p] = Disk] /\ Disk' = Disk
      BY <2>2 DEF Atomic!Load, Mem, MemOf, Disk
    <3> QED BY <3>1 DEF AtomicTypeOK
  <2>3. ASSUME NEW p \in Procs, Atomic!Exit(p) PROVE AtomicTypeOK'
    <3>1. Mem' = [Mem EXCEPT ![p] = NoCache] /\ Disk' = Disk
      BY <2>3 DEF Atomic!Exit, Atomic!NoCache, NoCache, Mem, MemOf, Disk
    <3> QED BY <1>1, <3>1 DEF AtomicTypeOK
  <2>4. ASSUME NEW p \in Procs, Atomic!Save(p) PROVE AtomicTypeOK'
    <3>1. Mem' = [Mem EXCEPT ![p] = NoCache] /\ Disk' = [valid |-> TRUE, pages |-> Mem[p].pages]
      BY <2>4 DEF Atomic!Save, Atomic!NoCache, NoCache, Mem, MemOf, Disk
    <3>2. [valid |-> TRUE, pages |-> Mem[p].pages] \in CacheType
      BY DEF AtomicTypeOK, CacheType
    <3> QED BY <1>1, <3>1, <3>2 DEF AtomicTypeOK
  <2>5. CASE Atomic!Lose
    <3>1. Mem' = Mem /\ Disk' = NoCache
      BY <2>5 DEF Atomic!Lose, Atomic!NoCache, NoCache, Mem, MemOf, Disk
    <3> QED BY <1>1, <3>1 DEF AtomicTypeOK
  <2>6. CASE UNCHANGED <<Disk, Mem>>
    BY <2>6 DEF AtomicTypeOK
  <2> QED BY <2>1, <2>2, <2>3, <2>4, <2>5, <2>6 DEF Atomic!Next
<1>4. AtomicTypeOK => OnlyRenderedPages
  BY DEF AtomicTypeOK, OnlyRenderedPages, CacheType, Rendered
<1> QED
  BY <1>2, <1>3, <1>4, PTL DEF IsAtomic, Atomic!Spec, Disk, Mem, MemOf
=============================================================================
