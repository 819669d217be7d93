-------------------------- MODULE PatternSearchProofs -------------------------
(***************************************************************************)
(* Proof that the loop of search_page() with the engines of regengine.cc   *)
(* implements PageSearch: what is proved there about any engine holds for  *)
(* these, for every page, every list of patterns and all options.          *)
(***************************************************************************)
EXTENDS PatternSearch, PageSearchProofs

\* A word that stands in the text ends in the text.
LEMMA OccurrenceInside ==
  ASSUME NEW t, t.size \in Nat, NEW w \in Seq(STRING), NEW i \in Nat, Occurs(t, w, i)
  PROVE  i + Len(w) \in i..t.size /\ i <= t.size
<1>1. Len(w) \in Nat
  OBVIOUS
<1> QED BY <1>1 DEF Occurs

\* Where some word of an alternation stands, a first word does.
LEMMA FirstWordOccurs ==
  ASSUME NEW t, NEW words \in Seq(Seq(STRING)), NEW i \in Nat,
         \E w \in OneOf(words) : Occurs(t, w, i)
  PROVE  /\ FirstWord(t, words, i) \in Seq(STRING) /\ FirstWord(t, words, i) \in OneOf(words)
         /\ Occurs(t, FirstWord(t, words, i), i)
<1> DEFINE hits == {k \in DOMAIN words : Occurs(t, words[k], i)}
<1>1. hits # {} /\ hits \in SUBSET Nat
  BY DEF OneOf
<1>2. \E k \in hits : \A j \in hits : k <= j
  <2> HIDE DEF hits
  <2> QED BY <1>1, LeastElement
<1>3. \E k \in DOMAIN words : /\ Occurs(t, words[k], i)
                              /\ \A j \in DOMAIN words : Occurs(t, words[j], i) => k <= j
  BY <1>2
<1> DEFINE first == CHOOSE k \in DOMAIN words :
                      /\ Occurs(t, words[k], i)
                      /\ \A j \in DOMAIN words : Occurs(t, words[j], i) => k <= j
<1>4. first \in DOMAIN words /\ Occurs(t, words[first], i)
  BY <1>3
<1>5. FirstWord(t, words, i) = words[first]
  BY DEF FirstWord
<1> HIDE DEF first
<1>6. words[first] \in Seq(STRING) /\ words[first] \in OneOf(words)
  BY <1>4 DEF OneOf
<1> QED BY <1>4, <1>5, <1>6

\* And a longest one, as no word is longer than the text.
LEMMA LongestWordOccurs ==
  ASSUME NEW t, t.size \in Nat, NEW words \in Seq(Seq(STRING)), NEW i \in Nat,
         \E w \in OneOf(words) : Occurs(t, w, i)
  PROVE  /\ LongestWord(t, words, i) \in Seq(STRING) /\ LongestWord(t, words, i) \in OneOf(words)
         /\ Occurs(t, LongestWord(t, words, i), i)
<1> DEFINE hits == {w \in OneOf(words) : Occurs(t, w, i)}
           rest(w) == t.size - Len(w)
<1>1. OneOf(words) \subseteq Seq(STRING)
  BY DEF OneOf
<1>2. \A w \in hits : Len(w) \in Nat /\ rest(w) \in Nat
  <2> TAKE w \in hits
  <2>1. w \in Seq(STRING) /\ Occurs(t, w, i)
    BY <1>1
  <2>2. Len(w) \in Nat /\ i + Len(w) \in i..t.size
    BY <2>1, OccurrenceInside
  <2> QED BY <2>2
<1> DEFINE rests == {rest(w) : w \in hits}
<1>3. rests # {} /\ rests \in SUBSET Nat
  BY <1>2
<1>4. PICK r \in rests : \A q \in rests : r <= q
  <2> HIDE DEF rests
  <2> QED BY <1>3, LeastElement
<1>5. PICK w \in hits : rest(w) = r
  BY <1>4
<1>6. \A v \in hits : Len(v) <= Len(w)
  <2> TAKE v \in hits
  <2>1. rest(w) <= rest(v)
    BY <1>4, <1>5
  <2>2. Len(v) \in Nat /\ Len(w) \in Nat
    BY <1>2
  <2> QED BY <2>1, <2>2
<1>7. \E u \in OneOf(words) : /\ Occurs(t, u, i)
                              /\ \A v \in OneOf(words) : Occurs(t, v, i) => Len(v) <= Len(u)
  BY <1>6
<1>8. /\ LongestWord(t, words, i) \in OneOf(words)
      /\ Occurs(t, LongestWord(t, words, i), i)
  BY <1>7 DEF LongestWord
<1> QED BY <1>1, <1>8

\* The matches an engine may report from an offset on.
Behind(t, offset) ==
  {m \in [start: offset..t.size, end: offset..t.size] : m.start <= m.end}

LEMMA MatchAtBehind ==
  ASSUME NEW t, t.size \in Nat, NEW offset \in Nat, NEW i \in offset..t.size,
         NEW w \in Seq(STRING), Occurs(t, w, i)
  PROVE  MatchAt(i, w) \in Behind(t, offset)
<1>1. i \in Nat /\ Len(w) \in Nat /\ i + Len(w) \in i..t.size
  BY OccurrenceInside
<1>2. i + Len(w) \in offset..t.size /\ i <= i + Len(w)
  BY <1>1
<1> QED BY <1>2 DEF MatchAt, Behind

\* Each engine reports matches behind the offset and inside the text.
LEMMA ExecOneBehind ==
  ASSUME NEW t, t.size \in Nat, NEW p, IsPattern(p), NEW offset \in Nat
  PROVE  ExecOne(p, t, offset) \subseteq Behind(t, offset)
<1>1. p.words \in Seq(Seq(STRING)) /\ p.engine \in {"posix", "pcre", "fixed"}
  BY DEF IsPattern
<1> DEFINE starts == Starts(t, p.words, offset)
<1>2. \A i \in starts : /\ i \in offset..t.size /\ i \in Nat
                        /\ \E w \in OneOf(p.words) : Occurs(t, w, i)
  BY DEF Starts
<1>3. \A i \in starts : MatchAt(i, FirstWord(t, p.words, i)) \in Behind(t, offset)
  <2> HIDE DEF starts
  <2> QED BY <1>1, <1>2, FirstWordOccurs, MatchAtBehind
<1>4. \A i \in starts : MatchAt(i, LongestWord(t, p.words, i)) \in Behind(t, offset)
  <2> HIDE DEF starts
  <2> QED BY <1>1, <1>2, LongestWordOccurs, MatchAtBehind
<1>5. PosixRegex_exec(p, t, offset) \subseteq Behind(t, offset)
  <2> SUFFICES ASSUME NEW m \in PosixRegex_exec(p, t, offset)
               PROVE  m \in Behind(t, offset)
    OBVIOUS
  <2>1. PICK r \in regexec(p, t, offset, offset # 0) :
          m = [start |-> offset + r.rm_so, end |-> offset + r.rm_eo]
    BY DEF PosixRegex_exec
  <2>2. PICK i \in starts :
          r = [rm_so |-> i - offset,
               rm_eo |-> i - offset + Len(LongestWord(t, p.words, i))]
    BY <2>1 DEF regexec, Leftmost
  <2>3. i \in Nat /\ Len(LongestWord(t, p.words, i)) \in Nat
    <3>1. LongestWord(t, p.words, i) \in Seq(STRING)
      BY <1>1, <1>2, LongestWordOccurs
    <3> QED BY <1>2, <3>1
  <2>4. m = MatchAt(i, LongestWord(t, p.words, i))
    <3>1. /\ offset + (i - offset) = i
          /\ offset + (i - offset + Len(LongestWord(t, p.words, i)))
               = i + Len(LongestWord(t, p.words, i))
      BY <2>3
    <3> QED BY <2>1, <2>2, <3>1 DEF MatchAt
  <2> QED BY <1>4, <2>4
<1>6. PCRERegex_exec(p, t, offset) \subseteq Behind(t, offset)
  BY <1>3 DEF PCRERegex_exec, Leftmost
<1>7. FixedString_exec(p, t, offset) \subseteq Behind(t, offset)
  BY <1>3 DEF FixedString_exec, Leftmost
<1> QED BY <1>1, <1>5, <1>6, <1>7 DEF ExecOne

\* What a list of patterns consists of.
LEMMA ListType ==
  ASSUME NEW p \in Patterns, p.engine = "list"
  PROVE  /\ p.patterns \in Seq(OneOf(p.patterns)) \ {<<>>}
         /\ \A k \in DOMAIN p.patterns :
              p.patterns[k] \in OneOf(p.patterns) /\ IsPattern(p.patterns[k])
<1>1. ~IsPattern(p)
  BY DEF IsPattern
<1>2. /\ p.patterns \in Seq(OneOf(p.patterns)) \ {<<>>}
      /\ \A q \in OneOf(p.patterns) : IsPattern(q)
  BY <1>1, PatternsAssumption
<1> QED BY <1>2 DEF OneOf

\* And so does the list of patterns.
LEMMA ExecBehind ==
  ASSUME NEW t, t.size \in Nat, NEW p \in Patterns, NEW offset \in Nat
  PROVE  exec(p, t, offset) \subseteq Behind(t, offset)
<1>1. CASE p.engine = "list"
  <2>1. \A k \in DOMAIN p.patterns : ExecOne(p.patterns[k], t, offset) \subseteq Behind(t, offset)
    BY <1>1, ListType, ExecOneBehind
  <2> QED BY <1>1, <2>1 DEF exec, PatternList_exec
<1>2. CASE p.engine # "list"
  <2>1. IsPattern(p)
    BY <1>2, PatternsAssumption
  <2> QED BY <1>2, <2>1, ExecOneBehind DEF exec
<1> QED BY <1>1, <1>2

\* If the engine of PageSearch may find matches of every kind, the loop with any
\* of the real engines is one of its executions.
THEOREM EnginesImplement ==
  ASSUME MatchKinds = AllMatchKinds
  PROVE  PatternSpec => ImplementsPageSearch
<1> DEFINE Inv == TypeOK /\ re \in Patterns
<1>1. PatternInit => Init /\ Inv
  BY OptionsAssumption, CountsAssumption DEF PatternInit, Init, TypeOK
<1>2. Inv /\ [PatternNext]_patternVars => [Next]_vars
  <2> SUFFICES ASSUME Inv, PatternNext PROVE Next
    BY DEF patternVars
  <2>1. text.size \in Nat /\ index \in Nat /\ re \in Patterns
    BY TextsAssumption DEF TypeOK
  <2>2. Behind(text, index) \subseteq Matches(text, index)
    BY DEF Behind, Matches, KindOf, AllMatchKinds
  <2>3. exec(re, text, index) \subseteq Matches(text, index)
    BY <2>1, <2>2, ExecBehind
  <2>4. CASE Exec
    BY <2>3, <2>4 DEF Exec, Next
  <2>5. CASE Returned
    BY <2>5 DEF Next
  <2> QED BY <2>4, <2>5 DEF PatternNext
<1>3. Inv /\ [PatternNext]_patternVars => Inv'
  <2>1. Inv /\ [Next]_vars => TypeOK'
    BY TypeStep
  <2>2. [PatternNext]_patternVars => re' = re
    BY DEF PatternNext, Exec, patternVars
  <2> QED BY <1>2, <2>1, <2>2
<1> HIDE DEF Inv
<1> QED
  BY <1>1, <1>2, <1>3, PTL DEF PatternSpec, ImplementsPageSearch, Spec

\* Hence -m NUM holds with the real engines.
COROLLARY LimitHoldsWithEngines ==
  ASSUME MatchKinds = AllMatchKinds
  PROVE  PatternSpec => []MaxCountRespected
BY EnginesImplement, LimitHolds, PTL DEF ImplementsPageSearch

-----------------------------------------------------------------------------
\* A word of a pattern at a place the pattern may match is an occurrence.
LEMMA OccurrenceOf ==
  ASSUME NEW p, NEW w \in OneOf(p.words), NEW i \in 0..text.size, Occurs(text, w, i),
         p.bol => i = 0
  PROVE  MatchAt(i, w) \in OccurrencesOf(p)
<1> DEFINE at == {MatchAt(j, w) : j \in {j \in 0..text.size :
                                           Occurs(text, w, j) /\ (p.bol => j = 0)}}
<1>1. MatchAt(i, w) \in at
  OBVIOUS
<1>2. at \in {{MatchAt(j, v) : j \in {j \in 0..text.size :
                                        Occurs(text, v, j) /\ (p.bol => j = 0)}} :
                v \in OneOf(p.words)}
  OBVIOUS
<1> HIDE DEF at
<1> QED BY <1>1, <1>2 DEF OccurrencesOf

\* From every offset, what an engine finds in the rest of the page is an
\* occurrence in the page as a whole: a shortened text never looks like one that
\* begins there.
LEMMA ExecOneOccurs ==
  ASSUME text.size \in Nat, NEW p, IsPattern(p), NEW offset \in Nat
  PROVE  ExecOne(p, text, offset) \subseteq OccurrencesOf(p)
<1>1. /\ p.words \in Seq(Seq(STRING)) /\ p.engine \in {"posix", "pcre", "fixed"}
      /\ p.engine = "fixed" => ~p.bol
  BY DEF IsPattern
<1> DEFINE starts == Starts(text, p.words, offset)
<1>2. \A i \in starts : /\ i \in 0..text.size /\ i \in Nat
                        /\ \E w \in OneOf(p.words) : Occurs(text, w, i)
  BY DEF Starts
<1>3. \A i \in starts : (p.bol => i = 0)
                          => MatchAt(i, FirstWord(text, p.words, i)) \in OccurrencesOf(p)
  <2> HIDE DEF starts
  <2> QED BY <1>1, <1>2, FirstWordOccurs, OccurrenceOf
<1>4. \A i \in starts : (p.bol => i = 0)
                          => MatchAt(i, LongestWord(text, p.words, i)) \in OccurrencesOf(p)
  <2> HIDE DEF starts
  <2> QED BY <1>1, <1>2, LongestWordOccurs, OccurrenceOf
<1>5. ASSUME p.engine = "posix"
      PROVE  PosixRegex_exec(p, text, offset) \subseteq OccurrencesOf(p)
  <2> SUFFICES ASSUME NEW m \in PosixRegex_exec(p, text, offset)
               PROVE  m \in OccurrencesOf(p)
    OBVIOUS
  <2>1. PICK r \in regexec(p, text, offset, offset # 0) :
          m = [start |-> offset + r.rm_so, end |-> offset + r.rm_eo]
    BY DEF PosixRegex_exec
  <2>2. PICK i \in starts :
          /\ p.bol => i = offset /\ ~(offset # 0)
          /\ r = [rm_so |-> i - offset,
                  rm_eo |-> i - offset + Len(LongestWord(text, p.words, i))]
    BY <2>1 DEF regexec, Leftmost
  <2>3. i \in Nat /\ Len(LongestWord(text, p.words, i)) \in Nat
    <3>1. LongestWord(text, p.words, i) \in Seq(STRING)
      BY <1>1, <1>2, LongestWordOccurs
    <3> QED BY <1>2, <3>1
  <2>4. m = MatchAt(i, LongestWord(text, p.words, i))
    <3>1. /\ offset + (i - offset) = i
          /\ offset + (i - offset + Len(LongestWord(text, p.words, i)))
               = i + Len(LongestWord(text, p.words, i))
      BY <2>3
    <3> QED BY <2>1, <2>2, <3>1 DEF MatchAt
  <2> QED BY <1>4, <2>2, <2>4
<1>6. PCRERegex_exec(p, text, offset) \subseteq OccurrencesOf(p)
  BY <1>3 DEF PCRERegex_exec, Leftmost
<1>7. ASSUME p.engine = "fixed", ~p.bol
      PROVE  FixedString_exec(p, text, offset) \subseteq OccurrencesOf(p)
  BY <1>3, <1>7 DEF FixedString_exec, Leftmost
<1> QED BY <1>1, <1>5, <1>6, <1>7 DEF ExecOne

LEMMA ExecOccurs ==
  ASSUME text.size \in Nat, re \in Patterns, NEW offset \in Nat
  PROVE  exec(re, text, offset) \subseteq Occurrences
<1>1. CASE re.engine = "list"
  <2>1. \A k \in DOMAIN re.patterns :
          re.patterns[k] \in SinglePatterns /\ IsPattern(re.patterns[k])
    BY <1>1, ListType DEF SinglePatterns
  <2>2. \A k \in DOMAIN re.patterns :
          ExecOne(re.patterns[k], text, offset) \subseteq Occurrences
    BY <2>1, ExecOneOccurs DEF Occurrences
  <2> QED BY <1>1, <2>2 DEF exec, PatternList_exec
<1>2. CASE re.engine # "list"
  <2>1. IsPattern(re) /\ re \in SinglePatterns
    BY <1>2, PatternsAssumption DEF SinglePatterns
  <2> QED BY <1>2, <2>1, ExecOneOccurs DEF exec, Occurrences
<1> QED BY <1>1, <1>2

\* The test "^ only matches the beginning of a page": for every page, every list
\* of patterns and every sequence of calls, all that is found is an occurrence of
\* one of the patterns in the page as a whole.
THEOREM OnlyOccurrencesFound ==
  ASSUME MatchKinds = AllMatchKinds
  PROVE  PatternSpec => []FindsOnlyOccurrences
<1> DEFINE Inv == re \in Patterns /\ FindsOnlyOccurrences
<1>1. PatternInit => Inv
  BY DEF PatternInit, Init, FindsOnlyOccurrences
<1>2. TypeOK /\ Inv /\ [PatternNext]_patternVars => Inv'
  <2> SUFFICES ASSUME TypeOK, Inv, [PatternNext]_patternVars PROVE Inv'
    OBVIOUS
  <2>1. re' = re /\ text' = text
    BY DEF PatternNext, Exec, patternVars, vars, Returned, NoMatch, MatchDecides, LastMatch,
           OneMatch, Counted
  <2>2. Occurrences' = Occurrences
    BY <2>1 DEF Occurrences, OccurrencesOf, SinglePatterns
  <2>3. \/ found' = found
        \/ \E m \in exec(re, text, index) : found' = Append(found, m)
    BY DEF PatternNext, Exec, patternVars, vars, Returned, NoMatch, MatchDecides, LastMatch,
           OneMatch, Counted
  <2>4. text.size \in Nat /\ index \in Nat /\ found \in Seq(Match)
    BY TextsAssumption DEF TypeOK
  <2>5. \A m \in exec(re, text, index) : m \in Occurrences /\ m \in Match
    <3>1. exec(re, text, index) \subseteq Occurrences
      BY <2>4, ExecOccurs
    <3>2. exec(re, text, index) \subseteq Behind(text, index)
      BY <2>4, ExecBehind
    <3>3. Behind(text, index) \subseteq Match
      BY <2>4 DEF Behind, Match
    <3> QED BY <3>1, <3>2, <3>3
  <2>6. \A m \in exec(re, text, index) :
          \A i \in DOMAIN Append(found, m) : Append(found, m)[i] \in Occurrences
    BY <2>4, <2>5 DEF FindsOnlyOccurrences
  <2> QED BY <2>1, <2>2, <2>3, <2>6 DEF FindsOnlyOccurrences
<1>3. PatternSpec => []TypeOK
  BY EnginesImplement, TypeCorrect, PTL DEF ImplementsPageSearch
<1> QED BY <1>1, <1>2, <1>3, PTL DEF PatternSpec

-----------------------------------------------------------------------------
\* A set of places has a leftmost one.
LEMMA LeftmostExists ==
  ASSUME NEW S \in SUBSET Nat, S # {}
  PROVE  Leftmost(S) # {}
BY LeastElement DEF Leftmost

\* An occurrence of a pattern behind the offset: unless the library gives up, the
\* engine finds one, and none behind it.
LEMMA ExecOneFindsFirst ==
  ASSUME text.size \in Nat, NEW p, IsPattern(p), NEW offset \in Nat,
         NEW o \in OccurrencesOf(p), o.start >= offset, ~GivesUp(p, text, offset)
  PROVE  /\ ExecOne(p, text, offset) # {}
         /\ \A m \in ExecOne(p, text, offset) : m.start <= o.start
<1>1. /\ p.words \in Seq(Seq(STRING)) /\ p.engine \in {"posix", "pcre", "fixed"}
      /\ p.bol \in BOOLEAN
  BY DEF IsPattern
<1>2. PICK w \in OneOf(p.words) :
        o \in {MatchAt(i, w) : i \in {i \in 0..text.size : Occurs(text, w, i) /\ (p.bol => i = 0)}}
  BY DEF OccurrencesOf
<1>3. PICK i \in 0..text.size : Occurs(text, w, i) /\ (p.bol => i = 0) /\ o = MatchAt(i, w)
  BY <1>2
<1>4. o.start = i /\ i \in offset..text.size
  BY <1>3 DEF MatchAt
<1> DEFINE starts == Starts(text, p.words, offset)
<1>5. i \in starts /\ starts \in SUBSET Nat
  BY <1>3, <1>4 DEF Starts
<1> HIDE DEF starts
<1>6. ASSUME p.engine = "posix"
      PROVE  /\ PosixRegex_exec(p, text, offset) # {}
             /\ \A m \in PosixRegex_exec(p, text, offset) : m.start <= o.start
  <2> DEFINE S == {j \in starts : /\ ~GivesUp(p, text, offset)
                                  /\ p.bol => j = offset /\ ~(offset # 0)}
             res(j) == [rm_so |-> j - offset,
                        rm_eo |-> j - offset + Len(LongestWord(text, p.words, j))]
  <2>1. S \in SUBSET Nat /\ i \in S
    <3>1. ASSUME p.bol PROVE i = offset /\ ~(offset # 0)
      BY <1>3, <1>4, <3>1
    <3> QED BY <1>5, <3>1
  <2>2. regexec(p, text, offset, offset # 0) = {res(j) : j \in Leftmost(S)}
    BY DEF regexec, starts
  <2> HIDE DEF S
  <2>3. Leftmost(S) # {} /\ \A j \in Leftmost(S) : j \in S /\ j <= i
    BY <2>1, LeftmostExists DEF Leftmost
  <2>4. ASSUME NEW j \in Leftmost(S) PROVE offset + res(j).rm_so = j
    <3>1. j \in Nat /\ res(j).rm_so = j - offset
      BY <2>1, <2>3
    <3> QED BY <3>1
  <2> HIDE DEF res
  <2>5. regexec(p, text, offset, offset # 0) # {}
    BY <2>2, <2>3
  <2>7. PosixRegex_exec(p, text, offset) # {}
    BY <2>5 DEF PosixRegex_exec
  <2>6. ASSUME NEW m \in PosixRegex_exec(p, text, offset) PROVE m.start <= o.start
    <3>1. PICK r \in regexec(p, text, offset, offset # 0) : m.start = offset + r.rm_so
      BY DEF PosixRegex_exec
    <3>2. PICK j \in Leftmost(S) : r = res(j)
      BY <2>2, <3>1
    <3> QED BY <1>4, <2>3, <2>4, <3>1, <3>2
  <2> QED BY <2>6, <2>7
<1>7. /\ PCRERegex_exec(p, text, offset) # {}
      /\ \A m \in PCRERegex_exec(p, text, offset) : m.start <= o.start
  <2> DEFINE S == {j \in starts : ~GivesUp(p, text, offset) /\ (p.bol => j = 0)}
  <2>1. S \in SUBSET Nat /\ i \in S
    BY <1>3, <1>5
  <2>2. PCRERegex_exec(p, text, offset)
          = {MatchAt(j, FirstWord(text, p.words, j)) : j \in Leftmost(S)}
    BY DEF PCRERegex_exec, starts
  <2> HIDE DEF S
  <2>3. Leftmost(S) # {} /\ \A j \in Leftmost(S) : j <= i
    BY <2>1, LeftmostExists DEF Leftmost
  <2>4. \A j : MatchAt(j, FirstWord(text, p.words, j)).start = j
    BY DEF MatchAt
  <2> QED BY <1>4, <2>2, <2>3, <2>4
<1>8. /\ FixedString_exec(p, text, offset) # {}
      /\ \A m \in FixedString_exec(p, text, offset) : m.start <= o.start
  <2>1. FixedString_exec(p, text, offset)
          = {MatchAt(j, FirstWord(text, p.words, j)) : j \in Leftmost(starts)}
    BY DEF FixedString_exec, starts
  <2>2. Leftmost(starts) # {} /\ \A j \in Leftmost(starts) : j <= i
    BY <1>5, LeftmostExists DEF Leftmost
  <2>3. \A j : MatchAt(j, FirstWord(text, p.words, j)).start = j
    BY DEF MatchAt
  <2> QED BY <1>4, <2>1, <2>2, <2>3
<1> QED BY <1>1, <1>6, <1>7, <1>8 DEF ExecOne

\* The first pattern of a list is a pattern.
LEMMA FirstPatternType ==
  ASSUME re \in Patterns
  PROVE  /\ IsPattern(FirstPattern)
         /\ re.engine = "list" => 1 \in DOMAIN re.patterns /\ FirstPattern = re.patterns[1]
<1>1. CASE re.engine = "list"
  <2>1. /\ re.patterns \in Seq(OneOf(re.patterns)) \ {<<>>}
        /\ \A k \in DOMAIN re.patterns : IsPattern(re.patterns[k])
    BY <1>1, ListType
  <2>2. 1 \in DOMAIN re.patterns /\ Head(re.patterns) = re.patterns[1]
    BY <2>1
  <2> QED BY <1>1, <2>1, <2>2 DEF FirstPattern
<1>2. CASE re.engine # "list"
  BY <1>2, PatternsAssumption DEF FirstPattern
<1> QED BY <1>1, <1>2

LEMMA ExecFindsFirst ==
  ASSUME text.size \in Nat, re \in Patterns, NEW offset \in Nat,
         NEW o \in OccurrencesOf(FirstPattern), o.start >= offset,
         ~GivesUp(FirstPattern, text, offset)
  PROVE  /\ exec(re, text, offset) # {}
         /\ \A m \in exec(re, text, offset) :
              m \in OccurrencesOf(FirstPattern) /\ m.start <= o.start
<1>1. /\ ExecOne(FirstPattern, text, offset) # {}
      /\ \A m \in ExecOne(FirstPattern, text, offset) :
           m \in OccurrencesOf(FirstPattern) /\ m.start <= o.start
  BY FirstPatternType, ExecOneFindsFirst, ExecOneOccurs
<1>2. exec(re, text, offset) = ExecOne(FirstPattern, text, offset)
  <2>1. CASE re.engine = "list"
    <3> DEFINE hits == {k \in DOMAIN re.patterns : ExecOne(re.patterns[k], text, offset) # {}}
               first == {k \in hits : \A j \in hits : k <= j}
    <3>1. re.patterns \in Seq(OneOf(re.patterns))
      BY <2>1, ListType
    <3>2. 1 \in hits /\ \A j \in hits : j \in Nat /\ 1 <= j
      BY <1>1, <2>1, <3>1, FirstPatternType
    <3> HIDE DEF hits
    <3>3. first = {1}
      BY <3>2
    <3>4. exec(re, text, offset) = UNION {ExecOne(re.patterns[k], text, offset) : k \in first}
      BY <2>1 DEF exec, PatternList_exec, hits
    <3> HIDE DEF first
    <3> QED BY <2>1, <3>3, <3>4, FirstPatternType
  <2>2. CASE re.engine # "list"
    BY <2>2 DEF exec, FirstPattern
  <2> QED BY <2>1, <2>2
<1> QED BY <1>1, <1>2

\* The words of a pattern do not contain a newline.
SingleLine(p) == \A w \in OneOf(p.words) : \A k \in DOMAIN w : w[k] # "\n"

\* Then no occurrence does.
LEMMA OccurrenceOnLine ==
  ASSUME text \in Texts, NEW p, IsPattern(p), SingleLine(p), NEW o \in OccurrencesOf(p)
  PROVE  /\ o.start \in 0..text.size /\ o.end \in Nat /\ o.start <= o.end
         /\ ~Spans(text, o)
<1>1. PICK w \in OneOf(p.words) :
        o \in {MatchAt(i, w) : i \in {i \in 0..text.size : Occurs(text, w, i) /\ (p.bol => i = 0)}}
  BY DEF OccurrencesOf
<1>2. PICK i \in 0..text.size : Occurs(text, w, i) /\ o = MatchAt(i, w)
  BY <1>1
<1>3. w \in Seq(STRING) /\ Len(w) \in Nat /\ text.size \in Nat /\ text.newlines \subseteq Nat
  <2>1. w \in Seq(STRING)
    BY DEF IsPattern, OneOf
  <2> QED BY <2>1, TextsAssumption
<1>4. o.start = i /\ o.end = i + Len(w)
  BY <1>2 DEF MatchAt
<1>5. ASSUME NEW n \in text.newlines, i <= n, n < i + Len(w) PROVE FALSE
  <2> DEFINE k == n - i + 1
  <2>1. k \in 1..Len(w) /\ i + k - 1 = n
    BY <1>3, <1>5
  <2>2. text.chars[n] = w[k]
    BY <1>2, <2>1 DEF Occurs
  <2>3. text.chars[n] = "\n"
    BY CharsAssumption
  <2>4. k \in DOMAIN w
    BY <1>3, <2>1
  <2> QED BY <2>2, <2>3, <2>4 DEF SingleLine
<1> QED BY <1>3, <1>4, <1>5 DEF Spans

\* Two places with no newline from one to the other are on the same line.
LEMMA SameLine ==
  ASSUME NEW t, t.newlines \subseteq Nat, NEW a \in Nat, NEW b \in Nat, a <= b,
         \A n \in t.newlines : a <= n => b <= n
  PROVE  LineOf(t, a) = LineOf(t, b)
<1>1. {n \in t.newlines : n < a} = {n \in t.newlines : n < b}
  OBVIOUS
<1> QED BY <1>1 DEF LineOf

\* What the loop has passed by: every occurrence of the first pattern in front of
\* the offset, and every one once the loop has ended, is on a line that was found,
\* or behind an offset from which the library gave up.
NoneOverlooked ==
  /\ pc = "exec" => index \in Asked
  /\ Exhaustive =>
       \A o \in OccurrencesOf(FirstPattern) :
         (pc = "done" \/ o.start < index)
            => LineOf(text, o.start) \in MatchedLines \/ LostBehindError(o)

\* A match of the engine is on the line of every occurrence of the first pattern
\* that it steps over.
LEMMA SteppedOver ==
  ASSUME TypeOK, re \in Patterns, SingleLine(FirstPattern),
         NEW m \in exec(re, text, index), NEW o \in OccurrencesOf(FirstPattern),
         o.start >= index, o.start < NextIndex(m) \/ NextIndex(m) >= text.size,
         ~GivesUp(FirstPattern, text, index)
  PROVE  LineOf(text, m.start) = LineOf(text, o.start)
<1>1. text \in Texts /\ index \in Nat /\ text.size \in Nat
      /\ text.newlines \subseteq Nat /\ \A n \in text.newlines : n <= text.size - 2
  BY TextsAssumption DEF TypeOK
<1>2. m \in OccurrencesOf(FirstPattern) /\ m.start <= o.start
  BY <1>1, ExecFindsFirst
<1>3. /\ m.start \in 0..text.size /\ m.end \in Nat /\ m.start <= m.end
      /\ ~Spans(text, m) /\ o.start \in 0..text.size
  BY <1>1, <1>2, FirstPatternType, OccurrenceOnLine
<1>4. ASSUME NEW n \in text.newlines, m.start <= n PROVE o.start <= n
  <2>1. n \in Nat /\ m.end <= n
    BY <1>1, <1>3, <1>4 DEF Spans
  <2>2. NextIndex(m) \in Nat /\ NextIndex(m) <= m.end + 1
    BY <1>3 DEF NextIndex
  <2>3. CASE NextIndex(m) >= text.size
    <3>1. n <= text.size - 2
      BY <1>1
    <3> QED BY <1>1, <1>3, <2>1, <2>2, <2>3, <3>1
  <2>4. CASE o.start < NextIndex(m)
    BY <1>3, <2>1, <2>2, <2>4
  <2> QED BY <2>3, <2>4
<1> QED BY <1>1, <1>2, <1>3, <1>4, SameLine

\* The lines found and the offsets asked for only grow.
LEMMA FoundGrows ==
  ASSUME found \in Seq(Match), text' = text, re' = re, NEW m \in Match,
         found' = Append(found, m)
  PROVE  /\ MatchedLines \subseteq MatchedLines' /\ LineOf(text, m.start) \in MatchedLines'
         /\ Asked \subseteq Asked'
         /\ NextIndex(m) < text.size => NextIndex(m) \in Asked'
         /\ \A o : LostBehindError(o) => LostBehindError(o)'
<1>1. /\ Len(found') = Len(found) + 1 /\ Len(found) \in Nat
      /\ found'[Len(found) + 1] = m
      /\ \A i \in 1..Len(found) : found'[i] = found[i] /\ i \in 1..Len(found')
      /\ Len(found) + 1 \in 1..Len(found')
  OBVIOUS
<1>2. \A i \in 1..Len(found') : LineOf(text, found'[i].start) \in MatchedLines'
  BY DEF MatchedLines
<1>3. MatchedLines = {LineOf(text, found[i].start) : i \in 1..Len(found)}
  BY DEF MatchedLines
<1>4. DOMAIN found = 1..Len(found) /\ DOMAIN found' = 1..Len(found')
  OBVIOUS
<1>5. /\ Asked \subseteq Asked'
      /\ NextIndex(m) < text.size => NextIndex(m) \in Asked'
  BY <1>1, <1>4 DEF Asked
<1>6. \A o : LostBehindError(o) => LostBehindError(o)'
  BY <1>5 DEF LostBehindError, FirstPattern
<1> QED BY <1>1, <1>2, <1>3, <1>5, <1>6

\* The pattern that is tried first hides none of its lines: for every page, every
\* list of patterns (whose words hold no newline) and every way the strings
\* overlap, contain each other or are empty, each line with an occurrence of it
\* is found, except behind an offset from which the library gives up: an error of
\* PCRE or regexec is the only way the loop loses a line of it.
THEOREM FirstPatternFound ==
  ASSUME MatchKinds = AllMatchKinds,
         \A p \in Patterns : IF p.engine = "list"
                             THEN \A q \in OneOf(p.patterns) : SingleLine(q)
                             ELSE SingleLine(p)
  PROVE  PatternSpec => []FirstPatternIsFound
<1> DEFINE Inv == re \in Patterns /\ NoneOverlooked
<1>1. PatternInit => Inv
  <2> SUFFICES ASSUME PatternInit PROVE Inv
    OBVIOUS
  <2>1. text \in Texts /\ index = 0 /\ pc = "exec" /\ re \in Patterns /\ text.size \in Nat
    BY TextsAssumption DEF PatternInit, Init
  <2>2. SingleLine(FirstPattern)
    BY <2>1, FirstPatternType DEF FirstPattern, OneOf
  <2>3. \A o \in OccurrencesOf(FirstPattern) : ~(o.start < index)
    BY <2>1, <2>2, FirstPatternType, OccurrenceOnLine
  <2>4. index \in Asked
    BY <2>1 DEF Asked
  <2> QED BY <2>1, <2>3, <2>4 DEF NoneOverlooked
<1>2. TypeOK /\ Inv /\ [PatternNext]_patternVars => Inv'
  <2> SUFFICES ASSUME TypeOK, Inv, [PatternNext]_patternVars PROVE Inv'
    OBVIOUS
  <2>1. re' = re /\ text' = text /\ opts' = opts
    BY DEF PatternNext, Exec, patternVars, vars, Returned, NoMatch, MatchDecides, LastMatch,
           OneMatch, Counted
  <2>2. OccurrencesOf(FirstPattern)' = OccurrencesOf(FirstPattern) /\ Exhaustive' = Exhaustive
    BY <2>1 DEF OccurrencesOf, FirstPattern, Exhaustive, FirstMatchSuffices
  <2>3. /\ text \in Texts /\ text.size \in Nat /\ index \in Nat /\ found \in Seq(Match)
        /\ re \in Patterns
    BY TextsAssumption DEF TypeOK
  <2>4. SingleLine(FirstPattern)
    BY <2>3, FirstPatternType DEF FirstPattern, OneOf
  <2>5. \A o \in OccurrencesOf(FirstPattern) : o.start \in Nat
    BY <2>3, <2>4, FirstPatternType, OccurrenceOnLine
  <2>6. ASSUME found' = found
        PROVE  /\ MatchedLines' = MatchedLines /\ Asked' = Asked
               /\ \A o : LostBehindError(o)' <=> LostBehindError(o)
    <3>1. MatchedLines' = MatchedLines /\ Asked' = Asked
      BY <2>1, <2>6 DEF MatchedLines, Asked
    <3> QED BY <2>1, <3>1 DEF LostBehindError, FirstPattern
  <2>7. CASE UNCHANGED patternVars \/ Returned
    <3>1. found' = found /\ pc' = pc /\ index' = index
      BY <2>7 DEF Returned, patternVars, vars
    <3> QED BY <2>1, <2>2, <2>6, <3>1 DEF NoneOverlooked
  <2>8. CASE exec(re, text, index) = {} /\ NoMatch
    <3>1. pc = "exec" /\ pc' = "done" /\ found' = found
      BY <2>8 DEF NoMatch
    <3>2. ASSUME Exhaustive, NEW o \in OccurrencesOf(FirstPattern)
          PROVE  LineOf(text, o.start) \in MatchedLines \/ LostBehindError(o)
      <4>1. CASE o.start < index
        BY <3>2, <4>1 DEF NoneOverlooked
      <4>2. CASE ~(o.start < index)
        <5>1. o.start >= index
          BY <2>3, <2>5, <4>2
        <5>2. GivesUp(FirstPattern, text, index)
          BY <2>3, <2>8, <5>1, ExecFindsFirst
        <5> QED BY <2>3, <2>5, <3>1, <5>1, <5>2 DEF LostBehindError, NoneOverlooked
      <4> QED BY <4>1, <4>2
    <3> QED BY <2>1, <2>2, <2>6, <3>1, <3>2 DEF NoneOverlooked
  <2>9. ASSUME NEW m \in exec(re, text, index), MatchDecides(m) \/ LastMatch(m) \/ OneMatch(m)
        PROVE  NoneOverlooked'
    <3>1. m \in Match /\ m \in Matches(text, index)
      <4>1. exec(re, text, index) \subseteq Behind(text, index)
        BY <2>3, ExecBehind
      <4> QED BY <2>3, <4>1 DEF Behind, Match, Matches, KindOf, AllMatchKinds
    <3>2. pc = "exec" /\ found' = Append(found, m)
      BY <2>9 DEF MatchDecides, LastMatch, OneMatch, Counted
    <3>3. /\ MatchedLines \subseteq MatchedLines' /\ LineOf(text, m.start) \in MatchedLines'
          /\ NextIndex(m) < text.size => NextIndex(m) \in Asked'
          /\ \A o : LostBehindError(o) => LostBehindError(o)'
      BY <2>1, <2>3, <3>1, <3>2, FoundGrows
    <3>4. NextIndex(m) \in Nat
      BY <3>1 DEF NextIndex, Match
    <3>5. (pc' = "exec" => index' \in Asked')
      BY <2>3, <2>9, <3>3, <3>4 DEF MatchDecides, LastMatch, OneMatch
    <3>6. ASSUME Exhaustive', NEW o \in OccurrencesOf(FirstPattern),
                 pc' = "done" \/ o.start < index'
          PROVE  LineOf(text, o.start) \in MatchedLines' \/ LostBehindError(o)'
      <4>1. /\ index' = NextIndex(m)
            /\ (pc' = "done" => NextIndex(m) >= text.size)
        BY <2>1, <2>2, <2>9, <3>6
           DEF MatchDecides, LastMatch, OneMatch, Exhaustive, LimitReached
      <4>2. CASE o.start < index
        BY <2>2, <3>3, <3>6, <4>2 DEF NoneOverlooked
      <4>3. CASE ~(o.start < index)
        <5>1. o.start >= index
          BY <2>3, <2>5, <4>3
        <5>2. CASE GivesUp(FirstPattern, text, index)
          <6>1. LostBehindError(o)
            BY <2>3, <2>5, <3>2, <5>1, <5>2 DEF LostBehindError, NoneOverlooked
          <6> QED BY <3>3, <6>1
        <5>3. CASE ~GivesUp(FirstPattern, text, index)
          <6>1. LineOf(text, m.start) = LineOf(text, o.start)
            BY <2>4, <3>6, <4>1, <5>1, <5>3, SteppedOver
          <6> QED BY <3>3, <6>1
        <5> QED BY <5>2, <5>3
      <4> QED BY <4>2, <4>3
    <3> QED BY <2>1, <2>2, <3>5, <3>6 DEF NoneOverlooked
  <2> QED BY <2>1, <2>7, <2>8, <2>9 DEF PatternNext, Exec
<1>3. Inv => FirstPatternIsFound
  BY DEF NoneOverlooked, FirstPatternIsFound
<1>4. PatternSpec => []TypeOK
  BY EnginesImplement, TypeCorrect, PTL DEF ImplementsPageSearch
<1> QED BY <1>1, <1>2, <1>3, <1>4, PTL DEF PatternSpec

\* Hence no line of the first pattern is lost where the library never gives up:
\* patterns within its limits, in texts of single-byte characters or with an
\* engine other than PCRE.
COROLLARY NothingLostWithoutErrors ==
  ASSUME MatchKinds = AllMatchKinds,
         \A p \in Patterns : IF p.engine = "list"
                             THEN \A q \in OneOf(p.patterns) : SingleLine(q)
                             ELSE SingleLine(p),
         \A p \in Patterns : \A t \in Texts : \A offset \in Nat :
            ~GivesUp(IF p.engine = "list" THEN p.patterns[1] ELSE p, t, offset)
  PROVE  PatternSpec =>
           []((pc = "done" /\ Exhaustive) =>
                LinesOf(OccurrencesOf(FirstPattern)) \subseteq MatchedLines)
<1> DEFINE Goal == (pc = "done" /\ Exhaustive) =>
                     LinesOf(OccurrencesOf(FirstPattern)) \subseteq MatchedLines
<1>1. ASSUME TypeOK, re \in Patterns, FirstPatternIsFound
      PROVE  Goal
  <2>1. text \in Texts /\ Asked \subseteq Nat
    <3>1. \A k \in DOMAIN found : found[k] \in Match
      BY <1>1 DEF TypeOK
    <3>2. \A k \in DOMAIN found : NextIndex(found[k]) \in Nat
      BY <3>1 DEF NextIndex, Match
    <3> QED BY <1>1, <3>2 DEF TypeOK, Asked
  <2>2. \A offset \in Nat : ~GivesUp(FirstPattern, text, offset)
    BY <1>1, <2>1, FirstPatternType DEF FirstPattern
  <2>3. \A m : ~LostBehindError(m)
    BY <2>1, <2>2 DEF LostBehindError
  <2> QED BY <1>1, <2>3 DEF FirstPatternIsFound, LinesOf
<1>2. PatternSpec => [](re \in Patterns)
  <2>1. PatternInit => re \in Patterns
    BY DEF PatternInit
  <2>2. re \in Patterns /\ [PatternNext]_patternVars => (re \in Patterns)'
    BY DEF PatternNext, Exec, patternVars
  <2> QED BY <2>1, <2>2, PTL DEF PatternSpec
<1>3. PatternSpec => []TypeOK
  BY EnginesImplement, TypeCorrect, PTL DEF ImplementsPageSearch
<1> QED BY <1>1, <1>2, <1>3, FirstPatternFound, PTL
=============================================================================
