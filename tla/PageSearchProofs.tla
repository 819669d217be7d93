--------------------------- MODULE PageSearchProofs ---------------------------
(***************************************************************************)
(* Proofs about search_page(): its state is well typed, the limit of -m    *)
(* holds, the loop moves forward with every match, every group handed to   *)
(* print_matches lies on one line unless the engine finds matches that     *)
(* span a newline, printing stays inside the page, -o prints the matches   *)
(* and the summaries print no lines.  Then the longest argument: what is   *)
(* printed, line by line and with its context, is what grep prints.  For   *)
(* all texts, options and matches.                                         *)
(***************************************************************************)
EXTENDS PageSearch, DataLemmas

\* std::string::find: behind everything that starts before the position it
\* returns, there is no newline from pos on.
LEMMA FindIsFirst ==
  ASSUME NEW t \in Texts, NEW p \in Nat, NEW n \in t.newlines, n >= p
  PROVE  Find(t, p) \in Nat /\ Find(t, p) <= n /\ Find(t, p) # Npos(t)
<1> DEFINE after == {k \in t.newlines : k >= p}
<1>1. t.newlines \subseteq Nat /\ t.size \in Nat /\ n <= t.size - 2
  BY TextsAssumption
<1>2. after # {} /\ after \in SUBSET Nat
  BY <1>1
<1>3. \E x \in after : \A y \in after : x <= y
  <2> HIDE DEF after
  <2> QED BY <1>2, LeastElement
<1>4. Min(after) \in after /\ \A y \in after : Min(after) <= y
  <2> HIDE DEF after
  <2> QED BY <1>3 DEF Min
<1>5. Find(t, p) = Min(after)
  BY <1>2 DEF Find
<1>6. Min(after) <= n
  BY <1>4
<1> QED
  BY <1>1, <1>2, <1>4, <1>5, <1>6 DEF Npos

-----------------------------------------------------------------------------
\* What one match is.
LEMMA MatchType ==
  ASSUME TypeOK, NEW m \in Matches(text, index)
  PROVE  /\ m \in Match /\ index <= m.start /\ m.start <= m.end
         /\ ~Spans(text, m) => \A n \in text.newlines : m.start <= n => m.end <= n
<1>1. text.size \in Nat /\ text.newlines \subseteq Nat
  BY TextsAssumption DEF TypeOK
<1>2. /\ m.start \in index..text.size /\ m.end \in index..text.size
      /\ m \in [start: index..text.size, end: index..text.size]
      /\ m.start <= m.end /\ KindOf(text, m) \in MatchKinds
  BY DEF Matches
<1>3. index \in Nat
  BY DEF TypeOK
<1>4. ASSUME ~Spans(text, m), NEW n \in text.newlines, m.start <= n
      PROVE  m.end <= n
  <2>1. ~ \E k \in text.newlines : m.start <= k /\ k < m.end
    BY <1>4 DEF Spans
  <2> QED BY <1>1, <1>2, <1>3, <1>4, <2>1
<1> QED
  BY <1>1, <1>2, <1>3, <1>4 DEF Match

\* flush_line_matches moves the current group to last_line.
LEMMA FlushMoves ==
  ASSUME NEW st
  PROVE  /\ flush_line_matches(st).current = <<>>
         /\ flush_line_matches(st).last_line = st.current
BY DEF flush_line_matches

LEMMA FinishMoves ==
  ASSUME NEW st
  PROVE  finish(st).current = <<>> /\ finish(st).last_line = st.current
BY DEF finish, flush_line_matches

\* handle_match either adds to the current group or starts a new one.
LEMMA HandleCases ==
  ASSUME NEW st, NEW m
  PROVE  \/ /\ handle_match(st, m).current = Append(st.current, m)
            /\ handle_match(st, m).last_line = st.last_line
            /\ st.current = <<>> \/ SameLineAs(st, m)
         \/ /\ handle_match(st, m).current = Append(<<>>, m)
            /\ handle_match(st, m).last_line = st.current
BY FlushMoves DEF handle_match

-----------------------------------------------------------------------------
\* A step of the loop keeps the state well typed.
LEMMA TypeStep == TypeOK /\ [Next]_vars => TypeOK'
<1> SUFFICES ASSUME TypeOK, [Next]_vars PROVE TypeOK'
  OBVIOUS
<1> USE DEF TypeOK
<1>1. CASE NoMatch
  <2>1. lines'.current = <<>> /\ lines'.last_line = lines.current
    BY <1>1, FinishMoves DEF NoMatch
  <2> QED BY <1>1, <2>1 DEF NoMatch
<1>2. ASSUME NEW m \in Matches(text, index), Counted(m)
      PROVE  /\ text' \in Texts /\ opts' \in OptionSet /\ previous_matches' \in BOOLEAN
             /\ total_count' \in Nat /\ page_count' \in Nat /\ found' \in Seq(Match)
  BY <1>2, MatchType DEF Counted
<1>3. ASSUME NEW m \in Matches(text, index)
      PROVE  /\ handle_match(lines, m).current \in Seq(Match)
             /\ handle_match(lines, m).last_line \in Seq(Match)
  <2> DEFINE h == handle_match(lines, m)
  <2>1. m \in Match /\ lines.current \in Seq(Match) /\ lines.last_line \in Seq(Match)
    BY MatchType
  <2>2. \/ h.current = Append(lines.current, m) /\ h.last_line = lines.last_line
        \/ h.current = Append(<<>>, m) /\ h.last_line = lines.current
    BY HandleCases
  <2>3. Append(lines.current, m) \in Seq(Match) /\ Append(<<>>, m) \in Seq(Match)
    BY <2>1
  <2> HIDE DEF h, TypeOK
  <2>4. h.current \in Seq(Match) /\ h.last_line \in Seq(Match)
    BY <2>1, <2>2, <2>3, Zenon
  <2> QED BY <2>4 DEF h
<1>4. ASSUME NEW m \in Matches(text, index)
      PROVE  /\ finish(handle_match(lines, m)).current \in Seq(Match)
             /\ finish(handle_match(lines, m)).last_line \in Seq(Match)
  <2> HIDE DEF TypeOK
  <2>1. /\ finish(handle_match(lines, m)).current = <<>>
        /\ finish(handle_match(lines, m)).last_line = handle_match(lines, m).current
    BY FinishMoves
  <2> QED BY <1>3, <2>1
<1>5. ASSUME NEW m \in Matches(text, index), MatchDecides(m) PROVE TypeOK'
  BY <1>2, <1>5 DEF MatchDecides
<1>6. ASSUME NEW m \in Matches(text, index), LastMatch(m) PROVE TypeOK'
  BY <1>2, <1>4, <1>6 DEF LastMatch
<1>7. ASSUME NEW m \in Matches(text, index), OneMatch(m) PROVE TypeOK'
  <2>1. m \in Match
    BY MatchType
  <2>2. NextIndex(m) \in Nat
    BY <2>1 DEF NextIndex, Match
  <2>3. CASE index' >= text.size
    BY <1>2, <1>4, <1>7, <2>2, <2>3 DEF OneMatch
  <2>4. CASE ~(index' >= text.size)
    BY <1>2, <1>3, <1>7, <2>2, <2>4 DEF OneMatch
  <2> QED BY <2>3, <2>4
<1>8. CASE UNCHANGED vars
  BY <1>8 DEF vars
<1> QED
  BY <1>1, <1>5, <1>6, <1>7, <1>8 DEF Next, Returned

\* The state of search_page is well typed.
THEOREM TypeCorrect == Spec => []TypeOK
<1>1. Init => TypeOK
  BY OptionsAssumption, CountsAssumption DEF Init, TypeOK
<1> QED
  BY <1>1, TypeStep, PTL DEF Spec

\* -m NUM: for every number and every sequence of matches, the total of the
\* file stays within the limit, and the loop does not go on once it is reached.
THEOREM LimitHolds == Spec => []MaxCountRespected
<1>1. Init => MaxCountRespected
  BY OptionsAssumption, CountsAssumption DEF Init, MaxCountRespected, OptionType
<1>2. TypeOK /\ MaxCountRespected /\ [Next]_vars => MaxCountRespected'
  <2> SUFFICES ASSUME TypeOK, MaxCountRespected, [Next]_vars
               PROVE  MaxCountRespected'
    OBVIOUS
  <2>1. opts.max_count \in Nat /\ total_count \in Nat
    BY OptionsAssumption DEF TypeOK, OptionType
  <2> USE <2>1 DEF MaxCountRespected
  <2>2. CASE NoMatch
    BY <2>2 DEF NoMatch
  <2>3. ASSUME NEW m \in Matches(text, index), MatchDecides(m)
        PROVE  MaxCountRespected'
    BY <2>3 DEF MatchDecides, Counted
  <2>4. ASSUME NEW m \in Matches(text, index), LastMatch(m)
        PROVE  MaxCountRespected'
    BY <2>4 DEF LastMatch, Counted
  <2>5. ASSUME NEW m \in Matches(text, index), OneMatch(m)
        PROVE  MaxCountRespected'
    BY <2>5 DEF OneMatch, Counted, LimitReached
  <2>6. CASE UNCHANGED vars
    BY <2>6 DEF vars
  <2> QED
    BY <2>2, <2>3, <2>4, <2>5, <2>6 DEF Next, Returned
<1> QED
  BY <1>1, <1>2, TypeCorrect, PTL DEF Spec

\* Every match moves the offset forward, an empty one included, so that the
\* loop cannot report the same place for ever.
THEOREM LoopAdvances == Spec => IndexAdvances
<1>1. TypeOK /\ [Next]_vars => [pc' = "exec" => index' > index]_vars
  <2> SUFFICES ASSUME TypeOK, Next PROVE (pc' = "exec" => index' > index) \/ UNCHANGED vars
    BY DEF vars
  <2>1. ASSUME NEW m \in Matches(text, index), OneMatch(m) PROVE index' > index
    <3>1. m \in Match /\ index <= m.start /\ m.start <= m.end /\ index \in Nat
      BY MatchType DEF TypeOK
    <3> QED BY <2>1, <3>1 DEF OneMatch, NextIndex, Match
  <2>2. ASSUME NEW m \in Matches(text, index), MatchDecides(m) \/ LastMatch(m)
        PROVE  pc' = "done"
    BY <2>2 DEF MatchDecides, LastMatch
  <2> QED
    BY <2>1, <2>2 DEF Next, NoMatch, Returned
<1> QED
  BY <1>1, TypeCorrect, PTL DEF Spec, IndexAdvances

-----------------------------------------------------------------------------
\* A match that handle_match adds to a group leaves the group on one line.
LEMMA GroupStaysOnLine ==
  ASSUME TypeOK, OnOneLine(lines.current),
         NEW m \in Matches(text, index), ~Spans(text, m),
         lines.current = <<>> \/ SameLineAs(lines, m)
  PROVE  OnOneLine(Append(lines.current, m))
<1> DEFINE old == lines.current
           new == Append(old, m)
<1>1. old \in Seq(Match) /\ m \in Match /\ text \in Texts
  BY MatchType DEF TypeOK
<1>2. text.newlines \subseteq Nat /\ text.size \in Nat
      /\ \A n \in text.newlines : n <= text.size - 2
  BY <1>1, TextsAssumption
<1>3. /\ Len(new) = Len(old) + 1 /\ new[Len(old) + 1] = m
      /\ \A i \in 1..Len(old) : new[i] = old[i] /\ old[i] \in Match
  BY <1>1
<1>4. CASE old = <<>>
  <2>1. Len(new) = 1 /\ new[1] = m
    BY <1>3, <1>4
  <2> QED BY <1>1, <1>2, <2>1, MatchType DEF OnOneLine, Match
<1>5. CASE old # <<>>
  <2>1. Len(old) \in Nat \ {0} /\ Last(old) = old[Len(old)] /\ new[1] = old[1]
    BY <1>1, <1>3, <1>5 DEF Last
  <2>2. ASSUME NEW i \in 1..Len(new), NEW n \in text.newlines,
               new[1].start <= n, n < new[i].end
        PROVE  FALSE
    <3>1. CASE i <= Len(old)
      BY <1>3, <2>1, <2>2, <3>1 DEF OnOneLine
    <3>2. CASE i = Len(old) + 1
      <4>1. n < m.end
        BY <1>3, <2>2, <3>2
      <4>2. n < m.start
        BY <1>1, <1>2, <4>1, MatchType DEF Match
      <4>3. n >= Last(old).end
        BY <1>2, <1>3, <2>1, <2>2, SMTT(30) DEF OnOneLine, Match
      <4>4. Last(old).end \in Nat
        BY <1>3, <2>1 DEF Match
      <4>5. /\ Find(text, Last(old).end) \in Nat /\ Find(text, Last(old).end) <= n
            /\ Find(text, Last(old).end) # Npos(text)
        BY <1>1, <4>3, <4>4, FindIsFirst
      <4>6. Find(text, Last(old).end) > m.start
        BY <1>5, <4>5 DEF SameLineAs
      <4> QED BY <1>1, <1>2, <4>2, <4>5, <4>6 DEF Match
    <3> QED BY <1>1, <1>3, <2>1, <2>2, <3>1, <3>2
  <2> QED BY <2>2 DEF OnOneLine
<1> QED
  BY <1>4, <1>5

\* "All entries must begin and end in the same line" (output.h): as long as no
\* match spans a newline, print_matches is only ever called with a group of
\* matches that lies on one line of the page, for every text.
THEOREM GroupsLieOnOneLine == Spec => []MatchesOnOneLine
<1>1. Init => MatchesOnOneLine
  BY DEF Init, MatchesOnOneLine, OnOneLine
<1>2. TypeOK /\ MatchesOnOneLine /\ [Next]_vars => MatchesOnOneLine'
  <2> SUFFICES ASSUME TypeOK, MatchesOnOneLine, [Next]_vars
               PROVE  MatchesOnOneLine'
    OBVIOUS
  <2>1. OnOneLine(<<>>)
    BY DEF OnOneLine
  <2>2. ASSUME text' = text, found' = found,
               lines' = lines \/ lines' = finish(lines)
        PROVE  MatchesOnOneLine'
    <3>1. NoneSpans' => NoneSpans
      BY <2>2 DEF NoneSpans, Spans
    <3>2. /\ OnOneLine(lines.current) /\ OnOneLine(lines.last_line)
              => OnOneLine(lines'.current) /\ OnOneLine(lines'.last_line)
      BY <2>1, <2>2, FinishMoves
    <3>3. \A group : OnOneLine(group) => OnOneLine(group)'
      BY <2>2 DEF OnOneLine
    <3> QED BY <2>2, <3>1, <3>2, <3>3 DEF MatchesOnOneLine, OnOneLine
  <2>3. CASE NoMatch
    BY <2>2, <2>3 DEF NoMatch
  <2>4. ASSUME NEW m \in Matches(text, index), Counted(m), NoneSpans'
        PROVE  ~Spans(text, m) /\ NoneSpans
    <3>1. found \in Seq(Match) /\ m \in Match /\ found' = Append(found, m) /\ text' = text
      BY <2>4, MatchType DEF Counted, TypeOK
    <3>2. /\ Len(found) + 1 \in DOMAIN found' /\ found'[Len(found) + 1] = m
          /\ \A i \in DOMAIN found : i \in DOMAIN found' /\ found'[i] = found[i]
      BY <3>1
    <3> QED BY <2>4, <3>1, <3>2 DEF NoneSpans, Spans
  <2>5. ASSUME NEW m \in Matches(text, index), ~Spans(text, m),
               OnOneLine(lines.current), OnOneLine(lines.last_line)
        PROVE  /\ OnOneLine(handle_match(lines, m).current)
               /\ OnOneLine(handle_match(lines, m).last_line)
    <3>1. OnOneLine(Append(<<>>, m))
      <4>1. m \in Match /\ m.start <= m.end
            /\ \A n \in text.newlines : m.start <= n => m.end <= n
        BY <2>5, MatchType
      <4>2. text.newlines \subseteq Nat
        BY TextsAssumption DEF TypeOK
      <4> QED BY <4>1, <4>2 DEF OnOneLine, Match
    <3>2. lines.current = <<>> \/ SameLineAs(lines, m) => OnOneLine(Append(lines.current, m))
      BY <2>5, GroupStaysOnLine
    <3> QED BY <2>5, <3>1, <3>2, HandleCases
  <2>6. ASSUME NEW m \in Matches(text, index), Counted(m),
               \/ lines' = lines \/ lines' = handle_match(lines, m)
               \/ lines' = finish(handle_match(lines, m))
        PROVE  MatchesOnOneLine'
    <3>1. text' = text
      BY <2>6 DEF Counted
    <3>2. ASSUME NoneSpans'
          PROVE  OnOneLine(lines'.current) /\ OnOneLine(lines'.last_line)
      <4>1. ~Spans(text, m) /\ OnOneLine(lines.current) /\ OnOneLine(lines.last_line)
        BY <2>4, <2>6, <3>2 DEF MatchesOnOneLine
      <4>2. /\ OnOneLine(handle_match(lines, m).current)
            /\ OnOneLine(handle_match(lines, m).last_line)
        BY <2>5, <4>1
      <4> QED BY <2>1, <2>6, <4>1, <4>2, FinishMoves
    <3> QED BY <3>1, <3>2 DEF MatchesOnOneLine, OnOneLine
  <2>7. ASSUME NEW m \in Matches(text, index),
               MatchDecides(m) \/ LastMatch(m) \/ OneMatch(m)
        PROVE  MatchesOnOneLine'
    <3>1. Counted(m)
      BY <2>7 DEF MatchDecides, LastMatch, OneMatch
    <3>2. \/ lines' = lines \/ lines' = handle_match(lines, m)
          \/ lines' = finish(handle_match(lines, m))
      BY <2>7 DEF MatchDecides, LastMatch, OneMatch
    <3> QED BY <2>6, <3>1, <3>2
  <2>8. CASE UNCHANGED vars
    BY <2>2, <2>8 DEF vars
  <2> QED
    BY <2>3, <2>7, <2>8 DEF Next, Returned
<1> QED
  BY <1>1, <1>2, TypeCorrect, PTL DEF Spec
-----------------------------------------------------------------------------
(* Printing inside the page.                                                 *)

Inside(t) == 0..(t.size - 1)
LineKinds == {"match", "context", "only", "separator"}
PageLines(t) == [kind: LineKinds, chars: Seq(Inside(t))]
Proper(t) == {m \in Match : m.start <= m.end /\ m.end <= t.size}

LEMMA TextType ==
  ASSUME NEW t \in Texts
  PROVE  /\ t.size \in Nat /\ t.newlines \subseteq Nat /\ Npos(t) = t.size + 1
         /\ \A n \in t.newlines : n \in Nat /\ n + 2 <= t.size /\ n # Npos(t)
BY TextsAssumption DEF Npos

\* Every set of naturals with an upper bound has a greatest element.
LEMMA GreatestElement ==
  ASSUME NEW S \in SUBSET Nat, S # {}, NEW b \in Nat, \A x \in S : x <= b
  PROVE  \E x \in S : \A y \in S : x >= y
<1> DEFINE R == {b - x : x \in S}
<1>1. R \in SUBSET Nat /\ R # {}
  <2>1. \A x \in S : x \in Nat /\ b - x \in Nat
    OBVIOUS
  <2> QED BY <2>1
<1>2. PICK r \in R : \A q \in R : r <= q
  <2> HIDE DEF R
  <2> QED BY <1>1, LeastElement
<1>3. PICK x \in S : r = b - x
  BY <1>2
<1>4. ASSUME NEW y \in S PROVE x >= y
  <2>1. b - y \in R
    OBVIOUS
  <2>2. r <= b - y
    BY <1>2, <2>1
  <2> QED BY <1>3, <2>2
<1> QED BY <1>4

\* find and rfind return npos or a newline on their side.
LEMMA FindType ==
  ASSUME NEW t \in Texts, NEW p \in Nat
  PROVE  Find(t, p) = Npos(t) \/ (Find(t, p) \in t.newlines /\ Find(t, p) >= p)
<1> DEFINE after == {n \in t.newlines : n >= p}
<1>1. CASE after = {}
  BY <1>1 DEF Find
<1>2. CASE after # {}
  <2>1. after \in SUBSET Nat
    BY TextType
  <2>2. Min(after) \in after
    <3> HIDE DEF after
    <3> QED BY <1>2, <2>1, LeastElement DEF Min
  <2> QED BY <1>2, <2>2 DEF Find
<1> QED BY <1>1, <1>2

LEMMA RFindType ==
  ASSUME NEW t \in Texts, NEW p \in Nat
  PROVE  RFind(t, p) = Npos(t) \/ (RFind(t, p) \in t.newlines /\ RFind(t, p) <= p)
<1> DEFINE before == {n \in t.newlines : n <= p}
<1>1. CASE before = {}
  BY <1>1 DEF RFind
<1>2. CASE before # {}
  <2>1. before \in SUBSET Nat /\ \A x \in before : x <= p
    BY TextType
  <2>2. Max(before) \in before
    <3> HIDE DEF before
    <3> QED BY <1>2, <2>1, GreatestElement DEF Max
  <2> QED BY <1>2, <2>2 DEF RFind
<1> QED BY <1>1, <1>2

\* The iteration of substr stays inside the text if its ends are in order.
LEMMA SubstrInside ==
  ASSUME NEW t \in Texts, NEW b \in Nat, NEW e \in Nat, b <= e, e <= t.size
  PROVE  Substr(t, b, e) \in Seq(Inside(t))
<1>1. t.size \in Nat
  BY TextType
<1>2. Substr(t, b, e) = [k \in 1..(e - b) |-> b + k - 1]
  BY DEF Substr
<1>3. \A k \in 1..(e - b) : b + k - 1 \in Inside(t)
  BY <1>1 DEF Inside
<1>4. e - b \in Nat
  OBVIOUS
<1> DEFINE S == Inside(t)
           n == e - b
           f == [k \in 1..n |-> b + k - 1]
<1>5. f \in [1..n -> S] /\ n \in Nat
  BY <1>3, <1>4
<1> HIDE DEF S, n, f
<1>6. f \in Seq(S)
  BY <1>5
<1> QED BY <1>2, <1>6 DEF S, n, f

LEMMA LineInside ==
  ASSUME NEW t, NEW kind \in LineKinds, NEW chars \in Seq(Inside(t))
  PROVE  OutputLine(kind, chars) \in PageLines(t)
BY DEF OutputLine, PageLines

LEMMA SeparatorInside ==
  ASSUME NEW t, NEW conf
  PROVE  print_context_separator(conf) \in Seq(PageLines(t))
<1>1. Separator \in PageLines(t)
  <2>1. <<>> \in Seq(Inside(t)) /\ "separator" \in LineKinds
    BY DEF LineKinds
  <2> QED BY <2>1, LineInside DEF Separator
<1>2. <<>> \in Seq(PageLines(t)) /\ <<Separator>> \in Seq(PageLines(t))
  <2> DEFINE S == PageLines(t)
  <2>1. Separator \in S
    BY <1>1
  <2> HIDE DEF S
  <2>2. <<>> \in Seq(S) /\ <<Separator>> \in Seq(S)
    BY <2>1
  <2> QED BY <2>2 DEF S
<1> QED BY <1>2 DEF print_context_separator
\* A bare match, and the line of a group of matches.
LEMMA OnlyMatchInside ==
  ASSUME NEW t \in Texts, NEW m \in Proper(t)
  PROVE  print_only_match(t, m) \in PageLines(t)
<1>1. m.start \in Nat /\ m.end \in Nat /\ m.start <= m.end /\ m.end <= t.size
  BY DEF Proper, Match
<1>2. Substr(t, m.start, m.end) \in Seq(Inside(t)) /\ "only" \in LineKinds
  BY <1>1, SubstrInside DEF LineKinds
<1> QED BY <1>2, LineInside DEF print_only_match

\* The gap in front of a match may be negative: then nothing is printed.
LEMMA GapInside ==
  ASSUME NEW t \in Texts, NEW from \in Nat, NEW to \in Nat, to <= t.size
  PROVE  Gap(t, from, to) \in Seq(Inside(t))
BY SubstrInside DEF Gap

LEMMA MatchesInside ==
  ASSUME NEW t \in Texts, NEW group \in Seq(Proper(t)), group # <<>>
  PROVE  print_matches(t, group) \in PageLines(t)
<1> DEFINE newline_a == RFind(t, Head(group).start)
           newline_b == Find(t, Last(group).end)
           a == IF newline_a = Npos(t) THEN 0 ELSE newline_a + 1
           b == IF newline_b = Npos(t) THEN t.size ELSE newline_b
           previous_end(i) == IF i = 1 THEN a ELSE group[i - 1].end
           pieces == [i \in 1..Len(group) |->
                        Gap(t, previous_end(i), group[i].start)
                        \o Substr(t, group[i].start, group[i].end)]
<1>1. /\ Len(group) \in Nat \ {0} /\ Head(group) = group[1] /\ Last(group) = group[Len(group)]
      /\ \A i \in 1..Len(group) : group[i] \in Proper(t)
  BY DEF Last
<1>2. \A i \in 1..Len(group) : /\ group[i].start \in Nat /\ group[i].end \in Nat
                               /\ group[i].start <= group[i].end /\ group[i].end <= t.size
  BY <1>1 DEF Proper, Match
<1>3. t.size \in Nat /\ a \in Nat
  <2>1. Head(group).start \in Nat
    BY <1>1, <1>2
  <2>2. newline_a = Npos(t) \/ newline_a \in t.newlines
    BY <2>1, RFindType
  <2> QED BY <2>2, TextType
<1>4. Last(group).end \in Nat /\ b \in Nat /\ Last(group).end <= b /\ b <= t.size
  <2>1. Last(group).end \in Nat /\ Last(group).end <= t.size
    BY <1>1, <1>2
  <2>2. newline_b = Npos(t) \/ (newline_b \in t.newlines /\ newline_b >= Last(group).end)
    BY <2>1, FindType
  <2> QED BY <2>1, <2>2, TextType
<1>5. ASSUME NEW i \in 1..Len(group) PROVE pieces[i] \in Seq(Inside(t))
  <2>1. previous_end(i) \in Nat
    BY <1>1, <1>2, <1>3
  <2> HIDE DEF previous_end
  <2>2. Gap(t, previous_end(i), group[i].start) \in Seq(Inside(t))
    <3>1. group[i].start \in Nat /\ group[i].start <= t.size
      BY <1>2, <1>3
    <3> QED BY <2>1, <3>1, GapInside
  <2>3. Substr(t, group[i].start, group[i].end) \in Seq(Inside(t))
    BY <1>2, SubstrInside
  <2>4. pieces[i] = Gap(t, previous_end(i), group[i].start) \o Substr(t, group[i].start, group[i].end)
    OBVIOUS
  <2> HIDE DEF pieces
  <2> QED BY <2>2, <2>3, <2>4
<1>6. pieces \in Seq(Seq(Inside(t)))
  <2> DEFINE S == Seq(Inside(t))
             n == Len(group)
  <2>1. pieces = [i \in 1..n |-> pieces[i]] /\ \A i \in 1..n : pieces[i] \in S /\ n \in Nat
    BY <1>1, <1>5
  <2> HIDE DEF S, n, pieces
  <2>2. n \in Nat
    BY <1>1 DEF n
  <2>3. pieces \in Seq(S)
    BY <2>1, <2>2
  <2> QED BY <2>3 DEF S
<1>7. Substr(t, Last(group).end, b) \in Seq(Inside(t))
  BY <1>4, SubstrInside
<1>8. FlattenSeq(pieces) \in Seq(Inside(t))
  BY <1>6, FlattenType
<1>9. FlattenSeq(pieces) \o Substr(t, Last(group).end, b) \in Seq(Inside(t)) /\ "match" \in LineKinds
  BY <1>7, <1>8 DEF LineKinds
<1>10. print_matches(t, group) = OutputLine("match", FlattenSeq(pieces) \o Substr(t, Last(group).end, b))
  BY DEF print_matches
<1> QED BY <1>9, <1>10, LineInside
-----------------------------------------------------------------------------
(* The recursive functions of the context: what one step of each does with   *)
(* the function for one line less, that they exist, and what they yield.     *)

\* A function on the naturals defined by recursion: each value from the one before.
ByOne(g, T, base, step) ==
  /\ g \in [Nat -> T] /\ g[0] = base
  /\ \A k \in Nat : k # 0 => g[k] = step[k][g[k - 1]] /\ g[k - 1] \in T

LEMMA RecursionByOne ==
  ASSUME NEW T, NEW base, NEW step, base \in T, step \in [Nat -> [T -> T]]
  PROVE  \E g : ByOne(g, T, base, step)
<1> DEFINE later == [n \in Nat |-> step[n + 1]]
<1>1. later \in [Nat -> [T -> T]] /\ \A n \in Nat : later[n] = step[n + 1]
  OBVIOUS
<1> HIDE DEF later
<1>2. PICK g : Recurses(g, T, base, later)
  BY <1>1, RecursionExists
<1>3. g \in [Nat -> T] /\ g[0] = base /\ \A n \in Nat : g[n + 1] = later[n][g[n]]
  BY <1>2 DEF Recurses
<1>4. ASSUME NEW k \in Nat, k # 0 PROVE g[k] = step[k][g[k - 1]] /\ g[k - 1] \in T
  <2>1. k - 1 \in Nat /\ (k - 1) + 1 = k
    BY <1>4
  <2> QED BY <1>1, <1>3, <2>1
<1> QED BY <1>3, <1>4 DEF ByOne

\* And all its values are of the same kind.
LEMMA TypeByOne ==
  ASSUME NEW T, NEW f, f[0] \in T, \A k \in Nat : (k # 0 /\ f[k - 1] \in T) => f[k] \in T
  PROVE  \A k \in Nat : f[k] \in T
<1> DEFINE N == {k \in Nat : f[k] \in T}
<1>1. 0 \in N
  OBVIOUS
<1>2. ASSUME NEW n \in Nat, n \in N PROVE n + 1 \in N
  <2>1. n + 1 \in Nat /\ n + 1 # 0 /\ (n + 1) - 1 = n /\ f[n] \in T
    BY <1>2
  <2> QED BY <2>1
<1>3. Nat \subseteq N
  <2> HIDE DEF N
  <2> QED BY <1>1, <1>2, Induction
<1> QED BY <1>3

BeforeOne(t, k, rest, pos) ==
  IF k = 0 THEN <<>>
  ELSE IF pos = 0 THEN <<OutputLine("context", <<>>)>>
  ELSE LET newpos == RFind(t, pos - 1)
       IN  IF newpos = Npos(t)
           THEN <<OutputLine("context", Substr(t, 0, pos))>>
           ELSE Append(rest[newpos], OutputLine("context", Substr(t, newpos + 1, pos)))
Before_f(f, t) == f = [k \in Nat |-> [pos \in t.newlines |-> BeforeOne(t, k, f[k - 1], pos)]]

\* One line more in front, if those in front of it are lines of the page.
LEMMA BeforeOneInside ==
  ASSUME NEW t \in Texts, NEW k \in Nat, NEW rest, NEW pos \in t.newlines,
         k = 0 \/ rest \in [t.newlines -> Seq(PageLines(t))]
  PROVE  BeforeOne(t, k, rest, pos) \in Seq(PageLines(t))
<1> DEFINE P == PageLines(t)
           newpos == RFind(t, pos - 1)
<1>1. pos \in Nat /\ pos <= t.size /\ t.size \in Nat
  BY TextType
<1>2. \A chars \in Seq(Inside(t)) : OutputLine("context", chars) \in P
  BY LineInside DEF LineKinds
<1>3. CASE k = 0
  <2>1. BeforeOne(t, k, rest, pos) = <<>>
    BY <1>3 DEF BeforeOne
  <2> QED BY <2>1
<1>4. CASE k # 0 /\ pos = 0
  <2>1. BeforeOne(t, k, rest, pos) = <<OutputLine("context", <<>>)>>
    BY <1>4 DEF BeforeOne
  <2>2. OutputLine("context", <<>>) \in P
    <3>1. <<>> \in Seq(Inside(t))
      OBVIOUS
    <3> QED BY <1>2, <3>1
  <2> HIDE DEF P
  <2>3. <<OutputLine("context", <<>>)>> \in Seq(P)
    BY <2>2
  <2> QED BY <2>1, <2>3 DEF P
<1>5. CASE k # 0 /\ pos # 0 /\ newpos = Npos(t)
  <2>1. BeforeOne(t, k, rest, pos) = <<OutputLine("context", Substr(t, 0, pos))>>
    BY <1>5 DEF BeforeOne
  <2>2. OutputLine("context", Substr(t, 0, pos)) \in P
    BY <1>1, <1>2, SubstrInside
  <2> HIDE DEF P
  <2>3. <<OutputLine("context", Substr(t, 0, pos))>> \in Seq(P)
    BY <2>2
  <2> QED BY <2>1, <2>3 DEF P
<1>6. CASE k # 0 /\ pos # 0 /\ newpos # Npos(t)
  <2>1. BeforeOne(t, k, rest, pos)
          = Append(rest[newpos], OutputLine("context", Substr(t, newpos + 1, pos)))
    BY <1>6 DEF BeforeOne
  <2>2. newpos \in t.newlines /\ newpos \in Nat /\ newpos + 1 <= pos
    <3>1. pos - 1 \in Nat
      BY <1>1, <1>6
    <3>2. newpos \in t.newlines /\ newpos <= pos - 1
      BY <1>6, <3>1, RFindType
    <3>3. newpos \in Nat
      BY <3>2, TextType
    <3> HIDE DEF newpos
    <3> QED BY <1>1, <3>2, <3>3
  <2>3. OutputLine("context", Substr(t, newpos + 1, pos)) \in P
    <3> HIDE DEF newpos, P
    <3>1. newpos + 1 \in Nat /\ newpos + 1 <= pos
      BY <2>2
    <3> QED BY <1>1, <1>2, <3>1, SubstrInside
  <2>4. rest[newpos] \in Seq(P)
    BY <1>6, <2>2
  <2> HIDE DEF P
  <2>5. Append(rest[newpos], OutputLine("context", Substr(t, newpos + 1, pos))) \in Seq(P)
    BY <2>3, <2>4
  <2> QED BY <2>1, <2>5 DEF P
<1> QED BY <1>3, <1>4, <1>5, <1>6

\* There is such a function.
LEMMA BeforeExists ==
  ASSUME NEW t \in Texts
  PROVE  \E g : Before_f(g, t)
<1> DEFINE V == Seq(PageLines(t))
           T == [t.newlines -> V]
           base == [pos \in t.newlines |-> BeforeOne(t, 0, <<>>, pos)]
           step == [k \in Nat |-> [g \in T |-> [pos \in t.newlines |->
                     IF k = 0 THEN <<>> ELSE BeforeOne(t, k, g, pos)]]]
<1>1. \E g : Before_f(g, t)
  <2>1. base \in T
    BY BeforeOneInside
  <2>2. step \in [Nat -> [T -> T]]
    <3>1. ASSUME NEW k \in Nat, NEW g \in T, NEW pos \in t.newlines
          PROVE  (IF k = 0 THEN <<>> ELSE BeforeOne(t, k, g, pos)) \in V
      BY BeforeOneInside
    <3> HIDE DEF V
    <3> QED BY <3>1
  <2>3. PICK g : ByOne(g, T, base, step)
    <3> HIDE DEF T, base, step
    <3> QED BY <2>1, <2>2, RecursionByOne
  <2>4. ASSUME NEW k \in Nat
        PROVE  g[k] = [pos \in t.newlines |-> BeforeOne(t, k, g[k - 1], pos)]
    <3>1. CASE k = 0
      <4>1. \A pos : BeforeOne(t, 0, <<>>, pos) = BeforeOne(t, k, g[k - 1], pos)
        BY <3>1 DEF BeforeOne
      <4> QED BY <2>3, <3>1, <4>1 DEF ByOne
    <3>2. CASE k # 0
      <4>1. g[k] = step[k][g[k - 1]] /\ g[k - 1] \in T
        <5> HIDE DEF T, base, step
        <5> QED BY <2>3, <3>2 DEF ByOne
      <4> HIDE DEF V
      <4> QED BY <3>2, <4>1
    <3> QED BY <3>1, <3>2
  <2>5. g = [k \in Nat |-> g[k]]
    BY <2>3 DEF ByOne
  <2> QED BY <2>4, <2>5 DEF Before_f
<1> QED BY <1>1

LEMMA ContextBeforeInside ==
  ASSUME NEW t \in Texts, NEW conf, NEW m \in Proper(t), NEW n \in Nat
  PROVE  print_context_before(t, conf, m, n) \in Seq(PageLines(t))
<1> DEFINE V == Seq(PageLines(t))
           T == [t.newlines -> V]
           f == CHOOSE g : Before_f(g, t)
           line_begin == RFind(t, m.start)
<1>1. \E g : Before_f(g, t)
  BY BeforeExists
<1>2. f = [k \in Nat |-> [pos \in t.newlines |-> BeforeOne(t, k, f[k - 1], pos)]]
  BY <1>1 DEF Before_f
<1> HIDE DEF f
<1>3. \A k \in Nat : f[k] = [pos \in t.newlines |-> BeforeOne(t, k, f[k - 1], pos)]
  BY <1>2
<1>4. \A k \in Nat : f[k] \in T
  <2>1. ASSUME NEW k \in Nat, k = 0 \/ f[k - 1] \in T PROVE f[k] \in T
    <3>1. \A pos \in t.newlines : BeforeOne(t, k, f[k - 1], pos) \in V
      BY <2>1, BeforeOneInside
    <3> HIDE DEF V
    <3> QED BY <1>3, <3>1
  <2> HIDE DEF T
  <2> QED BY <2>1, TypeByOne
<1>5. print_context_before(t, conf, m, n)
        = IF ~conf.context_mode \/ line_begin = Npos(t) THEN <<>> ELSE f[n][line_begin]
  BY Zenon DEF print_context_before, f, Before_f, BeforeOne
<1>6. CASE ~conf.context_mode \/ line_begin = Npos(t)
  <2>1. print_context_before(t, conf, m, n) = <<>>
    BY <1>5, <1>6
  <2> QED BY <2>1
<1>7. CASE ~(~conf.context_mode \/ line_begin = Npos(t))
  <2>1. line_begin \in t.newlines
    BY <1>7, RFindType DEF Proper, Match
  <2> QED BY <1>4, <1>5, <1>7, <2>1
<1> QED BY <1>6, <1>7
AfterOne(t, k, rest, pos) ==
  IF k = 0 \/ pos = t.size - 1 THEN <<>>
  ELSE LET newpos == Find(t, pos + 1)
       IN  IF newpos = Npos(t)
           THEN <<OutputLine("context", Substr(t, pos + 1, t.size))>>
           ELSE <<OutputLine("context", Substr(t, pos + 1, newpos))>> \o rest[newpos]
After_f(f, t) == f = [k \in Nat |-> [pos \in t.newlines |-> AfterOne(t, k, f[k - 1], pos)]]

\* One line more behind, if those behind it are lines of the page.
LEMMA AfterOneInside ==
  ASSUME NEW t \in Texts, NEW k \in Nat, NEW rest, NEW pos \in t.newlines,
         k = 0 \/ rest \in [t.newlines -> Seq(PageLines(t))]
  PROVE  AfterOne(t, k, rest, pos) \in Seq(PageLines(t))
<1> DEFINE P == PageLines(t)
           newpos == Find(t, pos + 1)
<1>1. pos + 1 \in Nat /\ pos + 1 <= t.size /\ t.size \in Nat
  BY TextType
<1>2. \A chars \in Seq(Inside(t)) : OutputLine("context", chars) \in P
  BY LineInside DEF LineKinds
<1>3. CASE k = 0 \/ pos = t.size - 1
  <2>1. AfterOne(t, k, rest, pos) = <<>>
    BY <1>3 DEF AfterOne
  <2> QED BY <2>1
<1>4. CASE ~(k = 0 \/ pos = t.size - 1) /\ newpos = Npos(t)
  <2>1. AfterOne(t, k, rest, pos) = <<OutputLine("context", Substr(t, pos + 1, t.size))>>
    BY <1>4 DEF AfterOne
  <2>2. OutputLine("context", Substr(t, pos + 1, t.size)) \in P
    BY <1>1, <1>2, SubstrInside
  <2> HIDE DEF P
  <2>3. <<OutputLine("context", Substr(t, pos + 1, t.size))>> \in Seq(P)
    BY <2>2
  <2> QED BY <2>1, <2>3 DEF P
<1>5. CASE ~(k = 0 \/ pos = t.size - 1) /\ newpos # Npos(t)
  <2>1. AfterOne(t, k, rest, pos)
          = <<OutputLine("context", Substr(t, pos + 1, newpos))>> \o rest[newpos]
    BY <1>5 DEF AfterOne
  <2>2. newpos \in t.newlines /\ newpos \in Nat /\ pos + 1 <= newpos /\ newpos <= t.size
    <3>1. newpos \in t.newlines /\ newpos >= pos + 1
      BY <1>1, <1>5, FindType
    <3>2. newpos \in Nat /\ newpos <= t.size
      BY <3>1, TextType
    <3> HIDE DEF newpos
    <3> QED BY <1>1, <3>1, <3>2
  <2>3. OutputLine("context", Substr(t, pos + 1, newpos)) \in P
    <3> HIDE DEF newpos, P
    <3> QED BY <1>1, <1>2, <2>2, SubstrInside
  <2>4. rest[newpos] \in Seq(P)
    BY <1>5, <2>2
  <2> HIDE DEF P
  <2>5. <<OutputLine("context", Substr(t, pos + 1, newpos))>> \o rest[newpos] \in Seq(P)
    BY <2>3, <2>4
  <2> QED BY <2>1, <2>5 DEF P
<1> QED BY <1>3, <1>4, <1>5

LEMMA AfterExists ==
  ASSUME NEW t \in Texts
  PROVE  \E g : After_f(g, t)
<1> DEFINE V == Seq(PageLines(t))
           D == t.newlines
           T == [D -> V]
           base == [pos \in D |-> AfterOne(t, 0, <<>>, pos)]
           step == [k \in Nat |-> [g \in T |-> [pos \in D |->
                     IF k = 0 THEN <<>> ELSE AfterOne(t, k, g, pos)]]]
<1>1. \E g : After_f(g, t)
  <2>1. base \in T
    BY AfterOneInside
  <2>2. step \in [Nat -> [T -> T]]
    <3>1. ASSUME NEW k \in Nat, NEW g \in T, NEW pos \in D
          PROVE  (IF k = 0 THEN <<>> ELSE AfterOne(t, k, g, pos)) \in V
      BY AfterOneInside
    <3> HIDE DEF V, D
    <3> QED BY <3>1
  <2>3. PICK g : ByOne(g, T, base, step)
    <3> HIDE DEF T, base, step
    <3> QED BY <2>1, <2>2, RecursionByOne
  <2>4. ASSUME NEW k \in Nat
        PROVE  g[k] = [pos \in D |-> AfterOne(t, k, g[k - 1], pos)]
    <3>1. CASE k = 0
      <4>1. \A pos : AfterOne(t, 0, <<>>, pos) = AfterOne(t, k, g[k - 1], pos)
        BY <3>1 DEF AfterOne
      <4> QED BY <2>3, <3>1, <4>1 DEF ByOne
    <3>2. CASE k # 0
      <4>1. g[k] = step[k][g[k - 1]] /\ g[k - 1] \in T
        <5> HIDE DEF T, base, step
        <5> QED BY <2>3, <3>2 DEF ByOne
      <4> HIDE DEF V, D
      <4> QED BY <3>2, <4>1
    <3> QED BY <3>1, <3>2
  <2>5. g = [k \in Nat |-> g[k]]
    BY <2>3 DEF ByOne
  <2> QED BY <2>4, <2>5 DEF After_f
<1> QED BY <1>1

LEMMA ContextAfterInside ==
  ASSUME NEW t \in Texts, NEW conf, NEW m \in Proper(t), NEW n \in Nat
  PROVE  print_context_after(t, conf, m, n) \in Seq(PageLines(t))
<1> DEFINE V == Seq(PageLines(t))
           D == t.newlines
           T == [D -> V]
           f == CHOOSE g : After_f(g, t)
           line_end == Find(t, m.end)
<1>1. \E g : After_f(g, t)
  BY AfterExists
<1>2. f = [k \in Nat |-> [pos \in D |-> AfterOne(t, k, f[k - 1], pos)]]
  BY <1>1 DEF After_f
<1> HIDE DEF f
<1>3. \A k \in Nat : f[k] = [pos \in D |-> AfterOne(t, k, f[k - 1], pos)]
  BY <1>2
<1>4. \A k \in Nat : f[k] \in T
  <2>1. ASSUME NEW k \in Nat, k = 0 \/ f[k - 1] \in T PROVE f[k] \in T
    <3>1. \A pos \in D : AfterOne(t, k, f[k - 1], pos) \in V
      BY <2>1, AfterOneInside
    <3> HIDE DEF V, D
    <3> QED BY <1>3, <3>1
  <2> HIDE DEF T
  <2> QED BY <2>1, TypeByOne
<1>5. print_context_after(t, conf, m, n)
        = IF ~conf.context_mode \/ line_end = Npos(t) THEN <<>> ELSE f[n][line_end]
  BY Zenon DEF print_context_after, f, After_f, AfterOne
<1>6. CASE ~conf.context_mode \/ line_end = Npos(t)
  <2>1. print_context_after(t, conf, m, n) = <<>>
    BY <1>5, <1>6
  <2> QED BY <2>1
<1>7. CASE ~(~conf.context_mode \/ line_end = Npos(t))
  <2>1. line_end \in t.newlines
    BY <1>7, FindType DEF Proper, Match
  <2> QED BY <1>4, <1>5, <1>7, <2>1
<1> QED BY <1>6, <1>7

\* The walks of print_context_between count lines and stop at a newline or npos.
Walks(t) == [lines: Nat, pos: Stops(t)]

LEMMA StopsType ==
  ASSUME NEW t \in Texts
  PROVE  /\ Npos(t) \in Stops(t)
         /\ \A p \in Nat : Find(t, p) \in Stops(t) /\ RFind(t, p) \in Stops(t)
         /\ \A p \in Stops(t) : p \in Nat
         /\ \A p \in Stops(t) : [lines |-> 0, pos |-> p] \in Walks(t) /\ [lines |-> 1, pos |-> p] \in Walks(t)
         /\ \A w \in Walks(t) : OneMore(w) \in Walks(t)
<1>1. /\ Npos(t) \in Stops(t)
      /\ \A p \in Nat : Find(t, p) \in Stops(t) /\ RFind(t, p) \in Stops(t)
  BY FindType, RFindType DEF Stops
<1>2. \A p \in Stops(t) : p \in Nat
  BY TextType DEF Stops
<1>3. /\ \A p \in Stops(t) : [lines |-> 0, pos |-> p] \in Walks(t) /\ [lines |-> 1, pos |-> p] \in Walks(t)
      /\ \A w \in Walks(t) : OneMore(w) \in Walks(t)
  BY DEF Walks, OneMore
<1> QED BY <1>1, <1>2, <1>3

RightOne(t, pos_left, k, rest, pos) ==
  IF k > 0 /\ pos # Npos(t) /\ pos < pos_left
  THEN OneMore(rest[Find(t, pos + 1)])
  ELSE [lines |-> 0, pos |-> pos]
Right_f(f, t, pos_left) ==
  f = [k \in Nat |-> [pos \in Stops(t) |-> RightOne(t, pos_left, k, f[k - 1], pos)]]

LEMMA RightOneType ==
  ASSUME NEW t \in Texts, NEW pos_left, NEW k \in Nat, NEW rest, NEW pos \in Stops(t),
         k = 0 \/ rest \in [Stops(t) -> Walks(t)]
  PROVE  RightOne(t, pos_left, k, rest, pos) \in Walks(t)
<1>1. CASE k > 0 /\ pos # Npos(t) /\ pos < pos_left
  <2>1. pos \in Nat /\ pos + 1 \in Nat
    BY StopsType
  <2>2. rest[Find(t, pos + 1)] \in Walks(t)
    BY <1>1, <2>1, StopsType
  <2> QED BY <1>1, <2>2, StopsType DEF RightOne
<1>2. CASE ~(k > 0 /\ pos # Npos(t) /\ pos < pos_left)
  BY <1>2, StopsType DEF RightOne
<1> QED BY <1>1, <1>2

LEMMA RightExists ==
  ASSUME NEW t \in Texts, NEW pos_left
  PROVE  \E g : Right_f(g, t, pos_left)
<1> DEFINE V == Walks(t)
           D == Stops(t)
           T == [D -> V]
           none == [lines |-> 0, pos |-> Npos(t)]
           base == [pos \in D |-> RightOne(t, pos_left, 0, <<>>, pos)]
           step == [k \in Nat |-> [g \in T |-> [pos \in D |->
                     IF k = 0 THEN none ELSE RightOne(t, pos_left, k, g, pos)]]]
<1>1. \E g : Right_f(g, t, pos_left)
  <2>1. base \in T
    BY RightOneType, StopsType
  <2>2. step \in [Nat -> [T -> T]]
    <3>1. ASSUME NEW k \in Nat, NEW g \in T, NEW pos \in D
          PROVE  (IF k = 0 THEN none ELSE RightOne(t, pos_left, k, g, pos)) \in V
      BY RightOneType, StopsType
    <3> HIDE DEF V, D
    <3> QED BY <3>1
  <2>3. PICK g : ByOne(g, T, base, step)
    <3> HIDE DEF T, base, step
    <3> QED BY <2>1, <2>2, RecursionByOne
  <2>4. ASSUME NEW k \in Nat
        PROVE  g[k] = [pos \in D |-> RightOne(t, pos_left, k, g[k - 1], pos)]
    <3>1. CASE k = 0
      <4>1. \A pos : RightOne(t, pos_left, 0, <<>>, pos) = RightOne(t, pos_left, k, g[k - 1], pos)
        BY <3>1 DEF RightOne
      <4> QED BY <2>3, <3>1, <4>1 DEF ByOne
    <3>2. CASE k # 0
      <4>1. g[k] = step[k][g[k - 1]] /\ g[k - 1] \in T
        <5> HIDE DEF T, base, step
        <5> QED BY <2>3, <3>2 DEF ByOne
      <4> HIDE DEF V, D
      <4> QED BY <3>2, <4>1
    <3> QED BY <3>1, <3>2
  <2>5. g = [k \in Nat |-> g[k]]
    BY <2>3 DEF ByOne
  <2> QED BY <2>4, <2>5 DEF Right_f
<1> QED BY <1>1

LEMMA WalkRightType ==
  ASSUME NEW t \in Texts, NEW conf, conf.context_after \in Nat,
         NEW pos_right \in Stops(t), NEW pos_left
  PROVE  walk_right(t, conf, pos_right, pos_left) \in Walks(t)
<1> DEFINE V == Walks(t)
           D == Stops(t)
           T == [D -> V]
           f == CHOOSE g : Right_f(g, t, pos_left)
<1>1. \E g : Right_f(g, t, pos_left)
  BY RightExists
<1>2. f = [k \in Nat |-> [pos \in D |-> RightOne(t, pos_left, k, f[k - 1], pos)]]
  BY <1>1 DEF Right_f
<1> HIDE DEF f
<1>3. \A k \in Nat : f[k] = [pos \in D |-> RightOne(t, pos_left, k, f[k - 1], pos)]
  BY <1>2
<1>4. \A k \in Nat : f[k] \in T
  <2>1. ASSUME NEW k \in Nat, k = 0 \/ f[k - 1] \in T PROVE f[k] \in T
    <3>1. \A pos \in D : RightOne(t, pos_left, k, f[k - 1], pos) \in V
      BY <2>1, RightOneType
    <3> HIDE DEF V, D
    <3> QED BY <1>3, <3>1
  <2> HIDE DEF T
  <2> QED BY <2>1, TypeByOne
<1>5. walk_right(t, conf, pos_right, pos_left) = f[conf.context_after][pos_right]
  BY Zenon DEF walk_right, f, Right_f, RightOne
<1> QED BY <1>4, <1>5

LeftOne(t, pos_right, k, rest, pos) ==
  IF k > 0 /\ pos # Npos(t) /\ pos > pos_right
  THEN IF pos = 0 THEN [lines |-> 1, pos |-> Npos(t)]
       ELSE OneMore(rest[RFind(t, pos - 1)])
  ELSE [lines |-> 0, pos |-> pos]
Left_f(f, t, pos_right) ==
  f = [k \in Nat |-> [pos \in Stops(t) |-> LeftOne(t, pos_right, k, f[k - 1], pos)]]

LEMMA LeftOneType ==
  ASSUME NEW t \in Texts, NEW pos_right, NEW k \in Nat, NEW rest, NEW pos \in Stops(t),
         k = 0 \/ rest \in [Stops(t) -> Walks(t)]
  PROVE  LeftOne(t, pos_right, k, rest, pos) \in Walks(t)
<1>1. CASE k > 0 /\ pos # Npos(t) /\ pos > pos_right /\ pos # 0
  <2>1. pos \in Nat /\ pos - 1 \in Nat
    <3>1. pos \in Nat
      BY StopsType
    <3> QED BY <1>1, <3>1
  <2>2. rest[RFind(t, pos - 1)] \in Walks(t)
    BY <1>1, <2>1, StopsType
  <2> QED BY <1>1, <2>2, StopsType DEF LeftOne
<1>2. CASE k > 0 /\ pos # Npos(t) /\ pos > pos_right /\ pos = 0
  BY <1>2, StopsType DEF LeftOne
<1>3. CASE ~(k > 0 /\ pos # Npos(t) /\ pos > pos_right)
  BY <1>3, StopsType DEF LeftOne
<1> QED BY <1>1, <1>2, <1>3

LEMMA LeftExists ==
  ASSUME NEW t \in Texts, NEW pos_right
  PROVE  \E g : Left_f(g, t, pos_right)
<1> DEFINE V == Walks(t)
           D == Stops(t)
           T == [D -> V]
           none == [lines |-> 0, pos |-> Npos(t)]
           base == [pos \in D |-> LeftOne(t, pos_right, 0, <<>>, pos)]
           step == [k \in Nat |-> [g \in T |-> [pos \in D |->
                     IF k = 0 THEN none ELSE LeftOne(t, pos_right, k, g, pos)]]]
<1>1. \E g : Left_f(g, t, pos_right)
  <2>1. base \in T
    BY LeftOneType, StopsType
  <2>2. step \in [Nat -> [T -> T]]
    <3>1. ASSUME NEW k \in Nat, NEW g \in T, NEW pos \in D
          PROVE  (IF k = 0 THEN none ELSE LeftOne(t, pos_right, k, g, pos)) \in V
      BY LeftOneType, StopsType
    <3> HIDE DEF V, D
    <3> QED BY <3>1
  <2>3. PICK g : ByOne(g, T, base, step)
    <3> HIDE DEF T, base, step
    <3> QED BY <2>1, <2>2, RecursionByOne
  <2>4. ASSUME NEW k \in Nat
        PROVE  g[k] = [pos \in D |-> LeftOne(t, pos_right, k, g[k - 1], pos)]
    <3>1. CASE k = 0
      <4>1. \A pos : LeftOne(t, pos_right, 0, <<>>, pos) = LeftOne(t, pos_right, k, g[k - 1], pos)
        BY <3>1 DEF LeftOne
      <4> QED BY <2>3, <3>1, <4>1 DEF ByOne
    <3>2. CASE k # 0
      <4>1. g[k] = step[k][g[k - 1]] /\ g[k - 1] \in T
        <5> HIDE DEF T, base, step
        <5> QED BY <2>3, <3>2 DEF ByOne
      <4> HIDE DEF V, D
      <4> QED BY <3>2, <4>1
    <3> QED BY <3>1, <3>2
  <2>5. g = [k \in Nat |-> g[k]]
    BY <2>3 DEF ByOne
  <2> QED BY <2>4, <2>5 DEF Left_f
<1> QED BY <1>1

LEMMA WalkLeftType ==
  ASSUME NEW t \in Texts, NEW conf, conf.context_before \in Nat,
         NEW pos_left \in Stops(t), NEW pos_right
  PROVE  walk_left(t, conf, pos_left, pos_right) \in Walks(t)
<1> DEFINE V == Walks(t)
           D == Stops(t)
           T == [D -> V]
           f == CHOOSE g : Left_f(g, t, pos_right)
<1>1. \E g : Left_f(g, t, pos_right)
  BY LeftExists
<1>2. f = [k \in Nat |-> [pos \in D |-> LeftOne(t, pos_right, k, f[k - 1], pos)]]
  BY <1>1 DEF Left_f
<1> HIDE DEF f
<1>3. \A k \in Nat : f[k] = [pos \in D |-> LeftOne(t, pos_right, k, f[k - 1], pos)]
  BY <1>2
<1>4. \A k \in Nat : f[k] \in T
  <2>1. ASSUME NEW k \in Nat, k = 0 \/ f[k - 1] \in T PROVE f[k] \in T
    <3>1. \A pos \in D : LeftOne(t, pos_right, k, f[k - 1], pos) \in V
      BY <2>1, LeftOneType
    <3> HIDE DEF V, D
    <3> QED BY <1>3, <3>1
  <2> HIDE DEF T
  <2> QED BY <2>1, TypeByOne
<1>5. walk_left(t, conf, pos_left, pos_right) = f[conf.context_before][pos_left]
  BY Zenon DEF walk_left, f, Left_f, LeftOne
<1> QED BY <1>4, <1>5
LEMMA ContextBetweenInside ==
  ASSUME NEW t \in Texts, NEW conf \in OptionType, NEW m1 \in Proper(t), NEW m2 \in Proper(t)
  PROVE  print_context_between(t, conf, m1, m2) \in Seq(PageLines(t))
<1> DEFINE right == walk_right(t, conf, Find(t, m1.end), RFind(t, m2.start))
           left == walk_left(t, conf, RFind(t, m2.start), right.pos)
           P == PageLines(t)
<1>1. /\ m1.end \in Nat /\ m2.start \in Nat
      /\ conf.context_after \in Nat /\ conf.context_before \in Nat
  BY DEF Proper, Match, OptionType
<1>2. Find(t, m1.end) \in Stops(t) /\ RFind(t, m2.start) \in Stops(t)
  BY <1>1, StopsType
<1>3. right \in Walks(t) /\ left \in Walks(t)
  BY <1>1, <1>2, WalkRightType, WalkLeftType
<1>4. right.lines \in Nat /\ left.lines \in Nat
  <2> HIDE DEF right, left
  <2> QED BY <1>3 DEF Walks
<1> HIDE DEF right, left
<1>5. print_context_after(t, conf, m1, right.lines) \in Seq(P)
  BY <1>4, ContextAfterInside
<1>6. print_context_before(t, conf, m2, left.lines) \in Seq(P)
  BY <1>4, ContextBeforeInside
<1>7. (IF left.pos > right.pos THEN print_context_separator(conf) ELSE <<>>) \in Seq(P)
  <2>1. print_context_separator(conf) \in Seq(P)
    BY SeparatorInside
  <2>2. <<>> \in Seq(P)
    <3> HIDE DEF P
    <3> QED OBVIOUS
  <2> QED BY <2>1, <2>2
<1>8. print_context_between(t, conf, m1, m2) =
        IF ~conf.context_mode THEN <<>>
        ELSE print_context_after(t, conf, m1, right.lines)
             \o (IF left.pos > right.pos THEN print_context_separator(conf) ELSE <<>>)
             \o print_context_before(t, conf, m2, left.lines)
  BY DEF print_context_between, right, left
<1> HIDE DEF P
<1>9. \A a, b, c \in Seq(P) : a \o b \o c \in Seq(P)
  OBVIOUS
<1>10. <<>> \in Seq(P)
  OBVIOUS
<1>11. print_context_between(t, conf, m1, m2) \in Seq(P)
  BY <1>5, <1>6, <1>7, <1>8, <1>9, <1>10
<1> QED BY <1>11 DEF P

-----------------------------------------------------------------------------
\* The vectors hold matches inside the page, and what was printed is inside.
AllInside(st) ==
  /\ st.current \in Seq(Proper(text)) /\ st.last_line \in Seq(Proper(text))
  /\ st.out \in Seq(PageLines(text))

LEMMA EndsOfGroup ==
  ASSUME NEW S, NEW group \in Seq(S), group # <<>>
  PROVE  Head(group) \in S /\ Last(group) \in S
BY DEF Last

LEMMA FlushInside ==
  ASSUME text \in Texts, opts \in OptionType, NEW st, AllInside(st)
  PROVE  AllInside(flush_line_matches(st))
<1> DEFINE P == PageLines(text)
           M == Proper(text)
<1>1. st.current \in Seq(M) /\ st.last_line \in Seq(M) /\ st.out \in Seq(P)
  BY DEF AllInside
<1>2. <<>> \in Seq(M) /\ <<>> \in Seq(P)
  <2> HIDE DEF P, M
  <2> QED OBVIOUS
<1>3. CASE st.current = <<>> \/ NoLineOutput
  BY <1>1, <1>2, <1>3 DEF flush_line_matches, AllInside
<1>4. CASE ~(st.current = <<>> \/ NoLineOutput)
  <2>1. Head(st.current) \in M
    <3> HIDE DEF M
    <3> QED BY <1>1, <1>4, EndsOfGroup
  <2>2. LeadingContext(st) \in Seq(P)
    <3>1. CASE st.last_line = <<>>
      <4>1. (IF previous_matches THEN print_context_separator(opts) ELSE <<>>) \in Seq(P)
        BY <1>2, SeparatorInside
      <4>2. print_context_before(text, opts, Head(st.current), opts.context_before) \in Seq(P)
        BY <2>1, ContextBeforeInside DEF OptionType
      <4> HIDE DEF P
      <4>3. \A a, b \in Seq(P) : a \o b \in Seq(P)
        OBVIOUS
      <4> QED BY <3>1, <4>1, <4>2, <4>3 DEF LeadingContext
    <3>2. CASE st.last_line # <<>>
      <4>1. Last(st.last_line) \in M
        <5> HIDE DEF M
        <5> QED BY <1>1, <3>2, EndsOfGroup
      <4> QED BY <2>1, <3>2, <4>1, ContextBetweenInside DEF LeadingContext
    <3> QED BY <3>1, <3>2
  <2>3. MatchedText(st) \in Seq(P)
    <3>1. CASE opts.only_matching
      <4> DEFINE n == Len(st.current)
      <4>1. n \in Nat /\ \A i \in 1..n : st.current[i] \in M
        <5> HIDE DEF M
        <5> QED BY <1>1
      <4>2. \A i \in 1..n : print_only_match(text, st.current[i]) \in P
        BY <4>1, OnlyMatchInside
      <4>3. MatchedText(st) = [i \in 1..n |-> print_only_match(text, st.current[i])]
        BY <3>1 DEF MatchedText
      <4> HIDE DEF P, n
      <4> QED BY <4>1, <4>2, <4>3
    <3>2. CASE ~opts.only_matching
      <4>1. print_matches(text, st.current) \in P
        BY <1>1, <1>4, MatchesInside
      <4>2. MatchedText(st) = <<print_matches(text, st.current)>>
        BY <3>2 DEF MatchedText
      <4> HIDE DEF P
      <4> QED BY <4>1, <4>2
    <3> QED BY <3>1, <3>2
  <2> HIDE DEF P, M
  <2>4. \A a, b, c \in Seq(P) : a \o b \o c \in Seq(P)
    OBVIOUS
  <2>5. st.out \o LeadingContext(st) \o MatchedText(st) \in Seq(P)
    BY <1>1, <2>2, <2>3, <2>4
  <2>6. flush_line_matches(st) = [current |-> <<>>, last_line |-> st.current,
                                  out |-> st.out \o LeadingContext(st) \o MatchedText(st)]
    BY <1>4 DEF flush_line_matches
  <2> QED BY <1>1, <1>2, <2>5, <2>6 DEF AllInside, P, M
<1> QED BY <1>3, <1>4

LEMMA HandleInside ==
  ASSUME text \in Texts, opts \in OptionType, NEW st, AllInside(st), NEW m \in Proper(text)
  PROVE  AllInside(handle_match(st, m))
<1> DEFINE M == Proper(text)
           add(s) == [current |-> Append(s.current, m), last_line |-> s.last_line, out |-> s.out]
<1>1. AllInside(flush_line_matches(st))
  BY FlushInside
<1>2. ASSUME NEW s, AllInside(s) PROVE AllInside(add(s))
  <2>1. Append(s.current, m) \in Seq(M)
    <3>1. s.current \in Seq(M) /\ m \in M
      BY <1>2 DEF AllInside
    <3> HIDE DEF M
    <3> QED BY <3>1
  <2> QED BY <1>2, <2>1 DEF AllInside
<1>3. handle_match(st, m) = add(st) \/ handle_match(st, m) = add(flush_line_matches(st))
  BY DEF handle_match
<1> HIDE DEF add
<1> QED BY <1>1, <1>2, <1>3

LEMMA FinishInside ==
  ASSUME text \in Texts, opts \in OptionType, NEW st, AllInside(st)
  PROVE  AllInside(finish(st))
<1> DEFINE fl == flush_line_matches(st)
           more == print_context_after(text, opts, Last(fl.last_line), opts.context_after)
           M == Proper(text)
           P == PageLines(text)
<1>1. AllInside(fl)
  BY FlushInside
<1>2. CASE ~(fl.last_line # <<>> /\ ~opts.count /\ ~opts.pagecount)
  BY <1>1, <1>2 DEF finish
<1>3. CASE fl.last_line # <<>> /\ ~opts.count /\ ~opts.pagecount
  <2>1. finish(st) = [current |-> fl.current, last_line |-> fl.last_line, out |-> fl.out \o more]
    <3>1. finish(st) = [fl EXCEPT !.out = @ \o more]
      BY <1>3 DEF finish
    <3>2. fl = [current |-> fl.current, last_line |-> fl.last_line, out |-> fl.out]
      BY DEF flush_line_matches
    <3> HIDE DEF fl, more
    <3> QED BY <3>1, <3>2
  <2>2. Last(fl.last_line) \in M
    <3>1. fl.last_line \in Seq(M)
      BY <1>1 DEF AllInside
    <3> HIDE DEF M, fl
    <3> QED BY <1>3, <3>1, EndsOfGroup
  <2>3. more \in Seq(P)
    <3>1. opts.context_after \in Nat
      BY DEF OptionType
    <3> HIDE DEF fl
    <3> QED BY <2>2, <3>1, ContextAfterInside
  <2>4. fl.out \o more \in Seq(P)
    <3>1. fl.out \in Seq(P)
      BY <1>1 DEF AllInside
    <3> HIDE DEF P, fl, more
    <3> QED BY <2>3, <3>1
  <2> HIDE DEF fl, more
  <2> QED BY <1>1, <2>1, <2>4 DEF AllInside
<1> QED BY <1>2, <1>3

\* No index outside of the page text is read while printing: for every text,
\* amount of context and sequence of matches, those over newlines included.
THEOREM PrintsInsideThePage == Spec => []PrintedInsideText
<1>1. Init => AllInside(lines)
  BY DEF Init, AllInside
<1>2. TypeOK /\ AllInside(lines) /\ [Next]_vars => AllInside(lines)'
  <2> SUFFICES ASSUME TypeOK, AllInside(lines), [Next]_vars PROVE AllInside(lines)'
    OBVIOUS
  <2>1. text \in Texts /\ opts \in OptionType
    BY OptionsAssumption DEF TypeOK
  <2>2. ASSUME text' = text, AllInside(lines') PROVE AllInside(lines)'
    BY <2>2 DEF AllInside, PageLines, Inside, Proper, Match
  <2>3. CASE NoMatch
    BY <2>1, <2>2, <2>3, FinishInside DEF NoMatch
  <2>4. ASSUME NEW m \in Matches(text, index), MatchDecides(m) \/ LastMatch(m) \/ OneMatch(m)
        PROVE  AllInside(lines)'
    <3>1. m \in Proper(text)
      <4>1. m.end <= text.size
        <5>1. m.end \in index..text.size
          BY DEF Matches
        <5> QED BY <2>1, <5>1, TextType DEF TypeOK
      <4> QED BY <4>1, MatchType DEF Proper
    <3>2. /\ text' = text
          /\ \/ lines' = lines \/ lines' = handle_match(lines, m)
             \/ lines' = finish(handle_match(lines, m))
      BY <2>4 DEF MatchDecides, LastMatch, OneMatch, Counted
    <3>3. AllInside(handle_match(lines, m))
      BY <2>1, <3>1, HandleInside
    <3> QED BY <2>1, <2>2, <3>2, <3>3, FinishInside
  <2>5. CASE UNCHANGED vars
    BY <2>2, <2>5 DEF vars
  <2> QED BY <2>3, <2>4, <2>5 DEF Next, Returned
<1>3. TypeOK /\ AllInside(lines) => PrintedInsideText
  <2> SUFFICES ASSUME TypeOK, AllInside(lines), NEW i \in 1..Len(lines.out),
                      NEW k \in 1..Len(lines.out[i].chars)
               PROVE  lines.out[i].chars[k] < text.size
    BY DEF PrintedInsideText
  <2> DEFINE P == PageLines(text)
             line == lines.out[i]
             C == Inside(text)
  <2>1. lines.out \in Seq(P)
    BY DEF AllInside
  <2>2. line \in P
    <3> HIDE DEF P
    <3> QED BY <2>1
  <2>3. line.chars \in Seq(C)
    <3> HIDE DEF line, C
    <3> QED BY <2>2 DEF PageLines, C
  <2>4. line.chars[k] \in C
    <3> HIDE DEF C
    <3> QED BY <2>3
  <2>5. text.size \in Nat
    BY TextType DEF TypeOK
  <2> QED BY <2>4, <2>5 DEF Inside
<1> QED
  BY <1>1, <1>2, <1>3, TypeCorrect, PTL DEF Spec
-----------------------------------------------------------------------------
(* The output modes without lines of the page.                               *)

NoContext == ~opts.context_mode
One(m) == OutputLine("only", Substr(text, m.start, m.end))
Only(group) == [i \in 1..Len(group) |-> One(group[i])]
Ones == {One(m) : m \in Match}

LEMMA OnlyType ==
  ASSUME NEW group \in Seq(Match)
  PROVE  /\ Only(group) \in Seq(Ones) /\ (group = <<>> => Only(group) = <<>>)
         /\ \A m \in Match : Only(Append(group, m)) = Append(Only(group), One(m))
<1>1. Only(group) \in Seq(Ones)
  <2> DEFINE n == Len(group)
             S == Ones
  <2>1. n \in Nat /\ \A i \in 1..n : One(group[i]) \in S
    BY DEF Ones
  <2>2. Only(group) = [i \in 1..n |-> One(group[i])]
    BY DEF Only
  <2> HIDE DEF n, S
  <2>3. [i \in 1..n |-> One(group[i])] \in Seq(S)
    BY <2>1
  <2> QED BY <2>2, <2>3 DEF S
<1>2. group = <<>> => Only(group) = <<>>
  BY DEF Only
<1>3. ASSUME NEW m \in Match PROVE Only(Append(group, m)) = Append(Only(group), One(m))
  <2> DEFINE r == Append(group, m)
             n == Len(group)
  <2>1. /\ n \in Nat /\ Len(r) = n + 1 /\ r[n + 1] = m
        /\ \A i \in 1..n : r[i] = group[i]
    OBVIOUS
  <2>2. Only(group) = [i \in 1..n |-> One(group[i])] /\ Only(r) = [i \in 1..Len(r) |-> One(r[i])]
    BY DEF Only
  <2> HIDE DEF r, n
  <2> DEFINE g == [i \in 1..n |-> One(group[i])]
             h == [i \in 1..(n + 1) |-> One(r[i])]
             e == One(m)
             S == Ones \cup {e}
  <2>3. g \in Seq(S) /\ Len(g) = n /\ e \in S /\ \A i \in 1..n : g[i] = One(r[i])
    <3>1. \A i \in 1..n : One(group[i]) \in S
      BY DEF n, Ones
    <3> HIDE DEF S
    <3> QED BY <2>1, <3>1 DEF S
  <2>4. DOMAIN h = 1..(n + 1) /\ h = [i \in 1..(n + 1) |-> h[i]]
        /\ h[n + 1] = e /\ \A i \in 1..n : h[i] = One(r[i])
    BY <2>1
  <2>5. Len(Append(g, e)) = n + 1 /\ Append(g, e) = [i \in 1..(n + 1) |-> Append(g, e)[i]]
        /\ Append(g, e)[n + 1] = e /\ \A i \in 1..n : Append(g, e)[i] = g[i]
    <3> DEFINE a == Append(g, e)
    <3> HIDE DEF g, e, S
    <3>1. n \in Nat /\ a \in Seq(S) /\ Len(a) = n + 1
      BY <2>1, <2>3
    <3>2. a[n + 1] = e /\ \A i \in 1..n : a[i] = g[i]
      BY <2>1, <2>3
    <3> HIDE DEF a
    <3>3. a = [i \in 1..(n + 1) |-> a[i]]
      BY <3>1
    <3> QED BY <3>1, <3>2, <3>3 DEF a
  <2>6. h = Append(g, e)
    <3>1. \A i \in 1..(n + 1) : h[i] = Append(g, e)[i]
      <4> HIDE DEF g, e, h
      <4>1. \A i \in 1..(n + 1) : i = n + 1 \/ i \in 1..n
        BY <2>1
      <4> QED BY <2>3, <2>4, <2>5, <4>1
    <3> HIDE DEF g, e, h
    <3> QED BY <2>4, <2>5, <3>1
  <2>7. Only(r) = h
    BY <2>1, <2>2
  <2> QED BY <2>2, <2>6, <2>7 DEF r
<1> QED BY <1>1, <1>2, <1>3

LEMMA NothingOnly == Only(<<>>) = <<>> /\ <<>> \in Seq(Match)
BY DEF Only

\* With -o and no context a group of matches adds its matches to the output.
LEMMA FlushPrintsMatches ==
  ASSUME NoContext, NormalOutput, opts.only_matching,
         NEW st, st.current \in Seq(Match), st.out \in Seq(Ones)
  PROVE  flush_line_matches(st) = [current |-> <<>>, last_line |-> st.current,
                                   out |-> st.out \o Only(st.current)]
<1>1. LeadingContext(st) = <<>>
  <2>1. print_context_separator(opts) = <<>>
    BY DEF NoContext, print_context_separator
  <2>2. \A m, n : print_context_before(text, opts, m, n) = <<>>
    BY Zenon DEF NoContext, print_context_before
  <2>3. \A m1, m2 : print_context_between(text, opts, m1, m2) = <<>>
    BY Zenon DEF NoContext, print_context_between
  <2> QED BY <2>1, <2>2, <2>3 DEF LeadingContext
<1>2. MatchedText(st) = Only(st.current)
  BY DEF MatchedText, Only, One, print_only_match
<1> DEFINE S == Ones
           o == Only(st.current)
<1>3. o \in Seq(S) /\ st.out \in Seq(S) /\ (st.current = <<>> => o = <<>>)
  BY OnlyType
<1> HIDE DEF S, o
<1>4. st.out \o <<>> \o o = st.out \o o /\ st.out \o <<>> = st.out
  BY <1>3
<1>5. ~NoLineOutput
  BY DEF NormalOutput, NoLineOutput
<1>6. CASE st.current = <<>>
  BY <1>3, <1>4, <1>6 DEF flush_line_matches, o
<1>7. CASE st.current # <<>>
  BY <1>1, <1>2, <1>4, <1>5, <1>7 DEF flush_line_matches, o
<1> QED BY <1>6, <1>7

\* What is printed and what is in the current group are the matches found so far.
OnlySoFar(st, all) ==
  /\ st.current \in Seq(Match) /\ st.out \in Seq(Ones)
  /\ st.out \o Only(st.current) = Only(all)

LEMMA FlushOnly ==
  ASSUME NoContext, NormalOutput, opts.only_matching, NEW st, NEW all, OnlySoFar(st, all)
  PROVE  OnlySoFar(flush_line_matches(st), all) /\ flush_line_matches(st).out = Only(all)
<1> DEFINE fl == flush_line_matches(st)
           S == Ones
<1>1. fl.current = <<>> /\ fl.out = st.out \o Only(st.current)
  <2>1. fl = [current |-> <<>>, last_line |-> st.current, out |-> st.out \o Only(st.current)]
    BY FlushPrintsMatches DEF OnlySoFar
  <2> HIDE DEF fl
  <2> QED BY <2>1
<1>2. Only(st.current) \in Seq(S) /\ st.out \in Seq(S)
  BY OnlyType DEF OnlySoFar
<1>3. Only(<<>>) = <<>> /\ <<>> \in Seq(Match)
  BY NothingOnly
<1>4. fl.out \in Seq(S) /\ fl.out \o <<>> = fl.out
  <2> HIDE DEF S, fl
  <2> QED BY <1>1, <1>2
<1> HIDE DEF fl
<1> QED BY <1>1, <1>3, <1>4 DEF OnlySoFar, fl

LEMMA HandleOnly ==
  ASSUME NoContext, NormalOutput, opts.only_matching, NEW st, NEW all \in Seq(Match),
         OnlySoFar(st, all), NEW m \in Match
  PROVE  OnlySoFar(handle_match(st, m), Append(all, m))
<1> DEFINE S == Ones
           add(s) == [current |-> Append(s.current, m), last_line |-> s.last_line, out |-> s.out]
<1>1. ASSUME NEW s, OnlySoFar(s, all) PROVE OnlySoFar(add(s), Append(all, m))
  <2> DEFINE o == Only(s.current)
             e == One(m)
             c == Append(s.current, m)
  <2>1. /\ o \in Seq(S) /\ s.out \in Seq(S) /\ e \in S /\ c \in Seq(Match)
        /\ Only(c) = Append(o, e) /\ Only(Append(all, m)) = Append(Only(all), e)
        /\ s.out \o o = Only(all)
    <3>1. /\ s.current \in Seq(Match) /\ s.out \in Seq(S) /\ s.out \o o = Only(all)
      BY <1>1 DEF OnlySoFar
    <3>2. e \in S
      BY DEF Ones
    <3>3. c \in Seq(Match)
      BY <3>1
    <3> HIDE DEF S, o, e, c
    <3>4. o \in Seq(S) /\ Only(c) = Append(o, e)
      BY <3>1, OnlyType DEF S, o, e, c
    <3>5. Only(Append(all, m)) = Append(Only(all), e)
      BY OnlyType DEF e
    <3> QED BY <3>1, <3>2, <3>3, <3>4, <3>5
  <2> HIDE DEF S, o, e, c
  <2>2. s.out \o Append(o, e) = Append(s.out \o o, e)
    <3> DEFINE before == s.out
    <3>1. before \in Seq(S)
      BY <2>1
    <3> HIDE DEF before
    <3>2. AppendsLast(before, o, e)
      BY <2>1, <3>1, ConcatAppend, Zenon
    <3> QED BY <3>2 DEF AppendsLast, before
  <2>3. add(s).current = c /\ add(s).out = s.out
    BY DEF c
  <2> HIDE DEF add
  <2> QED BY <2>1, <2>2, <2>3 DEF OnlySoFar, S
<1>2. handle_match(st, m) = add(st) \/ handle_match(st, m) = add(flush_line_matches(st))
  BY DEF handle_match
<1> HIDE DEF add
<1> QED BY <1>1, <1>2, FlushOnly

\* With -o, for which main turns the context off, exactly the matches are printed, in order.
THEOREM OnlyMatchesArePrinted == Spec => [](~opts.context_mode => OnlyMatchedParts)
<1> DEFINE Mode == NoContext /\ NormalOutput /\ opts.only_matching
           Inv == Mode => OnlySoFar(lines, found) /\ (pc = "done" => lines.out = Only(found))
<1>1. Init => Inv
  <2> SUFFICES ASSUME Init PROVE Inv
    OBVIOUS
  <2>1. lines.current = <<>> /\ lines.out = <<>> /\ found = <<>> /\ pc = "exec"
    BY DEF Init
  <2>2. <<>> \in Seq(Match) /\ <<>> \in Seq(Ones) /\ Only(<<>>) = <<>> /\ <<>> \o <<>> = <<>>
    <3>1. <<>> \in Seq(Match) /\ Only(<<>>) = <<>>
      BY NothingOnly
    <3> DEFINE S == Ones
    <3> HIDE DEF S
    <3>2. <<>> \in Seq(S) /\ <<>> \o <<>> = <<>>
      OBVIOUS
    <3> QED BY <3>1, <3>2 DEF S
  <2> QED BY <2>1, <2>2 DEF OnlySoFar
<1>2. TypeOK /\ Inv /\ [Next]_vars => Inv'
  <2> SUFFICES ASSUME TypeOK, Inv, [Next]_vars, Mode' PROVE (OnlySoFar(lines, found)
                 /\ (pc = "done" => lines.out = Only(found)))'
    OBVIOUS
  <2>t. text' = text /\ opts' = opts /\ previous_matches' = previous_matches
    BY DEF Next, Returned, NoMatch, MatchDecides, LastMatch, OneMatch, Counted, vars
  <2>1. Mode
    BY <2>t DEF NoContext, NormalOutput
  <2>2. OnlySoFar(lines, found) /\ found \in Seq(Match)
    BY <2>1 DEF TypeOK
  <2>3. /\ \A group : Only(group)' = Only(group)
        /\ Ones' = Ones
    BY <2>t DEF Only, Ones, One
  <2>4. ASSUME OnlySoFar(lines', found'), pc' = "done" => lines'.out = Only(found')
        PROVE  (OnlySoFar(lines, found) /\ (pc = "done" => lines.out = Only(found)))'
    BY <2>3, <2>4, <2>t DEF OnlySoFar, Only, Ones, One
  <2>5. ASSUME NEW st, NEW all, OnlySoFar(st, all)
        PROVE  OnlySoFar(finish(st), all) /\ finish(st).out = Only(all)
    <3> DEFINE fl == flush_line_matches(st)
    <3>1. OnlySoFar(fl, all) /\ fl.out = Only(all)
      BY <2>1, <2>5, FlushOnly
    <3>2. \A m, n : print_context_after(text, opts, m, n) = <<>>
      BY <2>1, Zenon DEF NoContext, print_context_after
    <3>3. fl.out \o <<>> = fl.out
      <4> DEFINE S == Ones
      <4>1. fl.out \in Seq(S)
        BY <3>1 DEF OnlySoFar
      <4> HIDE DEF S, fl
      <4> QED BY <4>1
    <3>4. finish(st) = fl \/ finish(st) = [fl EXCEPT !.out = fl.out \o <<>>]
      BY <3>2, Zenon DEF finish
    <3>5. fl = [current |-> fl.current, last_line |-> fl.last_line, out |-> fl.out]
      BY DEF flush_line_matches
    <3>6. finish(st) = fl
      <4> HIDE DEF fl
      <4> QED BY <3>3, <3>4, <3>5
    <3> QED BY <3>1, <3>6
  <2>6. CASE NoMatch
    BY <2>2, <2>4, <2>5, <2>6 DEF NoMatch
  <2>7. ASSUME NEW m \in Matches(text, index), MatchDecides(m) PROVE FALSE
    BY <2>1, <2>7 DEF MatchDecides, FirstMatchSuffices, NormalOutput
  <2>8. ASSUME NEW m \in Matches(text, index), LastMatch(m) \/ OneMatch(m)
        PROVE  /\ found' = Append(found, m)
               /\ \/ lines' = handle_match(lines, m) /\ pc' = "exec"
                  \/ lines' = finish(handle_match(lines, m))
    BY <2>8 DEF LastMatch, OneMatch, Counted
  <2>9. ASSUME NEW m \in Matches(text, index), LastMatch(m) \/ OneMatch(m)
        PROVE  (OnlySoFar(lines, found) /\ (pc = "done" => lines.out = Only(found)))'
    <3>1. OnlySoFar(handle_match(lines, m), Append(found, m))
      BY <2>1, <2>2, HandleOnly, MatchType
    <3> QED BY <2>4, <2>5, <2>8, <2>9, <3>1
  <2>10. CASE UNCHANGED vars
    BY <2>1, <2>2, <2>4, <2>10 DEF vars
  <2> QED BY <2>6, <2>7, <2>9, <2>10 DEF Next, Returned
<1>3. Inv => (~opts.context_mode => OnlyMatchedParts)
  BY DEF OnlyMatchedParts, Only, One, NoContext
<1> QED
  BY <1>1, <1>2, <1>3, TypeCorrect, PTL DEF Spec
\* -q, -l, -L, -c and -p print none of the page's lines.  (But -L alone does print the
\* context behind the last match of a page.)
OnlyFilesWithout ==
  /\ opts.only_filenames = "WITHOUT_MATCH"
  /\ ~opts.quiet /\ ~opts.count /\ ~opts.pagecount
THEOREM SummariesPrintNoLines ==
  Spec => []((OnlyFilesWithout => ~opts.context_mode) => NormalOutputSuppressed)
<1> DEFINE Mode == (OnlyFilesWithout => ~opts.context_mode) /\ ~NormalOutput
           Silent(st) == st.out = <<>> /\ (FirstMatchSuffices => st.current = <<>>)
           Inv == Mode => Silent(lines)
<1>1. Init => Inv
  BY DEF Init
<1>2. TypeOK /\ Inv /\ [Next]_vars => Inv'
  <2> SUFFICES ASSUME TypeOK, Inv, [Next]_vars, Mode' PROVE Silent(lines)'
    OBVIOUS
  <2>1. /\ text' = text /\ opts' = opts
        /\ opts.only_filenames \in OnlyFilenames
    BY OptionsAssumption
       DEF Next, Returned, NoMatch, MatchDecides, LastMatch, OneMatch, Counted, vars, TypeOK, OptionType
  <2>2. Mode /\ Silent(lines)
    BY <2>1 DEF NormalOutput, OnlyFilesWithout
  <2>3. ASSUME NEW st, Silent(st)
        PROVE  flush_line_matches(st).out = <<>>
    BY <2>1, <2>2, <2>3
       DEF flush_line_matches, NoLineOutput, NormalOutput, FirstMatchSuffices, OnlyFilenames
  <2>4. ASSUME NEW st, Silent(st) PROVE Silent(finish(st))
    <3> DEFINE fl == flush_line_matches(st)
    <3>1. fl.out = <<>> /\ fl.current = <<>> /\ fl.last_line = st.current
      BY <2>3, <2>4, FlushMoves
    <3>2. CASE fl.last_line = <<>> \/ opts.count \/ opts.pagecount
      <4>1. finish(st) = fl
        BY <3>2 DEF finish
      <4> HIDE DEF fl
      <4> QED BY <3>1, <4>1
    <3>3. CASE ~(fl.last_line = <<>> \/ opts.count \/ opts.pagecount)
      <4>1. ~FirstMatchSuffices
        BY <2>4, <3>1, <3>3
      <4>2. ~opts.context_mode
        BY <2>1, <2>2, <3>3, <4>1
           DEF NormalOutput, FirstMatchSuffices, OnlyFilenames, OnlyFilesWithout
      <4>3. \A m, n : print_context_after(text, opts, m, n) = <<>>
        BY <4>2, Zenon DEF print_context_after
      <4>4. finish(st) = [fl EXCEPT !.out = fl.out \o <<>>]
        BY <3>3, <4>3, Zenon DEF finish
      <4>5. fl = [current |-> fl.current, last_line |-> fl.last_line, out |-> fl.out]
        BY DEF flush_line_matches
      <4>6. <<>> \o <<>> = <<>>
        OBVIOUS
      <4> HIDE DEF fl
      <4> QED BY <3>1, <4>4, <4>5, <4>6
    <3> QED BY <3>2, <3>3
  <2>5. ASSUME NEW st, NEW m, Silent(st), ~FirstMatchSuffices PROVE Silent(handle_match(st, m))
    BY <2>3, <2>5 DEF handle_match
  <2>6. ASSUME Silent(lines') PROVE Silent(lines)'
    BY <2>1, <2>6 DEF FirstMatchSuffices
  <2>7. CASE NoMatch
    BY <2>2, <2>4, <2>6, <2>7 DEF NoMatch
  <2>8. ASSUME NEW m \in Matches(text, index), MatchDecides(m) \/ LastMatch(m) \/ OneMatch(m)
        PROVE  Silent(lines)'
    <3>1. \/ lines' = lines
          \/ /\ ~FirstMatchSuffices
             /\ lines' = handle_match(lines, m) \/ lines' = finish(handle_match(lines, m))
      BY <2>8 DEF MatchDecides, LastMatch, OneMatch
    <3>2. ~FirstMatchSuffices => Silent(handle_match(lines, m))
      BY <2>2, <2>5
    <3> HIDE DEF Silent
    <3> QED BY <2>2, <2>4, <2>6, <3>1, <3>2
  <2>9. CASE UNCHANGED vars
    BY <2>2, <2>6, <2>9 DEF vars
  <2> QED BY <2>7, <2>8, <2>9 DEF Next, Returned
<1>3. Inv => ((OnlyFilesWithout => ~opts.context_mode) => NormalOutputSuppressed)
  BY DEF NormalOutputSuppressed
<1> QED
  BY <1>1, <1>2, <1>3, TypeCorrect, PTL DEF Spec
-----------------------------------------------------------------------------
(* The lines of a page: numbers of lines and the newlines that end them.     *)

\* The newlines in front of a position; LineOf counts them.
NewlinesBefore(t, p) == {n \in t.newlines : n < p}

\* The newlines of a page are finitely many, so lines have numbers.
LEMMA LineCounts ==
  ASSUME NEW t \in Texts, NEW p \in Nat
  PROVE  /\ IsFiniteSet(t.newlines) /\ IsFiniteSet(NewlinesBefore(t, p))
         /\ NumLines(t) \in Nat /\ NumLines(t) >= 1
         /\ LineOf(t, p) = Cardinality(NewlinesBefore(t, p)) + 1
         /\ LineOf(t, p) \in Nat /\ LineOf(t, p) >= 1 /\ LineOf(t, p) <= NumLines(t)
<1>1. t.size \in Nat /\ t.newlines \in SUBSET Nat /\ \A n \in t.newlines : n <= t.size
  BY TextType
<1>2. IsFiniteSet(t.newlines)
  BY <1>1, FS_BoundedSetOfNaturals
<1>3. NewlinesBefore(t, p) \in SUBSET t.newlines
  BY DEF NewlinesBefore
<1>4. /\ IsFiniteSet(NewlinesBefore(t, p))
      /\ Cardinality(NewlinesBefore(t, p)) <= Cardinality(t.newlines)
  BY <1>2, <1>3, FS_Subset
<1>5. Cardinality(NewlinesBefore(t, p)) \in Nat /\ Cardinality(t.newlines) \in Nat
  BY <1>2, <1>4, FS_CardinalityType
<1>6. LineOf(t, p) = Cardinality(NewlinesBefore(t, p)) + 1
  BY DEF LineOf, NewlinesBefore
<1> QED BY <1>2, <1>4, <1>5, <1>6 DEF NumLines

\* The number of the line only depends on the newlines in front.
LEMMA LineIsSame ==
  ASSUME NEW t, NEW p, NEW q, NewlinesBefore(t, p) = NewlinesBefore(t, q)
  PROVE  LineOf(t, p) = LineOf(t, q)
BY DEF LineOf, NewlinesBefore

\* No newline in front of a position: the first line; all of them: the last one.
LEMMA LineOfNone ==
  ASSUME NEW t \in Texts, NEW p \in Nat, NewlinesBefore(t, p) = {}
  PROVE  LineOf(t, p) = 1
BY LineCounts, FS_EmptySet

LEMMA LineOfAll ==
  ASSUME NEW t \in Texts, NEW p \in Nat, \A n \in t.newlines : n < p
  PROVE  LineOf(t, p) = NumLines(t)
<1>1. NewlinesBefore(t, p) = t.newlines
  BY DEF NewlinesBefore
<1> QED BY <1>1, LineCounts DEF NumLines

\* Behind a newline the next line begins.
LEMMA LineOfNext ==
  ASSUME NEW t \in Texts, NEW p \in Nat
  PROVE  LineOf(t, p + 1) = IF p \in t.newlines THEN LineOf(t, p) + 1 ELSE LineOf(t, p)
<1> DEFINE S == NewlinesBefore(t, p)
<1>1. t.newlines \subseteq Nat
  BY TextType
<1>2. CASE p \notin t.newlines
  <2>1. NewlinesBefore(t, p + 1) = S
    BY <1>1, <1>2 DEF NewlinesBefore
  <2> QED BY <1>2, <2>1, LineIsSame
<1>3. CASE p \in t.newlines
  <2>1. NewlinesBefore(t, p + 1) = S \cup {p} /\ p \notin S
    BY <1>1, <1>3 DEF NewlinesBefore
  <2>2. IsFiniteSet(S) /\ LineOf(t, p) = Cardinality(S) + 1 /\ LineOf(t, p) \in Nat
        /\ LineOf(t, p + 1) = Cardinality(NewlinesBefore(t, p + 1)) + 1
    BY LineCounts
  <2> HIDE DEF S
  <2>3. Cardinality(S \cup {p}) = Cardinality(S) + 1
    BY <2>1, <2>2, FS_AddElement
  <2> QED BY <1>3, <2>1, <2>2, <2>3
<1> QED BY <1>2, <1>3

\* Line numbers do not fall along the page.
LEMMA LineOfMonotonic ==
  ASSUME NEW t \in Texts, NEW p \in Nat, NEW q \in Nat, p <= q
  PROVE  LineOf(t, p) <= LineOf(t, q)
<1>1. t.newlines \subseteq Nat
  BY TextType
<1>2. NewlinesBefore(t, p) \in SUBSET NewlinesBefore(t, q)
  BY <1>1 DEF NewlinesBefore
<1>3. /\ IsFiniteSet(NewlinesBefore(t, p)) /\ IsFiniteSet(NewlinesBefore(t, q))
      /\ LineOf(t, p) = Cardinality(NewlinesBefore(t, p)) + 1
      /\ LineOf(t, q) = Cardinality(NewlinesBefore(t, q)) + 1
  BY LineCounts
<1>4. Cardinality(NewlinesBefore(t, p)) <= Cardinality(NewlinesBefore(t, q))
  BY <1>2, <1>3, FS_Subset
<1>5. Cardinality(NewlinesBefore(t, p)) \in Nat /\ Cardinality(NewlinesBefore(t, q)) \in Nat
  BY <1>3, FS_CardinalityType
<1> QED BY <1>3, <1>4, <1>5

\* A newline belongs to the line that it ends.
LEMMA LineOfNewline ==
  ASSUME NEW t \in Texts, NEW n \in t.newlines, NEW q \in Nat, n < q
  PROVE  /\ LineOf(t, n) < LineOf(t, q) /\ LineOf(t, n) + 1 = LineOf(t, n + 1)
         /\ LineOf(t, n) < NumLines(t)
<1>1. n \in Nat /\ n + 1 \in Nat /\ n + 1 <= q
  BY TextType
<1>2. LineOf(t, n + 1) = LineOf(t, n) + 1
  BY <1>1, LineOfNext
<1>3. LineOf(t, n + 1) <= LineOf(t, q) /\ LineOf(t, n) \in Nat /\ LineOf(t, q) \in Nat
      /\ LineOf(t, n + 1) <= NumLines(t) /\ NumLines(t) \in Nat
  BY <1>1, LineOfMonotonic, LineCounts
<1> QED BY <1>2, <1>3

\* Every line but the last one is ended by a newline.
LEMMA NewlineExists ==
  ASSUME NEW t \in Texts, NEW k \in Nat, 1 <= k, k < NumLines(t)
  PROVE  \E n \in t.newlines : LineOf(t, n) = k
<1> DEFINE S == {p \in Nat : LineOf(t, p) > k}
<1>1. t.size \in S
  <2>1. t.size \in Nat /\ \A n \in t.newlines : n < t.size
    BY TextType
  <2> QED BY <2>1, LineOfAll
<1>2. PICK p \in S : \A q \in S : p <= q
  <2>1. S \in SUBSET Nat /\ S # {}
    BY <1>1
  <2> HIDE DEF S
  <2> QED BY <2>1, LeastElement
<1>3. p # 0
  <2>1. NewlinesBefore(t, 0) = {}
    BY TextType DEF NewlinesBefore
  <2>2. LineOf(t, 0) = 1
    BY <2>1, LineOfNone
  <2> QED BY <2>2
<1>4. p - 1 \in Nat /\ (p - 1) + 1 = p
  BY <1>3
<1>5. LineOf(t, p - 1) <= k /\ LineOf(t, p - 1) \in Nat
  <2>1. p - 1 \notin S
    BY <1>2, <1>4
  <2> QED BY <1>4, <2>1, LineCounts
<1>6. LineOf(t, p) > k /\ LineOf(t, p) \in Nat
  BY LineCounts
<1>7. p - 1 \in t.newlines /\ LineOf(t, p) = LineOf(t, p - 1) + 1
  <2>1. LineOf(t, p) = IF p - 1 \in t.newlines THEN LineOf(t, p - 1) + 1 ELSE LineOf(t, p - 1)
    BY <1>4, LineOfNext
  <2> QED BY <1>5, <1>6, <2>1
<1> QED BY <1>5, <1>6, <1>7

\* The end of line k, as the reference defines it.
LEMMA LineEndType ==
  ASSUME NEW t \in Texts, NEW k \in Nat, 1 <= k, k < NumLines(t)
  PROVE  LineEnd(t, k) \in t.newlines /\ LineOf(t, LineEnd(t, k)) = k
<1>1. \E n \in t.newlines : LineOf(t, n) = k
  BY NewlineExists
<1>2. k # NumLines(t)
  BY LineCounts
<1> QED BY <1>1, <1>2 DEF LineEnd

\* The last line ends with the page, every other one with its newline.
LEMMA LineEndLast ==
  ASSUME NEW t
  PROVE  LineEnd(t, NumLines(t)) = t.size
BY DEF LineEnd

LEMMA LineEndOf ==
  ASSUME NEW t \in Texts, NEW n \in t.newlines
  PROVE  LineEnd(t, LineOf(t, n)) = n /\ LineOf(t, n) < NumLines(t)
<1> DEFINE k == LineOf(t, n)
           e == LineEnd(t, k)
<1>1. n \in Nat /\ n + 1 \in Nat /\ n < n + 1
  BY TextType
<1>2. k \in Nat /\ 1 <= k /\ k < NumLines(t)
  BY <1>1, LineCounts, LineOfNewline
<1>3. e \in t.newlines /\ LineOf(t, e) = k /\ e \in Nat
  <2>1. e \in t.newlines /\ LineOf(t, e) = k
    <3> HIDE DEF k
    <3> QED BY <1>2, LineEndType
  <2> HIDE DEF e
  <2> QED BY <2>1, TextType
<1> HIDE DEF e
<1>4. ~(e < n) /\ ~(n < e)
  <2>1. e < n => LineOf(t, e) < LineOf(t, n)
    BY <1>1, <1>3, LineOfNewline
  <2>2. n < e => LineOf(t, n) < LineOf(t, e)
    BY <1>1, <1>3, LineOfNewline
  <2> QED BY <1>2, <1>3, <2>1, <2>2
<1>5. e = n
  BY <1>1, <1>3, <1>4
<1> QED BY <1>2, <1>5 DEF e

\* Where line k begins and ends: the positions of the page, in order.
LEMMA LineBounds ==
  ASSUME NEW t \in Texts, NEW k \in Nat, 1 <= k, k <= NumLines(t)
  PROVE  /\ LineEnd(t, k) \in Nat /\ LineEnd(t, k) <= t.size
         /\ LineOf(t, LineEnd(t, k)) = k
         /\ \A j \in Nat : 1 <= j /\ j < k => LineEnd(t, j) \in Nat /\ LineEnd(t, j) < LineEnd(t, k)
<1>1. t.size \in Nat /\ \A n \in t.newlines : n \in Nat /\ n < t.size
  BY TextType
<1>2. NumLines(t) \in Nat
  BY LineCounts
<1>3. ASSUME NEW j \in Nat, 1 <= j, j <= NumLines(t)
      PROVE  LineEnd(t, j) \in Nat /\ LineEnd(t, j) <= t.size /\ LineOf(t, LineEnd(t, j)) = j
  <2>1. CASE j < NumLines(t)
    <3>1. LineEnd(t, j) \in t.newlines /\ LineOf(t, LineEnd(t, j)) = j
      BY <1>3, <2>1, LineEndType
    <3> QED BY <1>1, <3>1
  <2>2. CASE j = NumLines(t)
    BY <1>1, <2>2, LineEndLast, LineOfAll
  <2> QED BY <1>2, <1>3, <2>1, <2>2
<1>4. ASSUME NEW j \in Nat, 1 <= j, j < k
      PROVE  LineEnd(t, j) \in Nat /\ LineEnd(t, j) < LineEnd(t, k)
  <2> DEFINE d == LineEnd(t, j)
             e == LineEnd(t, k)
  <2>1. d \in Nat /\ e \in Nat /\ LineOf(t, d) = j /\ LineOf(t, e) = k
    BY <1>2, <1>3, <1>4
  <2> HIDE DEF d, e
  <2>2. ~(e <= d)
    <3>1. e <= d => LineOf(t, e) <= LineOf(t, d)
      BY <2>1, LineOfMonotonic
    <3> QED BY <1>4, <2>1, <3>1
  <2> QED BY <2>1, <2>2 DEF d, e
<1> QED BY <1>3, <1>4

\* find and rfind, in numbers of lines.
LEMMA FindLine ==
  ASSUME NEW t \in Texts, NEW p \in Nat
  PROVE  Find(t, p) = IF LineOf(t, p) = NumLines(t) THEN Npos(t) ELSE LineEnd(t, LineOf(t, p))
<1> DEFINE f == Find(t, p)
<1>1. /\ \A n \in t.newlines : n \in Nat /\ n # Npos(t)
      /\ f = Npos(t) \/ (f \in t.newlines /\ f >= p)
  BY TextType, FindType
<1>2. \A n \in t.newlines : n >= p => f <= n /\ f # Npos(t)
  BY FindIsFirst
<1> HIDE DEF f
<1>3. CASE f = Npos(t)
  <2>1. \A n \in t.newlines : n < p
    BY <1>1, <1>2, <1>3
  <2> QED BY <1>3, <2>1, LineOfAll DEF f
<1>4. CASE f # Npos(t)
  <2>1. f \in t.newlines /\ f >= p /\ f \in Nat
    BY <1>1, <1>4
  <2>2. NewlinesBefore(t, p) = NewlinesBefore(t, f)
    BY <1>1, <1>2, <2>1 DEF NewlinesBefore
  <2>3. LineOf(t, p) = LineOf(t, f)
    BY <2>2, LineIsSame
  <2>4. LineEnd(t, LineOf(t, f)) = f /\ LineOf(t, f) < NumLines(t)
    BY <2>1, LineEndOf
  <2>5. LineOf(t, f) # NumLines(t)
    BY <2>1, <2>4, LineCounts
  <2> QED BY <2>3, <2>4, <2>5 DEF f
<1> QED BY <1>3, <1>4

\* std::string::rfind, from a position whose line is known.
LEMMA RFindLine ==
  ASSUME NEW t \in Texts, NEW p \in Nat
  PROVE  RFind(t, p) = IF LineOf(t, p + 1) = 1 THEN Npos(t) ELSE LineEnd(t, LineOf(t, p + 1) - 1)
<1> DEFINE before == {n \in t.newlines : n <= p}
<1>1. /\ \A n \in t.newlines : n \in Nat /\ n # Npos(t)
      /\ NewlinesBefore(t, p + 1) = before
  <2>1. \A n \in t.newlines : n \in Nat /\ n # Npos(t)
    BY TextType
  <2> QED BY <2>1 DEF NewlinesBefore
<1>2. CASE before = {}
  <2>1. LineOf(t, p + 1) = 1
    BY <1>1, <1>2, LineOfNone
  <2> QED BY <1>2, <2>1 DEF RFind
<1>3. CASE before # {}
  <2> DEFINE r == Max(before)
  <2>1. r \in before /\ \A n \in before : n <= r
    <3>1. before \in SUBSET Nat /\ \A n \in before : n <= p
      BY <1>1
    <3>2. \E x \in before : \A y \in before : x >= y
      <4> HIDE DEF before
      <4> QED BY <1>3, <3>1, GreatestElement
    <3>3. r \in before /\ \A n \in before : r >= n
      <4> HIDE DEF before
      <4> QED BY <3>2 DEF Max
    <3> HIDE DEF r
    <3> QED BY <3>1, <3>3
  <2>2. RFind(t, p) = r
    BY <1>3 DEF RFind
  <2> HIDE DEF r
  <2>3. r \in t.newlines /\ r \in Nat /\ r <= p
    BY <1>1, <2>1
  <2>4. NewlinesBefore(t, r + 1) = NewlinesBefore(t, p + 1)
    BY <1>1, <2>1, <2>3 DEF NewlinesBefore
  <2>5. LineOf(t, p + 1) = LineOf(t, r) + 1 /\ LineOf(t, r) \in Nat /\ LineOf(t, r) >= 1
    BY <2>3, <2>4, LineIsSame, LineOfNext, LineCounts
  <2>6. LineEnd(t, LineOf(t, r)) = r
    BY <2>3, LineEndOf
  <2>7. LineOf(t, p + 1) # 1 /\ LineOf(t, p + 1) - 1 = LineOf(t, r)
    BY <2>5
  <2> QED BY <2>2, <2>6, <2>7
<1> QED BY <1>2, <1>3

-----------------------------------------------------------------------------
(* The text of a line, and lines of context one after the other.             *)

\* Where a line starts, and what it holds.
LEMMA LineStartType ==
  ASSUME NEW t \in Texts, NEW k \in Nat, 1 <= k, k <= NumLines(t)
  PROVE  LineStart(t, k) \in Nat /\ LineStart(t, k) <= LineEnd(t, k)
<1>1. LineEnd(t, k) \in Nat
  BY LineBounds
<1>2. CASE k = 1
  BY <1>1, <1>2 DEF LineStart
<1>3. CASE k # 1
  <2>1. k - 1 \in Nat /\ 1 <= k - 1 /\ k - 1 < k
    BY <1>3
  <2>2. LineEnd(t, k - 1) \in Nat /\ LineEnd(t, k - 1) < LineEnd(t, k)
    BY <2>1, LineBounds
  <2> QED BY <1>1, <1>3, <2>2 DEF LineStart
<1> QED BY <1>2, <1>3

\* What the code copies from one newline to the next one is the line.
LEMMA LineIsSubstr ==
  ASSUME NEW t \in Texts, NEW k \in Nat, 1 <= k, k <= NumLines(t)
  PROVE  /\ Substr(t, LineStart(t, k), LineEnd(t, k)) = LineChars(t, k)
         /\ LineChars(t, k) \in Seq(Inside(t))
<1>1. LineStart(t, k) \in Nat /\ LineStart(t, k) <= LineEnd(t, k)
  BY LineStartType
<1>2. LineEnd(t, k) \in Nat /\ LineEnd(t, k) <= t.size
  BY LineBounds
<1>3. Substr(t, LineStart(t, k), LineEnd(t, k)) = LineChars(t, k)
  BY <1>1, <1>2 DEF Substr, LineChars
<1> QED BY <1>1, <1>2, <1>3, SubstrInside

Context(t, k) == OutputLine("context", LineChars(t, k))
Matched(t, k) == OutputLine("match", LineChars(t, k))
ContextOf(t) == [k \in 1..NumLines(t) |-> Context(t, k)]

\* Lines a to b as context; none if b is a - 1.
ContextLines(t, a, b) == SubSeq(ContextOf(t), a, b)
LinesIn(t, a, b) == a \in Nat /\ b \in Nat /\ 1 <= a /\ a <= b + 1 /\ b <= NumLines(t)

\* The lines that are printed lie inside the page.
LEMMA LineTypes ==
  ASSUME NEW t \in Texts, NEW k \in Nat, 1 <= k, k <= NumLines(t)
  PROVE  Context(t, k) \in PageLines(t) /\ Matched(t, k) \in PageLines(t)
<1>1. LineChars(t, k) \in Seq(Inside(t))
  BY LineIsSubstr
<1>2. "context" \in LineKinds /\ "match" \in LineKinds
  BY DEF LineKinds
<1> QED BY <1>1, <1>2, LineInside DEF Context, Matched

\* All lines of a page, as context.
LEMMA ContextOfType ==
  ASSUME NEW t \in Texts
  PROVE  /\ ContextOf(t) \in Seq(PageLines(t)) /\ Len(ContextOf(t)) = NumLines(t)
         /\ \A k \in 1..NumLines(t) : ContextOf(t)[k] = Context(t, k)
<1> DEFINE N == NumLines(t)
           P == PageLines(t)
           f == ContextOf(t)
<1>1. N \in Nat
  BY LineCounts
<1>2. \A k \in 1..N : Context(t, k) \in P
  BY <1>1, LineTypes
<1>3. f = [k \in 1..N |-> Context(t, k)]
  BY DEF ContextOf
<1> HIDE DEF N, P, f
<1>4. f \in [1..N -> P] /\ \A k \in 1..N : f[k] = Context(t, k)
  BY <1>2, <1>3
<1>5. f \in Seq(P) /\ Len(f) = N
  BY <1>1, <1>4
<1> QED BY <1>4, <1>5 DEF N, P, f

\* A run of context lines: its type, the empty run, and a run of one.
LEMMA ContextType ==
  ASSUME NEW t, NEW a, NEW b, t \in Texts, LinesIn(t, a, b)
  PROVE  ContextLines(t, a, b) \in Seq(PageLines(t))
<1> DEFINE f == ContextOf(t)
           P == PageLines(t)
<1>1. a \in Int /\ b \in Int /\ a..b \subseteq 1..NumLines(t)
  BY LineCounts DEF LinesIn
<1>2. \A i \in a..b : f[i] \in P
  BY <1>1, LineCounts, LineTypes, ContextOfType
<1> HIDE DEF f, P
<1>3. SubSeq(f, a, b) \in Seq(P)
  BY <1>1, <1>2, SubSeqProperties, Zenon
<1> QED BY <1>3 DEF ContextLines, f, P

LEMMA ContextNone ==
  ASSUME NEW t, NEW a \in Nat, NEW b \in Nat, b < a
  PROVE  ContextLines(t, a, b) = <<>>
<1>1. a \in Int /\ b \in Int
  OBVIOUS
<1> QED BY <1>1, SubSeqEmpty, Zenon DEF ContextLines

\* The lines a to b with the next one, and with the one in front.
LEMMA ContextMore ==
  ASSUME NEW t, NEW a, NEW b, t \in Texts, LinesIn(t, a, b), b + 1 <= NumLines(t)
  PROVE  ContextLines(t, a, b) \o <<Context(t, b + 1)>> = ContextLines(t, a, b + 1)
<1> DEFINE f == ContextOf(t)
           P == PageLines(t)
           m == b + 1
<1>1. /\ f \in Seq(P) /\ a \in 1..Len(f) /\ m \in a..Len(f) /\ m - 1 = b
      /\ f[m] = Context(t, m)
  BY LineCounts, ContextOfType, SMTT(30) DEF LinesIn
<1> HIDE DEF f, P, m
<1>2. SubSeq(f, a, m) = SubSeq(f, a, m - 1) \o <<f[m]>>
  BY <1>1, SubSeqRecursiveSecond, Zenon
<1> QED BY <1>1, <1>2, Zenon DEF ContextLines, f, m

LEMMA ContextFirst ==
  ASSUME NEW t, NEW a, NEW b, t \in Texts, LinesIn(t, a, b), a <= b
  PROVE  <<Context(t, a)>> \o ContextLines(t, a + 1, b) = ContextLines(t, a, b)
<1> DEFINE f == ContextOf(t)
           P == PageLines(t)
<1>1. /\ f \in Seq(P) /\ a \in 1..Len(f) /\ b \in a..Len(f)
      /\ f[a] = Context(t, a)
  BY LineCounts, ContextOfType, SMTT(30) DEF LinesIn
<1> HIDE DEF f, P
<1>2. SubSeq(f, a, b) = <<f[a]>> \o SubSeq(f, a + 1, b)
  BY <1>1, SubSeqRecursiveFirst, Zenon
<1> QED BY <1>1, <1>2, Zenon DEF ContextLines, f

LEMMA ContextOne ==
  ASSUME NEW t, NEW a, t \in Texts, a \in Nat, 1 <= a, a <= NumLines(t)
  PROVE  ContextLines(t, a, a) = <<Context(t, a)>>
<1> DEFINE b == a - 1
           c == <<Context(t, a)>>
           P == PageLines(t)
<1>1. LinesIn(t, a, b) /\ b + 1 = a /\ b \in Nat /\ b < a /\ b + 1 <= NumLines(t)
  BY LineCounts DEF LinesIn
<1>2. Context(t, a) \in P
  BY LineTypes
<1>3. c \in Seq(P)
  <2> HIDE DEF P
  <2> QED BY <1>2
<1> HIDE DEF b
<1>4. ContextLines(t, a, b) = <<>>
  BY <1>1, ContextNone
<1>5. ContextLines(t, a, b) \o <<Context(t, b + 1)>> = ContextLines(t, a, b + 1)
  BY <1>1, ContextMore
<1>6. <<>> \o c = c
  <2> HIDE DEF c, P
  <2> QED BY <1>3, ConcatEmptySeq, Zenon
<1> QED BY <1>1, <1>4, <1>5, <1>6, Zenon

Lesser(a, b) == IF a <= b THEN a ELSE b

\* print_context_before, from the newline that ends line j.
LEMMA BeforeLines ==
  ASSUME NEW t \in Texts, NEW f, Before_f(f, t)
  PROVE  \A k \in Nat : \A j \in Nat : 1 <= j /\ j < NumLines(t)
           => f[k][LineEnd(t, j)] = ContextLines(t, j + 1 - Lesser(k, j), j)
<1> DEFINE N == NumLines(t)
           E(j) == LineEnd(t, j)
           Good(k, j) == f[k][E(j)] = ContextLines(t, j + 1 - Lesser(k, j), j)
           S == {k \in Nat : \A j \in Nat : 1 <= j /\ j < N => Good(k, j)}
<1>1. ASSUME NEW k \in Nat, NEW j \in Nat, 1 <= j, j < N
      PROVE  f[k][E(j)] = BeforeOne(t, k, f[k - 1], E(j))
  <2>1. E(j) \in t.newlines
    BY <1>1, LineEndType
  <2>2. f[k] = [pos \in t.newlines |-> BeforeOne(t, k, f[k - 1], pos)]
    BY Zenon DEF Before_f
  <2> HIDE DEF E
  <2> QED BY <2>1, <2>2, Zenon
<1>2. 0 \in S
  <2> SUFFICES ASSUME NEW j \in Nat, 1 <= j, j < N PROVE Good(0, j)
    OBVIOUS
  <2>1. f[0][E(j)] = <<>>
    <3>1. f[0][E(j)] = BeforeOne(t, 0, f[0 - 1], E(j))
      <4>1. 0 \in Nat
        OBVIOUS
      <4> HIDE DEF E, N
      <4> QED BY <1>1, <4>1, Zenon
    <3>2. \A r, p : BeforeOne(t, 0, r, p) = <<>>
      BY DEF BeforeOne
    <3> QED BY <3>1, <3>2, Zenon
  <2>2. j + 1 - Lesser(0, j) = j + 1
    BY DEF Lesser
  <2>3. ContextLines(t, j + 1, j) = <<>>
    BY ContextNone
  <2> QED BY <2>1, <2>2, <2>3, Zenon
<1>3. ASSUME NEW n \in Nat, n \in S PROVE n + 1 \in S
  <2> SUFFICES ASSUME NEW j \in Nat, 1 <= j, j < N PROVE Good(n + 1, j)
    OBVIOUS
  <2> DEFINE k == n + 1
             pos == E(j)
             newpos == RFind(t, pos - 1)
  <2>1. k \in Nat /\ k # 0 /\ k - 1 = n
    OBVIOUS
  <2>2. f[k][pos] = BeforeOne(t, k, f[n], pos)
    <3>1. f[k][pos] = BeforeOne(t, k, f[k - 1], pos)
      <4> HIDE DEF k, N, E
      <4> QED BY <1>1, <2>1, Zenon
    <3> QED BY <2>1, <3>1, Zenon
  <2>3. pos \in t.newlines /\ LineOf(t, pos) = j /\ pos \in Nat
    <3>1. pos \in t.newlines /\ LineOf(t, pos) = j
      BY LineEndType
    <3> HIDE DEF pos
    <3> QED BY <3>1, TextType
  <2>4. Substr(t, LineStart(t, j), pos) = LineChars(t, j)
    BY LineCounts, LineIsSubstr
  <2> HIDE DEF k, pos
  <2>5. CASE j = 1
    <3>1. BeforeOne(t, k, f[n], pos) = <<OutputLine("context", Substr(t, 0, pos))>>
      <4>1. CASE pos = 0
        <5>1. Substr(t, 0, 0) = <<>>
          <6>1. t.size \in Nat
            BY TextType
          <6>2. Substr(t, 0, 0) = [i \in 1..0 |-> 0 + i - 1]
            BY <6>1 DEF Substr
          <6> QED BY <6>2
        <5> QED BY <2>1, <4>1, <5>1, Zenon DEF BeforeOne
      <4>2. CASE pos # 0
        <5>1. pos - 1 \in Nat /\ (pos - 1) + 1 = pos
          BY <2>3, <4>2
        <5>2. newpos = Npos(t)
          BY <2>3, <2>5, <5>1, RFindLine
        <5> QED BY <2>1, <4>2, <5>2, Zenon DEF BeforeOne
      <4> QED BY <4>1, <4>2
    <3>2. Substr(t, 0, pos) = LineChars(t, 1)
      BY <2>4, <2>5 DEF LineStart
    <3>3. f[k][pos] = <<Context(t, 1)>>
      BY <2>2, <3>1, <3>2, Zenon DEF Context
    <3>4. j + 1 - Lesser(k, j) = 1
      BY <2>1, <2>5 DEF Lesser
    <3>5. ContextLines(t, 1, 1) = <<Context(t, 1)>>
      <4>1. 1 \in Nat /\ 1 <= 1 /\ 1 <= NumLines(t)
        BY LineCounts
      <4> QED BY <4>1, ContextOne
    <3> QED BY <2>5, <3>3, <3>4, <3>5, Zenon DEF k, pos
  <2>6. CASE j # 1
    <3> DEFINE i == j - 1
               a == i + 1 - Lesser(n, i)
               P == PageLines(t)
    <3>1. i \in Nat /\ 1 <= i /\ i < N /\ i < j /\ i + 1 = j /\ N \in Nat
      BY <2>6, LineCounts
    <3>2. E(i) \in Nat /\ E(i) < pos /\ E(i) \in t.newlines
      <4>1. j <= N
        BY <3>1
      <4>2. E(i) \in Nat /\ E(i) < E(j)
        BY <3>1, <4>1, LineBounds
      <4>3. E(i) \in t.newlines
        BY <3>1, LineEndType
      <4> QED BY <4>2, <4>3 DEF pos
    <3>3. newpos = E(i) /\ newpos # Npos(t) /\ pos # 0
      <4>1. pos # 0 /\ pos - 1 \in Nat /\ (pos - 1) + 1 = pos
        BY <2>3, <3>2
      <4>2. newpos = E(i)
        BY <2>3, <2>6, <4>1, RFindLine
      <4> QED BY <3>2, <4>1, <4>2, TextType
    <3> HIDE DEF newpos
    <3>4. BeforeOne(t, k, f[n], pos) = Append(f[n][E(i)], OutputLine("context", Substr(t, E(i) + 1, pos)))
      <4>1. BeforeOne(t, k, f[n], pos)
              = Append(f[n][newpos], OutputLine("context", Substr(t, newpos + 1, pos)))
        BY <2>1, <3>3, Zenon DEF BeforeOne, newpos
      <4> QED BY <3>3, <4>1, Zenon
    <3>5. Substr(t, E(i) + 1, pos) = LineChars(t, j)
      BY <2>4, <2>6 DEF LineStart
    <3>6. f[n][E(i)] = ContextLines(t, a, i)
      <4>1. Good(n, i)
        BY <1>3, <3>1
      <4> QED BY <4>1
    <3>7. f[k][pos] = Append(ContextLines(t, a, i), Context(t, j))
      BY <2>2, <3>4, <3>5, <3>6, Zenon DEF Context
    <3>8. LinesIn(t, a, i) /\ i + 1 <= N /\ a = j + 1 - Lesser(k, j)
      <4> HIDE DEF N
      <4> QED BY <2>1, <3>1 DEF LinesIn, Lesser, k, N
    <3> HIDE DEF a, i
    <3>9. ContextLines(t, a, i) \in Seq(P) /\ Context(t, j) \in P
      BY <3>1, <3>8, ContextType, LineTypes
    <3>10. Append(ContextLines(t, a, i), Context(t, j)) = ContextLines(t, a, i) \o <<Context(t, j)>>
      BY <3>9, AppendIsConcat, Zenon
    <3>11. ContextLines(t, a, i) \o <<Context(t, i + 1)>> = ContextLines(t, a, i + 1)
      BY <3>8, ContextMore
    <3> QED BY <3>1, <3>7, <3>8, <3>10, <3>11, Zenon DEF k, pos
  <2> QED BY <2>5, <2>6
<1>4. Nat \subseteq S
  <2> HIDE DEF S
  <2> QED BY <1>2, <1>3, Induction
<1> QED BY <1>4

\* print_context_after, from the newline that ends line j.
LEMMA AfterLines ==
  ASSUME NEW t \in Texts, NEW f, After_f(f, t)
  PROVE  \A k \in Nat : \A j \in Nat : 1 <= j /\ j < NumLines(t)
           => f[k][LineEnd(t, j)] = ContextLines(t, j + 1, j + Lesser(k, NumLines(t) - j))
<1> DEFINE N == NumLines(t)
           E(j) == LineEnd(t, j)
           Good(k, j) == f[k][E(j)] = ContextLines(t, j + 1, j + Lesser(k, N - j))
           S == {k \in Nat : \A j \in Nat : 1 <= j /\ j < N => Good(k, j)}
<1>1. ASSUME NEW k \in Nat, NEW j \in Nat, 1 <= j, j < N
      PROVE  f[k][E(j)] = AfterOne(t, k, f[k - 1], E(j))
  <2>1. E(j) \in t.newlines
    BY <1>1, LineEndType
  <2>2. f[k] = [pos \in t.newlines |-> AfterOne(t, k, f[k - 1], pos)]
    BY Zenon DEF After_f
  <2> HIDE DEF E
  <2> QED BY <2>1, <2>2, Zenon
<1>2. 0 \in S
  <2> SUFFICES ASSUME NEW j \in Nat, 1 <= j, j < N PROVE Good(0, j)
    OBVIOUS
  <2>1. f[0][E(j)] = <<>>
    <3>1. f[0][E(j)] = AfterOne(t, 0, f[0 - 1], E(j))
      <4>1. 0 \in Nat
        OBVIOUS
      <4> HIDE DEF E, N
      <4> QED BY <1>1, <4>1, Zenon
    <3>2. \A r, p : AfterOne(t, 0, r, p) = <<>>
      BY DEF AfterOne
    <3> QED BY <3>1, <3>2, Zenon
  <2>2. j + Lesser(0, N - j) = j
    BY LineCounts DEF Lesser
  <2>3. ContextLines(t, j + 1, j) = <<>>
    BY ContextNone
  <2> QED BY <2>1, <2>2, <2>3, Zenon
<1>3. ASSUME NEW n \in Nat, n \in S PROVE n + 1 \in S
  <2> SUFFICES ASSUME NEW j \in Nat, 1 <= j, j < N PROVE Good(n + 1, j)
    OBVIOUS
  <2> DEFINE k == n + 1
             i == j + 1
             pos == E(j)
             newpos == Find(t, pos + 1)
             b == i + Lesser(n, N - i)
             P == PageLines(t)
             first == <<Context(t, i)>>
  <2>1. /\ k \in Nat /\ k # 0 /\ k - 1 = n /\ N \in Nat
        /\ i \in Nat /\ 1 <= i /\ i <= N /\ i # 1 /\ i - 1 = j
    BY LineCounts
  <2>2. f[k][pos] = AfterOne(t, k, f[n], pos)
    <3>1. f[k][pos] = AfterOne(t, k, f[k - 1], pos)
      <4> HIDE DEF k, N, E
      <4> QED BY <1>1, <2>1, Zenon
    <3> QED BY <2>1, <3>1, Zenon
  <2>3. pos \in t.newlines /\ LineOf(t, pos) = j /\ pos \in Nat /\ pos # t.size - 1
    <3>1. pos \in t.newlines /\ LineOf(t, pos) = j
      BY LineEndType
    <3> HIDE DEF pos
    <3> QED BY <3>1, TextType
  <2>4. Substr(t, pos + 1, E(i)) = LineChars(t, i)
    <3>1. Substr(t, LineStart(t, i), LineEnd(t, i)) = LineChars(t, i)
      <4> HIDE DEF i
      <4> QED BY <2>1, LineIsSubstr
    <3>2. LineStart(t, i) = pos + 1
      BY <2>1 DEF LineStart
    <3> QED BY <3>1, <3>2, Zenon
  <2>5. newpos = IF i = N THEN Npos(t) ELSE E(i)
    <3>1. LineOf(t, pos + 1) = i
      BY <2>3, LineOfNext
    <3>2. pos + 1 \in Nat
      BY <2>3
    <3> HIDE DEF pos, i
    <3> QED BY <3>1, <3>2, FindLine
  <2>6. first \in Seq(P)
    <3>1. Context(t, i) \in P
      <4> HIDE DEF i
      <4> QED BY <2>1, LineTypes
    <3> HIDE DEF P
    <3> QED BY <3>1
  <2> HIDE DEF k, pos, newpos, first
  <2>7. CASE i = N
    <3>1. f[k][pos] = <<OutputLine("context", Substr(t, pos + 1, t.size))>>
      <4>1. newpos = Npos(t)
        BY <2>5, <2>7
      <4> QED BY <2>1, <2>2, <2>3, <4>1, Zenon DEF AfterOne, newpos
    <3>2. E(i) = t.size
      BY <2>7, LineEndLast
    <3>3. f[k][pos] = <<Context(t, i)>>
      BY <2>4, <3>1, <3>2, Zenon DEF Context
    <3>4. j + Lesser(k, N - j) = i
      <4> HIDE DEF N
      <4> QED BY <2>1, <2>7 DEF Lesser, k
    <3>5. ContextLines(t, i, i) = <<Context(t, i)>>
      <4> HIDE DEF i
      <4> QED BY <2>1, ContextOne
    <3> QED BY <3>3, <3>4, <3>5, Zenon DEF k, pos
  <2>8. CASE i # N
    <3>1. f[k][pos] = <<OutputLine("context", Substr(t, pos + 1, E(i)))>> \o f[n][E(i)]
      <4>1. newpos = E(i) /\ newpos # Npos(t)
        <5>1. E(i) \in t.newlines
          <6>1. i < N
            BY <2>1, <2>8
          <6> HIDE DEF i
          <6> QED BY <2>1, <6>1, LineEndType
        <5> HIDE DEF E
        <5> QED BY <2>5, <2>8, <5>1, TextType
      <4>2. AfterOne(t, k, f[n], pos)
              = <<OutputLine("context", Substr(t, pos + 1, newpos))>> \o f[n][newpos]
        BY <2>1, <2>3, <4>1, Zenon DEF AfterOne, newpos
      <4> QED BY <2>2, <4>1, <4>2, Zenon
    <3>2. f[n][E(i)] = ContextLines(t, i + 1, b)
      <4>1. i < N
        BY <2>1, <2>8
      <4>2. Good(n, i)
        <5> HIDE DEF i, Good
        <5> QED BY <1>3, <2>1, <4>1
      <4> QED BY <4>2
    <3>3. LinesIn(t, i, b) /\ i <= b /\ b = j + Lesser(k, N - j)
      <4> HIDE DEF N
      <4> QED BY <2>1, <2>8 DEF LinesIn, Lesser, k, N
    <3> HIDE DEF b, i
    <3>4. <<Context(t, i)>> \o ContextLines(t, i + 1, b) = ContextLines(t, i, b)
      BY <3>3, ContextFirst
    <3>5. f[k][pos] = ContextLines(t, i, b)
      BY <2>4, <3>1, <3>2, <3>4, Zenon DEF Context
    <3> QED BY <3>3, <3>5, Zenon DEF k, pos, i
  <2> QED BY <2>7, <2>8
<1>4. Nat \subseteq S
  <2> HIDE DEF S
  <2> QED BY <1>2, <1>3, Induction
<1> QED BY <1>4

\* The first walk of print_context_between, from line j to line r.
LEMMA RightLines ==
  ASSUME NEW t \in Texts, NEW r \in Nat, 1 <= r, r < NumLines(t),
         NEW f, Right_f(f, t, LineEnd(t, r))
  PROVE  \A k \in Nat : \A j \in Nat : 1 <= j /\ j <= r
           => f[k][LineEnd(t, j)] = [lines |-> Lesser(k, r - j),
                                     pos |-> LineEnd(t, j + Lesser(k, r - j))]
<1> DEFINE N == NumLines(t)
           E(j) == LineEnd(t, j)
           Good(k, j) == f[k][E(j)] = [lines |-> Lesser(k, r - j), pos |-> E(j + Lesser(k, r - j))]
           S == {k \in Nat : \A j \in Nat : 1 <= j /\ j <= r => Good(k, j)}
<1>0. N \in Nat
  BY LineCounts
<1>1. ASSUME NEW k \in Nat, NEW j \in Nat, 1 <= j, j <= r
      PROVE  /\ f[k][E(j)] = RightOne(t, E(r), k, f[k - 1], E(j))
             /\ E(j) \in t.newlines /\ E(j) # Npos(t) /\ E(j) \in Nat
             /\ LineOf(t, E(j)) = j
  <2>1. E(j) \in t.newlines /\ LineOf(t, E(j)) = j
    BY <1>0, <1>1, LineEndType
  <2>2. f[k] = [pos \in Stops(t) |-> RightOne(t, E(r), k, f[k - 1], pos)]
    BY Zenon DEF Right_f
  <2> HIDE DEF E
  <2>3. E(j) \in Stops(t) /\ E(j) # Npos(t) /\ E(j) \in Nat
    BY <2>1, TextType DEF Stops
  <2>4. f[k][E(j)] = RightOne(t, E(r), k, f[k - 1], E(j))
    BY <2>2, <2>3, Zenon
  <2> QED BY <2>1, <2>3, <2>4
<1>2. 0 \in S
  <2> SUFFICES ASSUME NEW j \in Nat, 1 <= j, j <= r PROVE Good(0, j)
    OBVIOUS
  <2>1. f[0][E(j)] = [lines |-> 0, pos |-> E(j)]
    <3>1. f[0][E(j)] = RightOne(t, E(r), 0, f[0 - 1], E(j))
      <4>1. 0 \in Nat
        OBVIOUS
      <4> HIDE DEF E, N
      <4> QED BY <1>1, <4>1, Zenon
    <3>2. \A x, p : RightOne(t, E(r), 0, x, p) = [lines |-> 0, pos |-> p]
      <4>1. ~(0 > 0)
        OBVIOUS
      <4> QED BY <4>1, Zenon DEF RightOne
    <3> QED BY <3>1, <3>2, Zenon
  <2>2. Lesser(0, r - j) = 0 /\ j + 0 = j
    BY DEF Lesser
  <2> QED BY <2>1, <2>2, Zenon
<1>3. ASSUME NEW n \in Nat, n \in S PROVE n + 1 \in S
  <2> SUFFICES ASSUME NEW j \in Nat, 1 <= j, j <= r PROVE Good(n + 1, j)
    OBVIOUS
  <2> DEFINE k == n + 1
             i == j + 1
  <2>1. k \in Nat /\ k > 0 /\ k - 1 = n /\ i \in Nat /\ 1 <= i
    OBVIOUS
  <2>2. /\ f[k][E(j)] = RightOne(t, E(r), k, f[n], E(j))
        /\ E(j) \in t.newlines /\ E(j) # Npos(t) /\ E(j) \in Nat /\ LineOf(t, E(j)) = j
    <3> HIDE DEF k, E
    <3> QED BY <1>1, <2>1
  <2>3. CASE j = r
    <3>1. ~(E(j) < E(r))
      BY <2>2, <2>3
    <3>2. RightOne(t, E(r), k, f[n], E(j)) = [lines |-> 0, pos |-> E(j)]
      BY <3>1, Zenon DEF RightOne
    <3>3. Lesser(k, r - j) = 0 /\ j + 0 = j
      BY <2>1, <2>3 DEF Lesser
    <3> QED BY <2>2, <3>2, <3>3, Zenon
  <2>4. CASE j # r
    <3> DEFINE l == Lesser(n, r - i)
               e == E(i + l)
    <3>1. i <= r /\ i < N /\ i # N /\ j < r
      BY <1>0, <2>4
    <3>2. E(j) < E(r)
      BY <1>0, <3>1, LineBounds
    <3>3. Find(t, E(j) + 1) = E(i)
      <4>1. LineOf(t, E(j) + 1) = i /\ E(j) + 1 \in Nat
        BY <2>2, LineOfNext
      <4> HIDE DEF i
      <4> QED BY <3>1, <4>1, FindLine
    <3>4. RightOne(t, E(r), k, f[n], E(j)) = OneMore(f[n][E(i)])
      <4> HIDE DEF k, i, E
      <4> QED BY <2>1, <2>2, <3>2, <3>3, Zenon DEF RightOne
    <3>5. f[n][E(i)] = [lines |-> l, pos |-> e]
      <4>1. Good(n, i)
        <5> HIDE DEF i, Good
        <5> QED BY <1>3, <2>1, <3>1
      <4> QED BY <4>1
    <3>6. l + 1 = Lesser(k, r - j) /\ i + l = j + Lesser(k, r - j)
      BY <3>1 DEF Lesser
    <3>7. OneMore([lines |-> l, pos |-> e]) = [lines |-> l + 1, pos |-> e]
      <4> HIDE DEF l, e
      <4> QED BY DEF OneMore
    <3>8. e = E(j + Lesser(k, r - j))
      BY <3>6, Zenon
    <3> HIDE DEF l, e, E, i
    <3>9. f[k][E(j)] = [lines |-> l + 1, pos |-> e]
      BY <2>2, <3>4, <3>5, <3>7, Zenon
    <3> QED BY <3>6, <3>8, <3>9, Zenon
  <2> QED BY <2>3, <2>4
<1>4. Nat \subseteq S
  <2> HIDE DEF S
  <2> QED BY <1>2, <1>3, Induction
<1> QED BY <1>4

\* The second walk, from line j back to line r.
LEMMA LeftLines ==
  ASSUME NEW t \in Texts, NEW r \in Nat, 1 <= r, NEW f, Left_f(f, t, LineEnd(t, r))
  PROVE  \A k \in Nat : \A j \in Nat : r <= j /\ j < NumLines(t)
           => f[k][LineEnd(t, j)] = [lines |-> Lesser(k, j - r),
                                     pos |-> LineEnd(t, j - Lesser(k, j - r))]
<1> DEFINE N == NumLines(t)
           E(j) == LineEnd(t, j)
           Good(k, j) == f[k][E(j)] = [lines |-> Lesser(k, j - r), pos |-> E(j - Lesser(k, j - r))]
           S == {k \in Nat : \A j \in Nat : r <= j /\ j < N => Good(k, j)}
<1>0. N \in Nat
  BY LineCounts
<1>1. ASSUME NEW k \in Nat, NEW j \in Nat, r <= j, j < N
      PROVE  /\ f[k][E(j)] = LeftOne(t, E(r), k, f[k - 1], E(j))
             /\ E(j) \in t.newlines /\ E(j) # Npos(t) /\ E(j) \in Nat
             /\ LineOf(t, E(j)) = j
  <2>1. E(j) \in t.newlines /\ LineOf(t, E(j)) = j
    BY <1>0, <1>1, LineEndType
  <2>2. f[k] = [pos \in Stops(t) |-> LeftOne(t, E(r), k, f[k - 1], pos)]
    BY Zenon DEF Left_f
  <2> HIDE DEF E
  <2>3. E(j) \in Stops(t) /\ E(j) # Npos(t) /\ E(j) \in Nat
    BY <2>1, TextType DEF Stops
  <2>4. f[k][E(j)] = LeftOne(t, E(r), k, f[k - 1], E(j))
    BY <2>2, <2>3, Zenon
  <2> QED BY <2>1, <2>3, <2>4
<1>2. 0 \in S
  <2> SUFFICES ASSUME NEW j \in Nat, r <= j, j < N PROVE Good(0, j)
    OBVIOUS
  <2>1. f[0][E(j)] = [lines |-> 0, pos |-> E(j)]
    <3>1. f[0][E(j)] = LeftOne(t, E(r), 0, f[0 - 1], E(j))
      <4>1. 0 \in Nat
        OBVIOUS
      <4> HIDE DEF E, N
      <4> QED BY <1>1, <4>1, Zenon
    <3>2. \A x, p : LeftOne(t, E(r), 0, x, p) = [lines |-> 0, pos |-> p]
      <4>1. ~(0 > 0)
        OBVIOUS
      <4> QED BY <4>1, Zenon DEF LeftOne
    <3> QED BY <3>1, <3>2, Zenon
  <2>2. Lesser(0, j - r) = 0 /\ j - 0 = j
    BY DEF Lesser
  <2> QED BY <2>1, <2>2, Zenon
<1>3. ASSUME NEW n \in Nat, n \in S PROVE n + 1 \in S
  <2> SUFFICES ASSUME NEW j \in Nat, r <= j, j < N PROVE Good(n + 1, j)
    OBVIOUS
  <2> DEFINE k == n + 1
             i == j - 1
  <2>1. k \in Nat /\ k > 0 /\ k - 1 = n
    OBVIOUS
  <2>2. /\ f[k][E(j)] = LeftOne(t, E(r), k, f[n], E(j))
        /\ E(j) \in t.newlines /\ E(j) # Npos(t) /\ E(j) \in Nat /\ LineOf(t, E(j)) = j
    <3> HIDE DEF k, E
    <3> QED BY <1>1, <2>1
  <2>3. CASE j = r
    <3>1. ~(E(j) > E(r))
      BY <2>2, <2>3
    <3>2. LeftOne(t, E(r), k, f[n], E(j)) = [lines |-> 0, pos |-> E(j)]
      BY <3>1, Zenon DEF LeftOne
    <3>3. Lesser(k, j - r) = 0 /\ j - 0 = j
      BY <2>1, <2>3 DEF Lesser
    <3> QED BY <2>2, <3>2, <3>3, Zenon
  <2>4. CASE j # r
    <3> DEFINE l == Lesser(n, i - r)
               e == E(i - l)
    <3>1. i \in Nat /\ r <= i /\ i < N /\ r < j /\ j <= N /\ j # 1
      BY <1>0, <2>4
    <3>2. E(j) > E(r) /\ E(j) # 0
      <4>1. E(r) \in Nat /\ E(r) < E(j)
        BY <3>1, LineBounds
      <4> HIDE DEF E
      <4> QED BY <2>2, <4>1
    <3>3. RFind(t, E(j) - 1) = E(i)
      <4>1. (E(j) - 1) + 1 = E(j) /\ E(j) - 1 \in Nat
        BY <2>2, <3>2
      <4> HIDE DEF E
      <4> QED BY <2>2, <3>1, <4>1, RFindLine DEF E
    <3>4. LeftOne(t, E(r), k, f[n], E(j)) = OneMore(f[n][E(i)])
      <4> HIDE DEF k, i, E
      <4> QED BY <2>1, <2>2, <3>2, <3>3, Zenon DEF LeftOne
    <3>5. f[n][E(i)] = [lines |-> l, pos |-> e]
      <4>1. Good(n, i)
        <5> HIDE DEF i, Good
        <5> QED BY <1>3, <3>1
      <4> QED BY <4>1
    <3>6. l + 1 = Lesser(k, j - r) /\ i - l = j - Lesser(k, j - r)
      BY <3>1 DEF Lesser
    <3>7. OneMore([lines |-> l, pos |-> e]) = [lines |-> l + 1, pos |-> e]
      <4> HIDE DEF l, e
      <4> QED BY DEF OneMore
    <3>8. e = E(j - Lesser(k, j - r))
      BY <3>6, Zenon
    <3> HIDE DEF l, e, E, i
    <3>9. f[k][E(j)] = [lines |-> l + 1, pos |-> e]
      BY <2>2, <3>4, <3>5, <3>7, Zenon
    <3> QED BY <3>6, <3>8, <3>9, Zenon
  <2> QED BY <2>3, <2>4
<1>4. Nat \subseteq S
  <2> HIDE DEF S
  <2> QED BY <1>2, <1>3, Induction
<1> QED BY <1>4

-----------------------------------------------------------------------------
(* What the printing functions print, in lines.                              *)

\* m is a match inside line k.
OnLine(t, m, k) == m \in Proper(t) /\ KindOf(t, m) = "inline" /\ LineOf(t, m.start) = k

\* Around such a match, find and rfind stop at the ends of its line.
LEMMA EndsOfLine ==
  ASSUME NEW t, NEW m, NEW k, t \in Texts, OnLine(t, m, k)
  PROVE  /\ k \in Nat /\ 1 <= k /\ k <= NumLines(t)
         /\ m.start \in Nat /\ m.end \in Nat /\ m.start <= m.end /\ m.end <= t.size
         /\ m.start \notin t.newlines /\ LineOf(t, m.end) = k
         /\ Find(t, m.end) = IF k = NumLines(t) THEN Npos(t) ELSE LineEnd(t, k)
         /\ RFind(t, m.start) = IF k = 1 THEN Npos(t) ELSE LineEnd(t, k - 1)
<1>1. m.start \in Nat /\ m.end \in Nat /\ m.start <= m.end /\ m.end <= t.size
  BY DEF OnLine, Proper, Match
<1>2. ~Spans(t, m) /\ ~(m.start = m.end /\ m.start \in t.newlines)
  BY DEF OnLine, KindOf
<1>3. \A n \in t.newlines : n \in Nat /\ ~(m.start <= n /\ n < m.end)
  BY <1>2, TextType DEF Spans
<1>4. m.start \notin t.newlines
  BY <1>1, <1>2, <1>3
<1>5. LineOf(t, m.start) = k /\ k \in Nat /\ 1 <= k /\ k <= NumLines(t)
  BY <1>1, LineCounts DEF OnLine
<1>6. LineOf(t, m.end) = k
  <2>1. NewlinesBefore(t, m.start) = NewlinesBefore(t, m.end)
    BY <1>1, <1>3 DEF NewlinesBefore
  <2> QED BY <1>5, <2>1, LineIsSame, Zenon
<1>7. LineOf(t, m.start + 1) = k
  BY <1>1, <1>4, <1>5, LineOfNext
<1>8. Find(t, m.end) = IF k = NumLines(t) THEN Npos(t) ELSE LineEnd(t, k)
  BY <1>1, <1>6, FindLine
<1>9. RFind(t, m.start) = IF k = 1 THEN Npos(t) ELSE LineEnd(t, k - 1)
  BY <1>1, <1>7, RFindLine
<1> QED BY <1>1, <1>4, <1>5, <1>6, <1>8, <1>9

\* print_context_after prints the lines behind a match, as many as there are.
LEMMA AfterPrints ==
  ASSUME NEW t, NEW conf, NEW m, NEW n, NEW k, t \in Texts, n \in Nat, OnLine(t, m, k)
  PROVE  print_context_after(t, conf, m, n)
           = IF conf.context_mode THEN ContextLines(t, k + 1, k + Lesser(n, NumLines(t) - k))
             ELSE <<>>
<1> DEFINE f == CHOOSE g : After_f(g, t)
           e == Find(t, m.end)
           N == NumLines(t)
<1>1. After_f(f, t)
  BY AfterExists
<1>2. print_context_after(t, conf, m, n)
        = IF ~conf.context_mode \/ e = Npos(t) THEN <<>> ELSE f[n][e]
  BY Zenon DEF print_context_after, f, After_f, AfterOne
<1> HIDE DEF f
<1>3. /\ k \in Nat /\ 1 <= k /\ k <= N /\ N \in Nat
      /\ e = IF k = N THEN Npos(t) ELSE LineEnd(t, k)
  BY EndsOfLine, LineCounts
<1>4. CASE k = N
  <2>1. k + Lesser(n, N - k) = k
    BY <1>3, <1>4 DEF Lesser
  <2>2. ContextLines(t, k + 1, k) = <<>>
    BY <1>3, ContextNone
  <2> QED BY <1>2, <1>3, <1>4, <2>1, <2>2, Zenon
<1>5. CASE k # N
  <2>1. k < N /\ e = LineEnd(t, k)
    BY <1>3, <1>5
  <2>2. e # Npos(t)
    BY <1>3, <2>1, LineEndType, TextType
  <2>3. f[n][LineEnd(t, k)] = ContextLines(t, k + 1, k + Lesser(n, N - k))
    BY <1>1, <1>3, <2>1, AfterLines
  <2> QED BY <1>2, <2>1, <2>2, <2>3, Zenon
<1> QED BY <1>4, <1>5

\* print_context_before prints the lines in front of a match, as many as there are.
LEMMA BeforePrints ==
  ASSUME NEW t, NEW conf, NEW m, NEW n, NEW k, t \in Texts, n \in Nat, OnLine(t, m, k)
  PROVE  print_context_before(t, conf, m, n)
           = IF conf.context_mode THEN ContextLines(t, k - Lesser(n, k - 1), k - 1)
             ELSE <<>>
<1> DEFINE f == CHOOSE g : Before_f(g, t)
           e == RFind(t, m.start)
           N == NumLines(t)
<1>1. Before_f(f, t)
  BY BeforeExists
<1>2. print_context_before(t, conf, m, n)
        = IF ~conf.context_mode \/ e = Npos(t) THEN <<>> ELSE f[n][e]
  BY Zenon DEF print_context_before, f, Before_f, BeforeOne
<1> HIDE DEF f
<1>3. /\ k \in Nat /\ 1 <= k /\ k <= N /\ N \in Nat
      /\ e = IF k = 1 THEN Npos(t) ELSE LineEnd(t, k - 1)
  BY EndsOfLine, LineCounts
<1>4. CASE k = 1
  <2>1. k - Lesser(n, k - 1) = 1 /\ k - 1 = 0
    BY <1>3, <1>4 DEF Lesser
  <2>2. ContextLines(t, 1, 0) = <<>>
    BY ContextNone
  <2> QED BY <1>2, <1>3, <1>4, <2>1, <2>2, Zenon
<1>5. CASE k # 1
  <2> DEFINE j == k - 1
  <2>1. j \in Nat /\ 1 <= j /\ j < N /\ e = LineEnd(t, j) /\ j + 1 = k
    BY <1>3, <1>5
  <2> HIDE DEF j
  <2>2. e # Npos(t)
    BY <2>1, LineEndType, TextType
  <2>3. f[n][LineEnd(t, j)] = ContextLines(t, j + 1 - Lesser(n, j), j)
    BY <1>1, <2>1, BeforeLines
  <2>4. e = LineEnd(t, j) /\ f[n][e] = ContextLines(t, k - Lesser(n, j), j)
    <3>1. f[n][LineEnd(t, j)] = ContextLines(t, k - Lesser(n, j), j)
      <4>1. j + 1 - Lesser(n, j) = k - Lesser(n, j)
        BY <2>1 DEF Lesser
      <4> QED BY <2>3, <4>1, Zenon
    <3> QED BY <2>1, <3>1, Zenon
  <2>5. print_context_before(t, conf, m, n)
          = IF conf.context_mode THEN ContextLines(t, k - Lesser(n, j), j) ELSE <<>>
    BY <1>2, <2>2, <2>4, Zenon
  <2> QED BY <2>5 DEF j
<1> QED BY <1>4, <1>5

\* How many lines fit behind line j and in front of line k, the first ones first.
Trailing(conf, j, k) == Lesser(conf.context_after, k - 1 - j)
Leading(conf, j, k) == Lesser(conf.context_before, k - 1 - (j + Trailing(conf, j, k)))

\* print_context_between prints the lines behind one match and in front of the next,
\* none of them twice, and a separator if some are left out.
PrintsBetween(t, conf, m1, m2, j, k) ==
  print_context_between(t, conf, m1, m2)
    = IF ~conf.context_mode THEN <<>>
      ELSE ContextLines(t, j + 1, j + Trailing(conf, j, k))
           \o (IF k - 1 - Leading(conf, j, k) > j + Trailing(conf, j, k)
               THEN print_context_separator(conf) ELSE <<>>)
           \o ContextLines(t, k - Leading(conf, j, k), k - 1)
LEMMA BetweenPrints ==
  ASSUME NEW t, NEW conf, NEW m1, NEW m2, NEW j, NEW k, t \in Texts,
         conf.context_after \in Nat, conf.context_before \in Nat,
         OnLine(t, m1, j), OnLine(t, m2, k), j < k
  PROVE  PrintsBetween(t, conf, m1, m2, j, k)
<1> DEFINE N == NumLines(t)
           E(i) == LineEnd(t, i)
           l == k - 1
           a == Trailing(conf, j, k)
           r == j + a
           b == Leading(conf, j, k)
           right == walk_right(t, conf, Find(t, m1.end), RFind(t, m2.start))
           left == walk_left(t, conf, RFind(t, m2.start), right.pos)
<1>1. /\ j \in Nat /\ k \in Nat /\ l \in Nat /\ N \in Nat
      /\ 1 <= j /\ j <= l /\ l < N /\ j # N /\ k # 1 /\ k <= N
      /\ Find(t, m1.end) = E(j) /\ RFind(t, m2.start) = E(l)
  <2>1. /\ j \in Nat /\ 1 <= j /\ j <= N
        /\ Find(t, m1.end) = IF j = N THEN Npos(t) ELSE E(j)
    BY EndsOfLine
  <2>2. /\ k \in Nat /\ 1 <= k /\ k <= N
        /\ RFind(t, m2.start) = IF k = 1 THEN Npos(t) ELSE E(l)
    BY EndsOfLine
  <2> QED BY <2>1, <2>2, LineCounts
<1>2. a \in Nat /\ r \in Nat /\ 1 <= r /\ j <= r /\ r <= l /\ b \in Nat /\ b <= l - r
      /\ a = Lesser(conf.context_after, l - j) /\ b = Lesser(conf.context_before, l - r)
      /\ a <= N - j /\ b <= k - 1
  BY <1>1 DEF Trailing, Leading, Lesser
<1> HIDE DEF a, b, l
<1>3. right = [lines |-> a, pos |-> E(r)]
  <2> DEFINE f == CHOOSE g : Right_f(g, t, E(l))
  <2>1. Right_f(f, t, E(l))
    BY RightExists
  <2>2. walk_right(t, conf, E(j), E(l)) = f[conf.context_after][E(j)]
    BY Zenon DEF walk_right, f, Right_f, RightOne
  <2> HIDE DEF f
  <2>3. 1 <= l
    BY <1>1
  <2>4. \A n \in Nat : \A i \in Nat : 1 <= i /\ i <= l
           => f[n][LineEnd(t, i)] = [lines |-> Lesser(n, l - i),
                                     pos |-> LineEnd(t, i + Lesser(n, l - i))]
    BY <1>1, <2>1, <2>3, RightLines
  <2>5. f[conf.context_after][E(j)] = [lines |-> Lesser(conf.context_after, l - j),
                                       pos |-> E(j + Lesser(conf.context_after, l - j))]
    BY <1>1, <2>4, Zenon
  <2> QED BY <1>1, <1>2, <2>2, <2>5, Zenon
<1>4. right.lines = a /\ right.pos = E(r)
  <2> HIDE DEF right, r, E
  <2> QED BY <1>3
<1>5. left = [lines |-> b, pos |-> E(l - b)]
  <2> DEFINE f == CHOOSE g : Left_f(g, t, E(r))
  <2>1. Left_f(f, t, E(r))
    BY LeftExists
  <2>2. walk_left(t, conf, E(l), E(r)) = f[conf.context_before][E(l)]
    BY Zenon DEF walk_left, f, Left_f, LeftOne
  <2> HIDE DEF f, r
  <2>3. \A n \in Nat : \A i \in Nat : r <= i /\ i < N
           => f[n][LineEnd(t, i)] = [lines |-> Lesser(n, i - r),
                                     pos |-> LineEnd(t, i - Lesser(n, i - r))]
    BY <1>2, <2>1, LeftLines
  <2>4. f[conf.context_before][E(l)] = [lines |-> Lesser(conf.context_before, l - r),
                                        pos |-> E(l - Lesser(conf.context_before, l - r))]
    BY <1>1, <1>2, <2>3, Zenon
  <2> QED BY <1>1, <1>2, <1>4, <2>2, <2>4, Zenon
<1>6. left.lines = b /\ left.pos = E(l - b)
  <2> HIDE DEF left, E, right
  <2> QED BY <1>5
<1> HIDE DEF left, right
<1>7. left.pos > right.pos <=> l - b > r
  <2> DEFINE i == l - b
  <2>1. i \in Nat /\ r <= i /\ i <= N /\ 1 <= i
    BY <1>1, <1>2
  <2>2. E(r) \in Nat /\ E(i) \in Nat /\ (r < i => E(r) < E(i))
    <3> HIDE DEF r, i
    <3>1. E(i) \in Nat /\ (r < i => E(r) < E(i))
      BY <1>2, <2>1, LineBounds
    <3>2. E(r) \in Nat
      BY <1>1, <1>2, <2>1, LineBounds
    <3> QED BY <3>1, <3>2
  <2>3. i = r => E(i) = E(r)
    OBVIOUS
  <2> HIDE DEF i, r, E
  <2>4. E(i) > E(r) <=> i > r
    BY <1>2, <2>1, <2>2, <2>3
  <2> QED BY <1>4, <1>6, <2>4, Zenon DEF i
<1>8. conf.context_mode => print_context_after(t, conf, m1, right.lines) = ContextLines(t, j + 1, r)
  <2>1. Lesser(a, N - j) = a
    BY <1>1, <1>2 DEF Lesser
  <2>2. conf.context_mode =>
          print_context_after(t, conf, m1, a) = ContextLines(t, j + 1, j + Lesser(a, N - j))
    BY <1>2, AfterPrints, Zenon
  <2> QED BY <1>4, <2>1, <2>2, Zenon
<1>9. conf.context_mode => print_context_before(t, conf, m2, left.lines) = ContextLines(t, k - b, k - 1)
  <2>1. Lesser(b, k - 1) = b
    BY <1>1, <1>2 DEF Lesser
  <2>2. conf.context_mode =>
          print_context_before(t, conf, m2, b) = ContextLines(t, k - Lesser(b, k - 1), k - 1)
    BY <1>2, BeforePrints, ZenonT(30)
  <2> QED BY <1>6, <2>1, <2>2, Zenon
<1>10. print_context_between(t, conf, m1, m2) =
         IF ~conf.context_mode THEN <<>>
         ELSE print_context_after(t, conf, m1, right.lines)
              \o (IF left.pos > right.pos THEN print_context_separator(conf) ELSE <<>>)
              \o print_context_before(t, conf, m2, left.lines)
  BY DEF print_context_between, right, left
<1> QED BY <1>7, <1>8, <1>9, <1>10, Zenon DEF PrintsBetween, a, b, l

\* The matches of one line, in order.
Grouped(t, group, k) ==
  /\ group \in Seq(Match) /\ group # <<>>
  /\ \A i \in 1..Len(group) : /\ OnLine(t, group[i], k)
                              /\ i > 1 => group[i - 1].end <= group[i].start

\* Two pieces of the text that touch.
Touch(t, a, b, c) == Substr(t, a, b) \o Substr(t, b, c) = Substr(t, a, c)
LEMMA SubstrJoin ==
  ASSUME NEW t, NEW a, NEW b, NEW c, t \in Texts, a \in Nat, b \in Nat, c \in Nat,
         a <= b, b <= c, c <= t.size
  PROVE  Touch(t, a, b, c)
<1> DEFINE S == Inside(t)
           x == Substr(t, a, b)
           y == Substr(t, b, c)
           z == Substr(t, a, c)
<1>1. /\ b <= t.size /\ a <= c /\ t.size \in Nat /\ b - a \in Nat /\ c - b \in Nat
      /\ (b - a) + (c - b) = c - a
  BY TextType
<1>2. /\ x = [i \in 1..(b - a) |-> a + i - 1] /\ y = [i \in 1..(c - b) |-> b + i - 1]
      /\ z = [i \in 1..(c - a) |-> a + i - 1]
  BY <1>1 DEF Substr
<1>3. x \in Seq(S) /\ y \in Seq(S) /\ z \in Seq(S)
  BY <1>1, SubstrInside
<1> HIDE DEF S, x, y, z
<1>4. Len(x) = b - a /\ Len(y) = c - b /\ Len(z) = c - a
  BY <1>1, <1>2
<1>5. /\ x \o y \in Seq(S) /\ Len(x \o y) = Len(x) + Len(y)
      /\ \A i \in 1..(Len(x) + Len(y)) : (x \o y)[i] = IF i <= Len(x) THEN x[i] ELSE y[i - Len(x)]
  BY <1>3, ConcatProperties, Zenon
<1>6. ASSUME NEW i \in 1..(c - a) PROVE (x \o y)[i] = z[i]
  <2>1. CASE i <= b - a
    BY <1>1, <1>2, <1>4, <1>5, <2>1
  <2>2. CASE ~(i <= b - a)
    <3>1. i - (b - a) \in 1..(c - b) /\ b + (i - (b - a)) - 1 = a + i - 1
      BY <1>1, <2>2
    <3>2. (x \o y)[i] = y[i - (b - a)]
      BY <1>1, <1>4, <1>5, <2>2
    <3> QED BY <1>2, <3>1, <3>2
  <2> QED BY <2>1, <2>2
<1>7. x \o y = z
  <2> DEFINE w == x \o y
  <2>1. w \in Seq(S) /\ Len(w) = Len(z) /\ \A i \in 1..Len(w) : w[i] = z[i]
    BY <1>1, <1>4, <1>5, <1>6
  <2> HIDE DEF w
  <2>2. w = z
    BY <1>3, <2>1, SeqEqual, Zenon
  <2> QED BY <2>2 DEF w
<1> QED BY <1>7 DEF Touch, x, y, z

\* A position lies between the ends of its line.
LEMMA PositionInLine ==
  ASSUME NEW t \in Texts, NEW p \in Nat, p <= t.size
  PROVE  LineStart(t, LineOf(t, p)) <= p /\ p <= LineEnd(t, LineOf(t, p))
<1> DEFINE k == LineOf(t, p)
           N == NumLines(t)
           b == LineEnd(t, k)
<1>1. k \in Nat /\ 1 <= k /\ k <= N /\ N \in Nat
  BY LineCounts
<1> HIDE DEF k
<1>2. LineStart(t, k) <= p
  <2>1. CASE k = 1
    BY <2>1 DEF LineStart
  <2>2. CASE k # 1
    <3> DEFINE j == k - 1
               e == LineEnd(t, j)
    <3>1. j \in Nat /\ 1 <= j /\ j < k /\ j < N
      BY <1>1, <2>2
    <3>2. e \in t.newlines /\ LineOf(t, e) = j
      <4> HIDE DEF j
      <4> QED BY <3>1, LineEndType
    <3>3. LineStart(t, k) = e + 1
      BY <2>2 DEF LineStart
    <3> HIDE DEF e, j
    <3>4. e \in Nat
      BY <3>2, TextType
    <3>5. p <= e => LineOf(t, p) <= LineOf(t, e)
      BY <3>4, LineOfMonotonic
    <3>6. ~(p <= e)
      BY <1>1, <3>1, <3>2, <3>5 DEF k
    <3> QED BY <3>3, <3>4, <3>6
  <2> QED BY <2>1, <2>2
<1>3. p <= b
  <2>1. CASE k = N
    BY <2>1, LineEndLast
  <2>2. CASE k # N
    <3>1. b \in t.newlines /\ LineOf(t, b) = k
      BY <1>1, <2>2, LineEndType
    <3> HIDE DEF b
    <3>2. b < p => LineOf(t, b) < LineOf(t, p)
      BY <3>1, LineOfNewline
    <3>3. b \in Nat
      BY <3>1, TextType
    <3>4. ~(b < p)
      BY <1>1, <3>1, <3>2 DEF k
    <3> QED BY <3>3, <3>4
  <2> QED BY <2>1, <2>2
<1> QED BY <1>2, <1>3 DEF k

\* A group of matches is printed as its line, each character once.
LEMMA MatchPrints ==
  ASSUME NEW t, NEW group, NEW k, t \in Texts, Grouped(t, group, k)
  PROVE  print_matches(t, group) = Matched(t, k)
<1> DEFINE n == Len(group)
           newline_a == RFind(t, Head(group).start)
           newline_b == Find(t, Last(group).end)
           a == IF newline_a = Npos(t) THEN 0 ELSE newline_a + 1
           b == IF newline_b = Npos(t) THEN t.size ELSE newline_b
           previous_end(i) == IF i = 1 THEN a ELSE group[i - 1].end
           piece(i) == Gap(t, previous_end(i), group[i].start)
                       \o Substr(t, group[i].start, group[i].end)
           pieces == [i \in 1..n |-> piece(i)]
           T == Inside(t)
<1>1. /\ n \in Nat /\ 1 <= n /\ Head(group) = group[1] /\ Last(group) = group[n]
      /\ \A i \in 1..n : /\ OnLine(t, group[i], k)
                         /\ i > 1 => group[i - 1].end <= group[i].start
  <2>1. group \in Seq(Match) /\ group # <<>>
    BY DEF Grouped
  <2>2. n \in Nat /\ 1 <= n /\ Head(group) = group[1] /\ Last(group) = group[n]
    BY <2>1 DEF Last
  <2> QED BY <2>2 DEF Grouped
<1>2. \A i \in 1..n : /\ group[i].start \in Nat /\ group[i].end \in Nat
                      /\ group[i].start <= group[i].end /\ group[i].end <= t.size
                      /\ LineOf(t, group[i].start) = k /\ LineOf(t, group[i].end) = k
  BY <1>1, EndsOfLine DEF OnLine
<1>3. k \in Nat /\ 1 <= k /\ k <= NumLines(t) /\ t.size \in Nat /\ 1 \in 1..n /\ n \in 1..n
  BY <1>1, EndsOfLine, TextType
<1>4. a = LineStart(t, k) /\ a \in Nat
  <2>1. newline_a = IF k = 1 THEN Npos(t) ELSE LineEnd(t, k - 1)
    BY <1>1, <1>3, EndsOfLine
  <2>2. k # 1 => LineEnd(t, k - 1) # Npos(t)
    <3> SUFFICES ASSUME k # 1 PROVE LineEnd(t, k - 1) # Npos(t)
      OBVIOUS
    <3>1. k - 1 \in Nat /\ 1 <= k - 1 /\ k - 1 < NumLines(t)
      BY <1>3, LineCounts
    <3> QED BY <3>1, LineEndType, TextType
  <2>3. a = LineStart(t, k)
    BY <2>1, <2>2, Zenon DEF LineStart
  <2> QED BY <1>3, <2>3, LineStartType
<1>5. b = LineEnd(t, k) /\ b \in Nat /\ b <= t.size
  <2>1. newline_b = IF k = NumLines(t) THEN Npos(t) ELSE LineEnd(t, k)
    BY <1>1, <1>3, EndsOfLine
  <2>2. k # NumLines(t) => LineEnd(t, k) # Npos(t)
    <3> SUFFICES ASSUME k # NumLines(t) PROVE LineEnd(t, k) # Npos(t)
      OBVIOUS
    <3>1. k < NumLines(t)
      BY <1>3, LineCounts
    <3> QED BY <1>3, <3>1, LineEndType, TextType
  <2>3. b = LineEnd(t, k)
    BY <2>1, <2>2, LineEndLast, Zenon
  <2> QED BY <1>3, <2>3, LineBounds
\* The matches lie between the ends of the line.
<1>6. \A i \in 1..n : a <= group[i].start /\ group[i].end <= b
  <2> HIDE DEF a, b
  <2> QED BY <1>1, <1>2, <1>3, <1>4, <1>5, PositionInLine
<1>7. \A i \in 1..n : a <= group[i].end
  <2> HIDE DEF a
  <2> QED BY <1>2, <1>4, <1>6
<1> HIDE DEF a, b
<1>8. ASSUME NEW i \in 1..n
      PROVE  /\ previous_end(i) \in Nat /\ previous_end(i) <= group[i].start
             /\ piece(i) = Substr(t, previous_end(i), group[i].end)
             /\ piece(i) \in Seq(T)
  <2>1. previous_end(i) \in Nat /\ previous_end(i) <= group[i].start
    <3>1. CASE i = 1
      BY <1>3, <1>4, <1>6, <3>1
    <3>2. CASE i # 1
      <4>1. i - 1 \in 1..n /\ i > 1
        BY <1>1, <3>2
      <4> QED BY <1>1, <1>2, <3>2, <4>1
    <3> QED BY <3>1, <3>2
  <2>2. /\ group[i].start \in Nat /\ group[i].end \in Nat
        /\ group[i].start <= group[i].end /\ group[i].end <= t.size
    BY <1>2
  <2> HIDE DEF previous_end
  <2>3. Gap(t, previous_end(i), group[i].start) = Substr(t, previous_end(i), group[i].start)
    BY <2>1 DEF Gap
  <2>4. piece(i) = Substr(t, previous_end(i), group[i].end)
    <3>1. Substr(t, previous_end(i), group[i].start) \o Substr(t, group[i].start, group[i].end)
            = Substr(t, previous_end(i), group[i].end)
      <4>1. Touch(t, previous_end(i), group[i].start, group[i].end)
        BY <2>1, <2>2, SubstrJoin, Zenon
      <4> QED BY <4>1, Zenon DEF Touch
    <3> QED BY <2>3, <3>1, Zenon
  <2>5. Substr(t, previous_end(i), group[i].end) \in Seq(T)
    <3>1. previous_end(i) <= group[i].end
      BY <2>1, <2>2
    <3> QED BY <2>1, <2>2, <3>1, SubstrInside
  <2> HIDE DEF piece
  <2> QED BY <2>1, <2>4, <2>5
\* Joined, the first pieces are the text up to the end of their match.
<1> DEFINE S == {i \in Nat : 1 <= i /\ i <= n => Joined(pieces, i) = Substr(t, a, group[i].end)}
<1>9. ASSUME NEW i \in Nat, i <= n PROVE JoinIn(pieces, i, T)
  <2>1. \A l \in 1..i : l \in 1..n
    BY <1>1, <1>9
  <2>2. \A l \in 1..n : pieces[l] = piece(l) /\ piece(l) \in Seq(T)
    BY <1>8
  <2> HIDE DEF pieces, piece
  <2> QED BY <2>1, <2>2 DEF JoinIn
<1>10. ASSUME NEW i \in Nat, i \in S PROVE i + 1 \in S
  <2> SUFFICES ASSUME i + 1 <= n PROVE Joined(pieces, i + 1) = Substr(t, a, group[i + 1].end)
    OBVIOUS
  <2> DEFINE l == i + 1
  <2>1. l \in 1..n /\ l \in Nat /\ l <= n
    BY <1>1
  <2>2. pieces[l] = Substr(t, previous_end(l), group[l].end) /\ pieces[l] \in Seq(T)
    <3> HIDE DEF l, piece, previous_end
    <3> QED BY <1>8, <2>1
  <2>3. Joined(pieces, l) = Joined(pieces, i) \o pieces[l]
    <3>1. JoinIn(pieces, i + 1, T)
      <4> HIDE DEF pieces
      <4> QED BY <1>9, <2>1
    <3> HIDE DEF pieces
    <3> QED BY <3>1, JoinedMore
  <2> HIDE DEF pieces
  <2>4. CASE i = 0
    <3>1. l = 1 /\ previous_end(l) = a
      BY <2>4
    <3>2. Joined(pieces, i) = <<>>
      BY <2>4, JoinedNone
    <3>3. <<>> \o pieces[l] = pieces[l]
      BY <2>2, ConcatEmptySeq, Zenon
    <3> HIDE DEF l, previous_end
    <3> QED BY <2>2, <2>3, <3>1, <3>2, <3>3, Zenon DEF l
  <2>5. CASE i # 0
    <3>1. i \in 1..n /\ previous_end(l) = group[i].end /\ 1 <= i /\ i <= n /\ i < l /\ l > 1 /\ l - 1 = i
      BY <2>1, <2>5
    <3>2. Joined(pieces, i) = Substr(t, a, group[i].end)
      BY <1>10, <3>1
    <3> HIDE DEF l, previous_end
    <3>3. a <= group[i].end
      BY <1>7, <3>1
    <3>4. Substr(t, a, group[i].end) \o Substr(t, group[i].end, group[l].end) = Substr(t, a, group[l].end)
      <4>1. /\ group[i].end \in Nat /\ group[l].end \in Nat /\ group[l].start \in Nat
            /\ group[i].end <= group[l].start /\ group[l].start <= group[l].end
            /\ group[l].end <= t.size
        BY <1>1, <1>2, <2>1, <3>1
      <4>2. group[i].end <= group[l].end
        BY <4>1
      <4>3. Touch(t, a, group[i].end, group[l].end)
        BY <1>4, <3>3, <4>1, <4>2, SubstrJoin, Zenon
      <4> QED BY <4>3, Zenon DEF Touch
    <3> QED BY <2>2, <2>3, <3>1, <3>2, <3>4, Zenon DEF l
  <2> QED BY <2>4, <2>5
<1>11. Nat \subseteq S
  <2>1. 0 \in S
    OBVIOUS
  <2> HIDE DEF S
  <2> QED BY <1>10, <2>1, Induction
<1>12. FlattenSeq(pieces) = Substr(t, a, group[n].end)
  <2>1. Joined(pieces, n) = Substr(t, a, group[n].end)
    <3> HIDE DEF pieces
    <3> QED BY <1>1, <1>11
  <2>2. Joined(pieces, n) = FlattenSeq(pieces)
    <3>1. [i \in 1..n |-> pieces[i]] = pieces
      OBVIOUS
    <3> HIDE DEF pieces
    <3> QED BY <3>1, Zenon DEF Joined
  <2> QED BY <2>1, <2>2, Zenon
<1>13. Substr(t, a, group[n].end) \o Substr(t, group[n].end, b) = LineChars(t, k)
  <2>1. a <= group[n].end /\ group[n].end <= b
    BY <1>3, <1>6, <1>7
  <2>2. group[n].end \in Nat
    BY <1>2, <1>3
  <2>3. Substr(t, a, group[n].end) \o Substr(t, group[n].end, b) = Substr(t, a, b)
    <3>1. Touch(t, a, group[n].end, b)
      BY <1>4, <1>5, <2>1, <2>2, SubstrJoin, Zenon
    <3> QED BY <3>1, Zenon DEF Touch
  <2> QED BY <1>3, <1>4, <1>5, <2>3, LineIsSubstr
<1>14. print_matches(t, group)
         = OutputLine("match", FlattenSeq(pieces) \o Substr(t, Last(group).end, b))
  BY DEF print_matches, a, b
<1> HIDE DEF pieces
<1> QED BY <1>1, <1>12, <1>13, <1>14, Zenon DEF Matched

-----------------------------------------------------------------------------
(* The reference, line by line, for any set M of matched lines.              *)

ContextAfter(conf) == IF conf.context_mode THEN conf.context_after ELSE 0
ContextBefore(conf) == IF conf.context_mode THEN conf.context_before ELSE 0
Around(t, conf, M) ==
  {k \in 1..NumLines(t) :
     \E m \in M : m - ContextBefore(conf) <= k /\ k <= m + ContextAfter(conf)}
Opens(t, conf, p, M, k) ==
  /\ (k - 1) \notin Around(t, conf, M)
  /\ (\E j \in Around(t, conf, M) : j < k) \/ p
GrepFor(t, conf, p, M, k) ==
  LET line == OutputLine(IF k \in M THEN "match" ELSE "context", LineChars(t, k))
  IN  IF k \notin Around(t, conf, M) THEN <<>>
      ELSE IF conf.context_mode /\ Opens(t, conf, p, M, k) THEN <<Separator, line>>
      ELSE <<line>>
GrepAll(t, conf, p, M) == [k \in 1..NumLines(t) |-> GrepFor(t, conf, p, M, k)]
GrepUpTo(t, conf, p, M, n) == Joined(GrepAll(t, conf, p, M), n)

\* A page, options and a set of lines of the page.
Given(t, conf, M) == t \in Texts /\ conf \in OptionType /\ M \subseteq 1..NumLines(t)

\* The numbers in the reference are naturals, and matched lines are shown.
LEMMA GivenTypes ==
  ASSUME NEW t, NEW conf, NEW M, Given(t, conf, M)
  PROVE  /\ NumLines(t) \in Nat /\ NumLines(t) >= 1
         /\ ContextAfter(conf) \in Nat /\ ContextBefore(conf) \in Nat
         /\ \A m \in M : m \in Nat /\ 1 <= m /\ m <= NumLines(t)
         /\ M \subseteq Around(t, conf, M) /\ Around(t, conf, M) \subseteq 1..NumLines(t)
<1>1. NumLines(t) \in Nat /\ NumLines(t) >= 1
  BY LineCounts DEF Given
<1>2. ContextAfter(conf) \in Nat /\ ContextBefore(conf) \in Nat
  BY DEF Given, OptionType, ContextAfter, ContextBefore
<1>3. \A m \in M : m \in Nat /\ 1 <= m /\ m <= NumLines(t)
  BY <1>1 DEF Given
<1>4. M \subseteq Around(t, conf, M)
  BY <1>1, <1>2, <1>3 DEF Around
<1> QED BY <1>1, <1>2, <1>3, <1>4 DEF Around

\* What one line of the page contributes.
LineOrNone(b, x) == IF b THEN <<x>> ELSE <<>>

\* A line that is not shown adds nothing, the others themselves behind a separator or not.
ShownAs(t, conf, p, M, k) ==
  GrepFor(t, conf, p, M, k)
    = LineOrNone(conf.context_mode /\ Opens(t, conf, p, M, k), Separator)
      \o <<IF k \in M THEN Matched(t, k) ELSE Context(t, k)>>
LEMMA GrepForCases ==
  ASSUME NEW t, NEW conf, NEW p, NEW M, NEW k, Given(t, conf, M), k \in 1..NumLines(t)
  PROVE  /\ GrepFor(t, conf, p, M, k) \in Seq(PageLines(t))
         /\ k \notin Around(t, conf, M) => GrepFor(t, conf, p, M, k) = <<>>
         /\ k \in Around(t, conf, M) => ShownAs(t, conf, p, M, k)
<1> DEFINE line == IF k \in M THEN Matched(t, k) ELSE Context(t, k)
           line2 == OutputLine(IF k \in M THEN "match" ELSE "context", LineChars(t, k))
           P == PageLines(t)
           opens == conf.context_mode /\ Opens(t, conf, p, M, k)
           all == LineOrNone(opens, Separator) \o <<line>>
<1>1. line2 = line
  BY Zenon DEF Matched, Context
<1>2. line \in P /\ Separator \in P
  <2>1. k \in Nat /\ 1 <= k /\ k <= NumLines(t) /\ t \in Texts
    BY GivenTypes DEF Given
  <2>2. Matched(t, k) \in P /\ Context(t, k) \in P
    BY <2>1, LineTypes
  <2>3. Separator \in P
    <3>1. <<>> \in Seq(Inside(t)) /\ "separator" \in LineKinds
      BY DEF LineKinds
    <3> QED BY <3>1, LineInside DEF Separator
  <2> QED BY <2>2, <2>3
<1> HIDE DEF line, P
<1>3. <<line>> \in Seq(P) /\ <<Separator>> \in Seq(P) /\ <<>> \in Seq(P) /\ <<Separator, line>> \in Seq(P)
  <2>1. <<line>> \in Seq(P)
    BY <1>2, TwoElements, Zenon
  <2>2. <<Separator>> \in Seq(P) /\ <<>> \in Seq(P) /\ <<Separator, line>> \in Seq(P)
    BY <1>2, TwoElements, Zenon
  <2> QED BY <2>1, <2>2
<1>4. <<Separator>> \o <<line>> = <<Separator, line>> /\ <<>> \o <<line>> = <<line>>
  <2>1. JoinTwo(Separator, line)
    BY <1>2, TwoElements, Zenon
  <2> QED BY <2>1, Zenon DEF JoinTwo
<1>5. GrepFor(t, conf, p, M, k) = IF k \notin Around(t, conf, M) THEN <<>>
                                  ELSE IF opens THEN <<Separator, line2>>
                                  ELSE <<line2>>
  BY Zenon DEF GrepFor
<1>6. GrepFor(t, conf, p, M, k) = IF k \notin Around(t, conf, M) THEN <<>>
                                  ELSE IF opens THEN <<Separator, line>>
                                  ELSE <<line>>
  BY <1>1, <1>5, Zenon
<1>7. all = IF opens THEN <<Separator, line>> ELSE <<line>>
  BY <1>4, Zenon DEF LineOrNone
<1> HIDE DEF opens, line2
<1>8. k \in Around(t, conf, M) => GrepFor(t, conf, p, M, k) = all
  <2>1. CASE opens
    BY <1>6, <1>7, <2>1, Zenon
  <2>2. CASE ~opens
    BY <1>6, <1>7, <2>2, Zenon
  <2> QED BY <2>1, <2>2, Zenon
<1>9. GrepFor(t, conf, p, M, k) \in Seq(P)
  <2>1. CASE k \notin Around(t, conf, M)
    BY <1>3, <1>6, <2>1, Zenon
  <2>2. CASE k \in Around(t, conf, M)
    <3>1. CASE opens
      BY <1>3, <1>6, <2>2, <3>1, Zenon
    <3>2. CASE ~opens
      BY <1>3, <1>6, <2>2, <3>2, Zenon
    <3> QED BY <3>1, <3>2, Zenon
  <2> QED BY <2>1, <2>2, Zenon
<1> QED BY <1>6, <1>8, <1>9, Zenon DEF ShownAs, line, opens, P

\* The reference grows by one line after the other.
LEMMA UpToType ==
  ASSUME NEW t, NEW conf, NEW p, NEW M, NEW n, Given(t, conf, M), n \in 0..NumLines(t)
  PROVE  /\ GrepUpTo(t, conf, p, M, n) \in Seq(PageLines(t))
         /\ GrepUpTo(t, conf, p, M, 0) = <<>>
         /\ n < NumLines(t) =>
              GrepUpTo(t, conf, p, M, n + 1)
                = GrepUpTo(t, conf, p, M, n) \o GrepFor(t, conf, p, M, n + 1)
<1> DEFINE g == GrepAll(t, conf, p, M)
           N == NumLines(t)
           T == PageLines(t)
<1>1. N \in Nat /\ n \in Nat
  BY GivenTypes
<1>2. \A k \in 1..N : g[k] = GrepFor(t, conf, p, M, k) /\ g[k] \in Seq(T)
  <2> SUFFICES ASSUME NEW k \in 1..N
               PROVE  g[k] = GrepFor(t, conf, p, M, k) /\ g[k] \in Seq(T)
    OBVIOUS
  <2>1. g[k] = GrepFor(t, conf, p, M, k)
    BY DEF GrepAll
  <2>2. GrepFor(t, conf, p, M, k) \in Seq(T)
    BY GrepForCases
  <2> HIDE DEF g, T
  <2> QED BY <2>1, <2>2, Zenon
<1> HIDE DEF g, T
<1>3. JoinIn(g, n, T)
  BY <1>1, <1>2 DEF JoinIn
<1>4. Joined(g, n) \in Seq(T)
  BY <1>3, JoinedType
<1>5. Joined(g, 0) = <<>>
  BY JoinedNone
<1>6. ASSUME n < N PROVE Joined(g, n + 1) = Joined(g, n) \o GrepFor(t, conf, p, M, n + 1)
  <2>1. JoinIn(g, n + 1, T)
    BY <1>1, <1>2, <1>6 DEF JoinIn
  <2>2. Joined(g, n + 1) = Joined(g, n) \o g[n + 1]
    BY <1>1, <2>1, JoinedMore
  <2>3. n + 1 \in 1..N
    BY <1>1, <1>6
  <2>4. g[n + 1] = GrepFor(t, conf, p, M, n + 1)
    BY <1>2, <2>3
  <2> QED BY <2>2, <2>4, Zenon
<1> QED BY <1>4, <1>5, <1>6, Zenon DEF GrepUpTo, g, T

\* Lines that are not shown add nothing.
AddsNothing(t, conf, p, M, a, b) == GrepUpTo(t, conf, p, M, b) = GrepUpTo(t, conf, p, M, a)
LEMMA HiddenLines ==
  ASSUME NEW t, NEW conf, NEW p, NEW M, NEW a, NEW b, Given(t, conf, M), a \in Nat, b \in Nat,
         a <= b, b <= NumLines(t), \A k \in (a + 1)..b : k \notin Around(t, conf, M)
  PROVE  AddsNothing(t, conf, p, M, a, b)
<1> DEFINE U(n) == GrepUpTo(t, conf, p, M, n)
           S == {n \in Nat : a + n <= b => U(a + n) = U(a)}
<1>1. 0 \in S
  OBVIOUS
<1>2. ASSUME NEW n \in Nat, n \in S PROVE n + 1 \in S
  <2> SUFFICES ASSUME a + (n + 1) <= b PROVE U(a + (n + 1)) = U(a)
    OBVIOUS
  <2> DEFINE c == a + n
  <2>1. /\ c \in 0..NumLines(t) /\ c < NumLines(t) /\ c + 1 \in (a + 1)..b
        /\ c + 1 \in 1..NumLines(t) /\ a + (n + 1) = c + 1 /\ c <= b
    BY GivenTypes
  <2>2. U(c) = U(a)
    BY <1>2, <2>1
  <2> HIDE DEF c
  <2>3. U(c + 1) = U(c) \o GrepFor(t, conf, p, M, c + 1) /\ U(c) \in Seq(PageLines(t))
    BY <2>1, UpToType
  <2>4. GrepFor(t, conf, p, M, c + 1) = <<>>
    <3> DEFINE d == c + 1
    <3>1. d \in 1..NumLines(t) /\ d \notin Around(t, conf, M)
      BY <2>1
    <3> HIDE DEF d
    <3>2. GrepFor(t, conf, p, M, d) = <<>>
      BY <3>1, Zenon DEF GrepFor
    <3> QED BY <3>2 DEF d
  <2> HIDE DEF U
  <2>5. U(c) \o <<>> = U(c)
    BY <2>3, ConcatEmptySeq, Zenon
  <2>6. U(c + 1) = U(a)
    BY <2>2, <2>3, <2>4, <2>5, Zenon
  <2> QED BY <2>1, <2>6, Zenon
<1>3. Nat \subseteq S
  <2> HIDE DEF S
  <2> QED BY <1>1, <1>2, Induction
<1>4. b - a \in Nat /\ a + (b - a) = b /\ a + (b - a) <= b
  OBVIOUS
<1>5. U(a + (b - a)) = U(a)
  <2> HIDE DEF U
  <2> QED BY <1>3, <1>4
<1> QED BY <1>4, <1>5, Zenon DEF AddsNothing

\* Lines of context behind a line that is shown are added as they are.
AddsContext(t, conf, p, M, a, b) ==
  GrepUpTo(t, conf, p, M, b) = GrepUpTo(t, conf, p, M, a) \o ContextLines(t, a + 1, b)
LEMMA ContextRun ==
  ASSUME NEW t, NEW conf, NEW p, NEW M, NEW a, NEW b, Given(t, conf, M), a \in Nat, b \in Nat,
         a <= b, b <= NumLines(t),
         \A k \in (a + 1)..b : /\ k \in Around(t, conf, M) /\ k \notin M
                               /\ (k - 1) \in Around(t, conf, M)
  PROVE  AddsContext(t, conf, p, M, a, b)
<1> DEFINE U(n) == GrepUpTo(t, conf, p, M, n)
           C(n) == ContextLines(t, a + 1, n)
           P == PageLines(t)
           S == {n \in Nat : a + n <= b => U(a + n) = U(a) \o C(a + n)}
<1>0. a \in 0..NumLines(t)
  BY GivenTypes
<1>1. 0 \in S
  <2>1. C(a) = <<>> /\ a + 0 = a
    BY ContextNone
  <2>2. U(a) \in Seq(P)
    BY <1>0, UpToType
  <2> HIDE DEF U, C
  <2>3. U(a) \o <<>> = U(a)
    BY <2>2, ConcatEmptySeq, Zenon
  <2>4. U(a + 0) = U(a) \o C(a + 0)
    BY <2>1, <2>3, Zenon
  <2> QED BY <2>4
<1>2. ASSUME NEW n \in Nat, n \in S PROVE n + 1 \in S
  <2> SUFFICES ASSUME a + (n + 1) <= b PROVE U(a + (n + 1)) = U(a) \o C(a + (n + 1))
    OBVIOUS
  <2> DEFINE c == a + n
             d == c + 1
             x == <<Context(t, d)>>
  <2>1. /\ c \in 0..NumLines(t) /\ c < NumLines(t) /\ d \in (a + 1)..b
        /\ d \in 1..NumLines(t) /\ a + (n + 1) = d /\ c <= b /\ d - 1 = c
        /\ c + 1 <= NumLines(t)
    BY GivenTypes
  <2>2. U(c) = U(a) \o C(c)
    BY <1>2, <2>1
  <2>3. LinesIn(t, a + 1, c)
    BY <2>1 DEF LinesIn
  <2> HIDE DEF c
  <2>4. U(d) = U(c) \o GrepFor(t, conf, p, M, d)
    BY <2>1, UpToType
  <2>5. GrepFor(t, conf, p, M, d) = x
    <3>1. d \in Around(t, conf, M) /\ d \notin M /\ ~Opens(t, conf, p, M, d)
      BY <2>1 DEF Opens
    <3>2. GrepFor(t, conf, p, M, d)
            = LineOrNone(conf.context_mode /\ Opens(t, conf, p, M, d), Separator)
                  \o <<IF d \in M THEN Matched(t, d) ELSE Context(t, d)>>
      <4> HIDE DEF d
      <4>1. ShownAs(t, conf, p, M, d)
        BY <2>1, <3>1, GrepForCases
      <4> QED BY <4>1, Zenon DEF ShownAs
    <3>3. LineOrNone(conf.context_mode /\ Opens(t, conf, p, M, d), Separator) = <<>>
      BY <3>1 DEF LineOrNone
    <3>4. <<>> \o x = x
      OBVIOUS
    <3> QED BY <3>1, <3>2, <3>3, <3>4, Zenon
  <2>6. U(a) \in Seq(P) /\ C(c) \in Seq(P) /\ x \in Seq(P)
    <3>1. U(a) \in Seq(P)
      BY <1>0, UpToType
    <3>2. C(c) \in Seq(P)
      BY <2>3, ContextType DEF Given
    <3>3. Context(t, d) \in P
      <4>1. d \in Nat /\ 1 <= d /\ d <= NumLines(t) /\ t \in Texts
        BY <2>1 DEF Given
      <4> HIDE DEF d
      <4> QED BY <4>1, LineTypes
    <3> HIDE DEF P, U, C
    <3>4. x \in Seq(P)
      BY <3>3
    <3> QED BY <3>1, <3>2, <3>4
  <2>7. C(c) \o x = C(d)
    BY <2>1, <2>3, ContextMore DEF Given
  <2> HIDE DEF U, C, x, d, P
  <2>8. (U(a) \o C(c)) \o x = U(a) \o (C(c) \o x)
    <3>1. Associates(U(a), C(c), x)
      BY <2>6, Regroup, Zenon
    <3> QED BY <3>1, Zenon DEF Associates
  <2>9. U(d) = U(a) \o C(d)
    BY <2>2, <2>4, <2>5, <2>7, <2>8, Zenon
  <2> QED BY <2>1, <2>9, Zenon
<1>3. Nat \subseteq S
  <2> HIDE DEF S
  <2> QED BY <1>1, <1>2, Induction
<1>4. b - a \in Nat /\ a + (b - a) = b /\ a + (b - a) <= b
  OBVIOUS
<1>5. U(a + (b - a)) = U(a) \o C(a + (b - a))
  <2> HIDE DEF U, C
  <2> QED BY <1>3, <1>4
<1> HIDE DEF U, C
<1> QED BY <1>4, <1>5, Zenon DEF AddsContext, U, C

\* Context from line a on in front of the matched line b.
AddsMatch(t, conf, p, M, a, b) ==
  GrepUpTo(t, conf, p, M, b)
    = ((GrepUpTo(t, conf, p, M, a - 1)
        \o LineOrNone(conf.context_mode /\ Opens(t, conf, p, M, a), Separator))
       \o ContextLines(t, a, b - 1)) \o <<Matched(t, b)>>
LEMMA MatchRun ==
  ASSUME NEW t, NEW conf, NEW p, NEW M, NEW a, NEW b, Given(t, conf, M), a \in Nat, b \in Nat,
         1 <= a, a <= b, b <= NumLines(t), b \in M,
         \A k \in a..b : k \in Around(t, conf, M) /\ (k \in M => k = b)
  PROVE  AddsMatch(t, conf, p, M, a, b)
<1> DEFINE U(n) == GrepUpTo(t, conf, p, M, n)
           G(k) == GrepFor(t, conf, p, M, k)
           s == LineOrNone(conf.context_mode /\ Opens(t, conf, p, M, a), Separator)
           P == PageLines(t)
           x == <<Context(t, a)>>
           y == <<Matched(t, b)>>
           z == ContextLines(t, a, b - 1)
<1>1. /\ a - 1 \in 0..NumLines(t) /\ a - 1 < NumLines(t) /\ (a - 1) + 1 = a
      /\ b - 1 \in 0..NumLines(t) /\ b - 1 < NumLines(t) /\ (b - 1) + 1 = b
      /\ a \in 1..NumLines(t) /\ b \in 1..NumLines(t) /\ b - 1 \in Nat /\ a <= NumLines(t)
      /\ LinesIn(t, a, b - 1) /\ t \in Texts
  <2>1. NumLines(t) \in Nat /\ t \in Texts
    BY LineCounts DEF Given
  <2> DEFINE N == NumLines(t)
  <2> HIDE DEF N
  <2>2. N \in Nat /\ b <= N
    BY <2>1 DEF N
  <2>3. /\ a - 1 \in 0..N /\ a - 1 < N /\ (a - 1) + 1 = a
        /\ b - 1 \in 0..N /\ b - 1 < N /\ (b - 1) + 1 = b
        /\ a \in 1..N /\ b \in 1..N /\ b - 1 \in Nat /\ a <= N
        /\ a <= b - 1 + 1 /\ b - 1 <= N
    BY <2>2
  <2> QED BY <2>1, <2>3 DEF N, LinesIn
<1>2. U(a) = U(a - 1) \o G(a) /\ U(b) = U(b - 1) \o G(b)
  <2>1. U((a - 1) + 1) = U(a - 1) \o G((a - 1) + 1)
    <3> HIDE DEF G
    <3> QED BY <1>1, UpToType DEF G
  <2>2. U((b - 1) + 1) = U(b - 1) \o G((b - 1) + 1)
    <3> HIDE DEF G
    <3> QED BY <1>1, UpToType DEF G
  <2> HIDE DEF U, G
  <2> QED BY <1>1, <2>1, <2>2, Zenon
<1>3. /\ U(a - 1) \in Seq(P) /\ U(a) \in Seq(P) /\ z \in Seq(P)
      /\ x \in Seq(P) /\ y \in Seq(P) /\ s \in Seq(P)
  <2>1. U(a - 1) \in Seq(P) /\ U(a) \in Seq(P)
    <3>1. a \in 0..NumLines(t)
      BY <1>1
    <3> QED BY <1>1, <3>1, UpToType
  <2>2. z \in Seq(P)
    BY <1>1, ContextType
  <2>3. Context(t, a) \in P /\ Matched(t, b) \in P
    BY <1>1, LineTypes
  <2>4. Separator \in P
    <3>1. <<>> \in Seq(Inside(t)) /\ "separator" \in LineKinds
      BY DEF LineKinds
    <3> QED BY <3>1, LineInside DEF Separator
  <2> HIDE DEF P, z, U
  <2>5. x \in Seq(P) /\ y \in Seq(P)
    BY <2>3
  <2>6. s \in Seq(P)
    BY <2>4 DEF LineOrNone
  <2> QED BY <2>1, <2>2, <2>5, <2>6
<1>4. G(a) = s \o <<IF a \in M THEN Matched(t, a) ELSE Context(t, a)>>
  <2>1. a \in Around(t, conf, M)
    OBVIOUS
  <2>2. ShownAs(t, conf, p, M, a)
    BY <1>1, <2>1, GrepForCases
  <2> QED BY <2>2, Zenon DEF ShownAs
<1>5. CASE a = b
  <2>1. G(b) = s \o y
    BY <1>4, <1>5, Zenon
  <2>2. z = <<>>
    BY <1>1, <1>5, ContextNone
  <2> HIDE DEF U, G, s, P, y, z
  <2>3. U(b) = U(a - 1) \o (s \o y)
    BY <1>2, <1>5, <2>1, Zenon
  <2>4. U(a - 1) \o (s \o y) = (U(a - 1) \o s) \o y
    <3>1. Associates(U(a - 1), s, y)
      BY <1>3, Regroup, Zenon
    <3> QED BY <3>1, Zenon DEF Associates
  <2>5. (U(a - 1) \o s) \o <<>> = U(a - 1) \o s
    <3>1. U(a - 1) \o s \in Seq(P)
      BY <1>3, Joining, Zenon
    <3> QED BY <3>1, ConcatEmptySeq, Zenon
  <2> QED BY <2>2, <2>3, <2>4, <2>5, Zenon DEF AddsMatch, U, s, y, z
<1>6. CASE a # b
  <2> DEFINE w == ContextLines(t, a + 1, b - 1)
  <2>1. G(a) = s \o x
    <3>1. a \notin M
      BY <1>6
    <3> QED BY <1>4, <3>1, Zenon
  <2>2. G(b) = y
    <3>1. b \in Around(t, conf, M) /\ ~Opens(t, conf, p, M, b)
      <4>1. b - 1 \in a..b
        BY <1>6
      <4> QED BY <4>1 DEF Opens
    <3>2. G(b) = LineOrNone(conf.context_mode /\ Opens(t, conf, p, M, b), Separator)
                  \o <<IF b \in M THEN Matched(t, b) ELSE Context(t, b)>>
      <4>1. ShownAs(t, conf, p, M, b)
        BY <1>1, <3>1, GrepForCases
      <4> QED BY <4>1, Zenon DEF ShownAs
    <3>3. LineOrNone(conf.context_mode /\ Opens(t, conf, p, M, b), Separator) = <<>>
      BY <3>1 DEF LineOrNone
    <3>4. <<>> \o y = y
      OBVIOUS
    <3> HIDE DEF G
    <3> QED BY <3>2, <3>3, <3>4, Zenon
  <2>3. U(b - 1) = U(a) \o w
    <3>1. \A k \in (a + 1)..(b - 1) : k \in a..b /\ k - 1 \in a..b /\ k # b
      BY <1>1
    <3>2. \A k \in (a + 1)..(b - 1) : /\ k \in Around(t, conf, M) /\ k \notin M
                                      /\ (k - 1) \in Around(t, conf, M)
      BY <3>1
    <3>3. a <= b - 1 /\ b - 1 <= NumLines(t)
      BY <1>1, <1>6
    <3> DEFINE d == b - 1
    <3> HIDE DEF d
    <3>4. d \in Nat /\ a <= d /\ d <= NumLines(t)
      BY <1>1, <3>3 DEF d
    <3>5. \A k \in (a + 1)..d : /\ k \in Around(t, conf, M) /\ k \notin M
                                /\ (k - 1) \in Around(t, conf, M)
      BY <3>2 DEF d
    <3>6. AddsContext(t, conf, p, M, a, d)
      BY <3>4, <3>5, ContextRun, Zenon
    <3> QED BY <3>6, Zenon DEF AddsContext, d
  <2>4. x \o w = z
    <3>1. a <= b - 1
      BY <1>6
    <3> QED BY <1>1, <3>1, ContextFirst
  <2>5. w \in Seq(P)
    <3>1. LinesIn(t, a + 1, b - 1)
      BY <1>1, <1>6 DEF LinesIn
    <3> QED BY <1>1, <3>1, ContextType
  <2> HIDE DEF U, G, s, P, x, y, z, w
  <2>6. U(a) = (U(a - 1) \o s) \o x
    <3>1. Associates(U(a - 1), s, x)
      BY <1>3, Regroup, Zenon
    <3> QED BY <1>2, <2>1, <3>1, Zenon DEF Associates
  <2>7. U(a) \o w = (U(a - 1) \o s) \o z
    <3> DEFINE v == U(a - 1) \o s
    <3>1. v \in Seq(P)
      BY <1>3, Joining, Zenon
    <3> HIDE DEF v
    <3>2. (v \o x) \o w = v \o (x \o w)
      <4>1. Associates(v, x, w)
        BY <1>3, <2>5, <3>1, Regroup, Zenon
      <4> QED BY <4>1, Zenon DEF Associates
    <3>3. U(a) = v \o x
      BY <2>6 DEF v
    <3>4. U(a) \o w = v \o z
      BY <2>4, <3>2, <3>3, Zenon
    <3> QED BY <3>4 DEF v
  <2>8. U(b) = ((U(a - 1) \o s) \o z) \o y
    BY <1>2, <2>2, <2>3, <2>7, Zenon
  <2> QED BY <2>8, Zenon DEF AddsMatch, U, s, y, z
<1> QED BY <1>5, <1>6

-----------------------------------------------------------------------------
(* The reference when one more line matches behind the ones so far.          *)

IsLast(M, mx) == mx \in M /\ \A m \in M : m <= mx

\* Behind the last matched line, only its context is shown.
LEMMA AroundEnd ==
  ASSUME NEW t, NEW conf, NEW M, NEW mx, Given(t, conf, M), IsLast(M, mx)
  PROVE  /\ mx \in Nat /\ 1 <= mx /\ mx <= NumLines(t)
         /\ \A k \in (mx + 1)..NumLines(t) :
              /\ k \notin M
              /\ k \in Around(t, conf, M) <=> k <= mx + ContextAfter(conf)
<1> DEFINE N == NumLines(t)
           A == ContextAfter(conf)
           B == ContextBefore(conf)
<1>1. N \in Nat /\ A \in Nat /\ B \in Nat /\ \A m \in M : m \in Nat /\ 1 <= m /\ m <= N
  BY GivenTypes
<1>2. \A k : k \in Around(t, conf, M) <=> k \in 1..N /\ \E m \in M : m - B <= k /\ k <= m + A
  BY DEF Around
<1> HIDE DEF N, A, B
<1>3. mx \in Nat /\ 1 <= mx /\ mx <= N /\ \A m \in M : m <= mx
  BY <1>1 DEF IsLast
<1>4. ASSUME NEW k \in (mx + 1)..N PROVE k \notin M /\ (k \in Around(t, conf, M) <=> k <= mx + A)
  <2>1. k \in 1..N /\ k \in Nat /\ mx < k
    BY <1>1, <1>3
  <2>2. k \notin M
    BY <1>1, <1>3, <2>1
  <2>3. ASSUME k <= mx + A PROVE k \in Around(t, conf, M)
    <3>1. mx - B <= k
      BY <1>1, <1>3, <2>1
    <3> QED BY <1>2, <2>1, <2>3, <3>1 DEF IsLast
  <2>4. ASSUME k \in Around(t, conf, M) PROVE k <= mx + A
    <3>1. PICK m \in M : k <= m + A
      BY <1>2, <2>4
    <3> QED BY <1>1, <1>3, <2>1, <3>1
  <2> QED BY <2>2, <2>3, <2>4
<1> QED BY <1>3, <1>4 DEF N, A

\* One more matched line at the end: in front of the last one nothing changes.
LEMMA AroundMore ==
  ASSUME NEW t, NEW conf, NEW M, NEW mx, NEW L, Given(t, conf, M), IsLast(M, mx),
         L \in 1..NumLines(t), mx < L
  PROVE  /\ Given(t, conf, M \cup {L}) /\ IsLast(M \cup {L}, L)
         /\ \A k \in 1..mx : k \in Around(t, conf, M \cup {L}) <=> k \in Around(t, conf, M)
         /\ \A k \in (mx + 1)..L :
              k \in Around(t, conf, M \cup {L}) <=> \/ k <= mx + ContextAfter(conf)
                                                    \/ L - ContextBefore(conf) <= k
<1> DEFINE N == NumLines(t)
           A == ContextAfter(conf)
           B == ContextBefore(conf)
           W == Around(t, conf, M)
           W2 == Around(t, conf, M \cup {L})
<1>1. N \in Nat /\ A \in Nat /\ B \in Nat /\ \A m \in M : m \in Nat /\ 1 <= m /\ m <= N
  BY GivenTypes
<1>2. /\ \A k : k \in W <=> k \in 1..N /\ \E m \in M : m - B <= k /\ k <= m + A
      /\ \A k : k \in W2 <=> k \in 1..N /\ \E m \in M \cup {L} : m - B <= k /\ k <= m + A
  BY DEF Around
<1>3. Given(t, conf, M \cup {L})
  BY DEF Given
<1> HIDE DEF N, A, B, W, W2
<1>4. /\ mx \in Nat /\ 1 <= mx /\ mx <= N /\ L \in Nat /\ 1 <= L /\ L <= N /\ mx < L /\ mx \in M
      /\ \A m \in M : m <= mx
  BY <1>1 DEF IsLast, N
<1>5. IsLast(M \cup {L}, L)
  BY <1>1, <1>4 DEF IsLast
<1>6. ASSUME NEW k \in 1..N
      PROVE  k \in W2 <=> k \in W \/ (L - B <= k /\ k <= L + A)
  BY <1>2
<1>7. ASSUME NEW k \in 1..mx PROVE k \in W2 <=> k \in W
  <2>1. k \in 1..N /\ k \in Nat /\ k <= mx
    BY <1>1, <1>4
  <2>2. ASSUME L - B <= k PROVE k \in W
    <3>1. mx - B <= k /\ k <= mx + A
      BY <1>1, <1>4, <2>1, <2>2
    <3> QED BY <1>2, <1>4, <2>1, <3>1
  <2> QED BY <1>6, <2>1, <2>2
<1>8. ASSUME NEW k \in (mx + 1)..L PROVE k \in W2 <=> k <= mx + A \/ L - B <= k
  <2>1. k \in 1..N /\ k \in Nat /\ k <= L + A /\ k \in (mx + 1)..N
    BY <1>1, <1>4
  <2>2. k \in W <=> k <= mx + A
    BY <2>1, AroundEnd DEF W, A, N
  <2> QED BY <1>6, <2>1, <2>2
<1> QED BY <1>3, <1>5, <1>7, <1>8 DEF A, B, W, W2

\* The part of the page up to the last matched line does not change.
SamePrefix(t, conf, p, M, M2, n) == GrepUpTo(t, conf, p, M2, n) = GrepUpTo(t, conf, p, M, n)
LEMMA Prefix ==
  ASSUME NEW t, NEW conf, NEW p, NEW M, NEW mx, NEW L, Given(t, conf, M), IsLast(M, mx),
         L \in 1..NumLines(t), mx < L
  PROVE  SamePrefix(t, conf, p, M, M \cup {L}, mx)
<1> DEFINE M2 == M \cup {L}
           W == Around(t, conf, M)
           W2 == Around(t, conf, M2)
           N == NumLines(t)
<1>1. /\ mx \in Nat /\ 1 <= mx /\ mx <= N /\ N \in Nat /\ L \in Nat /\ mx < L
      /\ W \subseteq 1..N /\ W2 \subseteq 1..N
      /\ \A k \in 1..mx : k \in W2 <=> k \in W
  <2>1. mx \in Nat /\ 1 <= mx /\ mx <= N
    BY AroundEnd
  <2>2. N \in Nat /\ W \subseteq 1..N
    BY GivenTypes
  <2>3. Given(t, conf, M2) /\ \A k \in 1..mx : k \in W2 <=> k \in W
    BY AroundMore
  <2>4. W2 \subseteq 1..N
    BY <2>3, GivenTypes
  <2> QED BY <2>1, <2>2, <2>3, <2>4
<1>2. ASSUME NEW k \in 1..mx
      PROVE  GrepFor(t, conf, p, M2, k) = GrepFor(t, conf, p, M, k)
  <2> HIDE DEF W, W2, N
  <2>1. k \in M2 <=> k \in M
    BY <1>1
  <2>2. k \in W2 <=> k \in W
    BY <1>1
  <2>3. (k - 1) \in W2 <=> (k - 1) \in W
    <3>1. k - 1 \in 1..mx \/ k - 1 \notin 1..N
      BY <1>1
    <3> QED BY <1>1, <3>1
  <2>4. (\E j \in W2 : j < k) <=> (\E j \in W : j < k)
    <3>1. \A j \in 1..N : j < k => j \in 1..mx
      BY <1>1
    <3> QED BY <1>1, <3>1
  <2>5. Opens(t, conf, p, M2, k) <=> Opens(t, conf, p, M, k)
    BY <2>3, <2>4, Zenon DEF Opens, W, W2
  <2>6. (IF k \in M2 THEN "match" ELSE "context") = (IF k \in M THEN "match" ELSE "context")
    BY <2>1, Zenon
  <2> HIDE DEF M2
  <2>7. CASE k \in W
    <3>1. CASE conf.context_mode /\ Opens(t, conf, p, M, k)
      BY <2>2, <2>5, <2>6, <2>7, <3>1, Zenon DEF GrepFor, W, W2
    <3>2. CASE ~(conf.context_mode /\ Opens(t, conf, p, M, k))
      BY <2>2, <2>5, <2>6, <2>7, <3>2, Zenon DEF GrepFor, W, W2
    <3> QED BY <3>1, <3>2, Zenon
  <2>8. CASE k \notin W
    BY <2>2, <2>8, Zenon DEF GrepFor, W, W2
  <2> QED BY <2>7, <2>8, Zenon
<1> DEFINE g == GrepAll(t, conf, p, M)
           g2 == GrepAll(t, conf, p, M2)
<1>3. \A k \in 1..mx : g[k] = GrepFor(t, conf, p, M, k) /\ g2[k] = GrepFor(t, conf, p, M2, k)
  <2>1. \A k \in 1..mx : k \in 1..N
    BY <1>1
  <2> QED BY <2>1, Zenon DEF GrepAll
<1> HIDE DEF g, g2, M2
<1>4. \A k \in 1..mx : g2[k] = g[k]
  BY <1>2, <1>3, Zenon
<1>5. [k \in 1..mx |-> g2[k]] = [k \in 1..mx |-> g[k]]
  BY <1>4
<1>6. Joined(g2, mx) = Joined(g, mx)
  BY <1>5, Zenon DEF Joined
<1> QED BY <1>6, Zenon DEF SamePrefix, GrepUpTo, g, g2, M2
\* How many lines of context are printed behind line mx, and in front of line L.
Follow(conf, mx, L) == Lesser(ContextAfter(conf), L - 1 - mx)
Lead(conf, r, L) == Lesser(ContextBefore(conf), L - 1 - r)

\* One more matched line, behind the ones so far.
AddsLine(t, conf, p, M, r, mx, b, L) ==
  GrepUpTo(t, conf, p, M \cup {L}, L)
    = (((GrepUpTo(t, conf, p, M, mx) \o ContextLines(t, mx + 1, r))
        \o LineOrNone(conf.context_mode /\ L - 1 - b > r, Separator))
       \o ContextLines(t, L - b, L - 1)) \o <<Matched(t, L)>>
LEMMA NextLine ==
  ASSUME NEW t, NEW conf, NEW p, NEW M, NEW mx, NEW L, NEW r, NEW b,
         Given(t, conf, M), IsLast(M, mx), L \in 1..NumLines(t), mx < L,
         r = mx + Follow(conf, mx, L), b = Lead(conf, r, L)
  PROVE  AddsLine(t, conf, p, M, r, mx, b, L)
<1> DEFINE N == NumLines(t)
           A == ContextAfter(conf)
           B == ContextBefore(conf)
           M2 == M \cup {L}
           W == Around(t, conf, M2)
           l == L - b
           before == L - 1 - b
<1>1. /\ N \in Nat /\ A \in Nat /\ B \in Nat /\ mx \in Nat /\ 1 <= mx /\ mx < L
      /\ L \in Nat /\ L <= N /\ \A m \in M : m \in Nat /\ m <= mx
  <2>1. N \in Nat /\ A \in Nat /\ B \in Nat /\ \A m \in M : m \in Nat /\ 1 <= m
    BY GivenTypes
  <2> HIDE DEF N, A, B
  <2> QED BY <2>1 DEF IsLast, N
<1>2. /\ Given(t, conf, M2)
      /\ \A k \in (mx + 1)..L : k \in W <=> k <= mx + A \/ L - B <= k
  BY AroundMore
<1>3. r = mx + Lesser(A, L - 1 - mx) /\ b = Lesser(B, L - 1 - r)
  BY Zenon DEF Follow, Lead
<1>4. M2 \subseteq W
  BY <1>2, GivenTypes
<1> HIDE DEF A, B, N, W
<1>5. /\ r \in Nat /\ mx <= r /\ r < L /\ r <= mx + A
      /\ b \in Nat /\ l \in Nat /\ r < l /\ l <= L /\ L - B <= l
      /\ before \in Nat /\ before + 1 = l /\ r <= before /\ before < L /\ l - 1 = before
      /\ (r < before => r = mx + A /\ l = L - B)
  <2>1. r \in Nat /\ mx <= r /\ r < L /\ r <= mx + A /\ (r < L - 1 => r = mx + A)
    BY <1>1, <1>3 DEF Lesser
  <2>2. b \in Nat /\ b <= B /\ b <= L - 1 - r /\ (b < L - 1 - r => b = B)
    BY <1>1, <1>3, <2>1 DEF Lesser
  <2> QED BY <1>1, <2>1, <2>2
<1> HIDE DEF l, before
<1>6. SamePrefix(t, conf, p, M, M2, mx)
  BY Prefix
<1>7. AddsContext(t, conf, p, M2, mx, r)
  <2>1. ASSUME NEW k \in (mx + 1)..r PROVE k \in W /\ k \notin M2 /\ (k - 1) \in W
    <3>1. k \in (mx + 1)..L /\ k <= mx + A /\ k \in Nat /\ k # L /\ mx < k
      BY <1>1, <1>5
    <3>2. k \in W /\ k \notin M2
      BY <1>1, <1>2, <3>1
    <3>3. (k - 1) \in W
      <4>1. CASE k - 1 = mx
        BY <1>4, <4>1 DEF IsLast
      <4>2. CASE k - 1 # mx
        <5>1. k - 1 \in (mx + 1)..L /\ k - 1 <= mx + A
          BY <1>1, <3>1, <4>2
        <5> QED BY <1>2, <5>1
      <4> QED BY <4>1, <4>2
    <3> QED BY <3>2, <3>3
  <2>2. r <= NumLines(t)
    BY <1>1, <1>5 DEF N
  <2>3. \A k \in (mx + 1)..r : /\ k \in Around(t, conf, M2) /\ k \notin M2
                               /\ (k - 1) \in Around(t, conf, M2)
    BY <2>1, Zenon DEF W
  <2> HIDE DEF M2
  <2> QED BY <1>1, <1>2, <1>5, <2>2, <2>3, ContextRun, Zenon
<1>8. \A k \in (r + 1)..before : k \notin W
  <2> SUFFICES ASSUME NEW k \in (r + 1)..before PROVE k \notin W
    OBVIOUS
  <2>1. k \in (mx + 1)..L /\ k > mx + A /\ k < L - B
    BY <1>1, <1>5
  <2> QED BY <1>1, <1>2, <2>1
<1>9. AddsNothing(t, conf, p, M2, r, before)
  <2>1. before <= NumLines(t)
    BY <1>1, <1>5 DEF N
  <2>2. \A k \in (r + 1)..before : k \notin Around(t, conf, M2)
    BY <1>8, Zenon DEF W
  <2> HIDE DEF M2
  <2> QED BY <1>2, <1>5, <2>1, <2>2, HiddenLines, Zenon
<1>10. AddsMatch(t, conf, p, M2, l, L)
  <2>1. ASSUME NEW k \in l..L PROVE k \in W /\ (k \in M2 => k = L)
    <3>1. k \in (mx + 1)..L /\ L - B <= k /\ mx < k
      BY <1>1, <1>5
    <3> QED BY <1>1, <1>2, <3>1
  <2>2. L <= NumLines(t) /\ L \in M2 /\ 1 <= l
    BY <1>1, <1>5 DEF N
  <2>3. \A k \in l..L : k \in Around(t, conf, M2) /\ (k \in M2 => k = L)
    BY <2>1, Zenon DEF W
  <2> HIDE DEF M2
  <2> QED BY <1>1, <1>2, <1>5, <2>2, <2>3, MatchRun, Zenon
<1>11. Opens(t, conf, p, M2, l) <=> before > r
  <2>1. ASSUME before > r PROVE (l - 1) \notin W /\ \E j \in W : j < l
    <3>1. before \in (r + 1)..before
      BY <1>5, <2>1
    <3>2. mx \in W /\ mx < l
      BY <1>4, <1>5, <1>1 DEF IsLast
    <3> QED BY <1>5, <1>8, <3>1, <3>2
  <2>2. ASSUME before <= r PROVE (l - 1) \in W
    <3>1. l - 1 = r
      BY <1>5, <2>2
    <3>2. CASE r = mx
      BY <1>4, <3>1, <3>2 DEF IsLast
    <3>3. CASE r # mx
      <4>1. r \in (mx + 1)..L
        BY <1>1, <1>5, <3>3
      <4> QED BY <1>2, <1>5, <3>1, <4>1
    <3> QED BY <3>2, <3>3
  <2> QED BY <1>5, <2>1, <2>2 DEF Opens, W
<1> DEFINE U(M1, n) == GrepUpTo(t, conf, p, M1, n)
           s == LineOrNone(conf.context_mode /\ Opens(t, conf, p, M2, l), Separator)
<1>12. U(M2, before) = U(M, mx) \o ContextLines(t, mx + 1, r)
  BY <1>6, <1>7, <1>9, Zenon DEF SamePrefix, AddsContext, AddsNothing
<1>13. s = LineOrNone(conf.context_mode /\ before > r, Separator)
  BY <1>11, Zenon DEF LineOrNone
<1>14. U(M2, L) = ((U(M2, before) \o s) \o ContextLines(t, l, L - 1)) \o <<Matched(t, L)>>
  BY <1>5, <1>10, Zenon DEF AddsMatch
<1> HIDE DEF U, s
<1>15. U(M2, L) = (((U(M, mx) \o ContextLines(t, mx + 1, r))
                    \o LineOrNone(conf.context_mode /\ before > r, Separator))
                   \o ContextLines(t, l, L - 1)) \o <<Matched(t, L)>>
  BY <1>12, <1>13, <1>14, Zenon
<1> QED BY <1>15, Zenon DEF AddsLine, U, M2, l, before

\* The first matched line of the page.
AddsFirst(t, conf, p, b, L) ==
  GrepUpTo(t, conf, p, {L}, L)
    = (LineOrNone(conf.context_mode /\ p, Separator) \o ContextLines(t, L - b, L - 1))
      \o <<Matched(t, L)>>
LEMMA FirstLine ==
  ASSUME NEW t, NEW conf, NEW p, NEW L, NEW b, Given(t, conf, {L}), b = Lead(conf, 0, L)
  PROVE  AddsFirst(t, conf, p, b, L)
<1> DEFINE N == NumLines(t)
           A == ContextAfter(conf)
           B == ContextBefore(conf)
           M == {L}
           W == Around(t, conf, M)
           l == L - b
           before == L - 1 - b
<1>1. /\ N \in Nat /\ A \in Nat /\ B \in Nat /\ L \in Nat /\ 1 <= L /\ L <= N /\ L \in M
      /\ W \subseteq 1..N
  BY GivenTypes
<1>2. \A k : k \in W <=> k \in 1..N /\ L - B <= k /\ k <= L + A
  BY DEF Around
<1>3. b = Lesser(B, L - 1 - 0)
  BY Zenon DEF Lead
<1> HIDE DEF A, B, N, W
<1>5. /\ b \in Nat /\ l \in Nat /\ 0 < l /\ l <= L /\ L - B <= l
      /\ before \in Nat /\ before + 1 = l /\ before < L /\ l - 1 = before
      /\ (0 < before => l = L - B)
  <2>1. b \in Nat /\ b <= B /\ b <= L - 1 /\ (b < L - 1 => b = B)
    BY <1>1, <1>3 DEF Lesser
  <2> QED BY <1>1, <2>1
<1> HIDE DEF l, before
<1>8. \A k \in 0..before : k \notin W
  <2> SUFFICES ASSUME NEW k \in 0..before PROVE k \notin W
    OBVIOUS
  <2>1. k = 0 \/ k < L - B
    BY <1>1, <1>5
  <2>2. k # 0 \/ k \notin 1..N
    BY <1>1
  <2> QED BY <1>1, <1>2, <1>5, <2>1, <2>2
<1>9. AddsNothing(t, conf, p, M, 0, before)
  <2>1. before <= NumLines(t) /\ 0 \in Nat /\ 0 <= before
    BY <1>1, <1>5 DEF N
  <2>2. \A k \in (0 + 1)..before : k \notin Around(t, conf, M)
    <3>1. \A k \in (0 + 1)..before : k \in 0..before
      BY <1>5
    <3> QED BY <1>8, <3>1, Zenon DEF W
  <2> HIDE DEF M
  <2>3. Given(t, conf, M)
    BY DEF M
  <2> QED BY <1>5, <2>1, <2>2, <2>3, HiddenLines, Zenon
<1>10. AddsMatch(t, conf, p, M, l, L)
  <2>1. ASSUME NEW k \in l..L PROVE k \in W /\ (k \in M => k = L)
    BY <1>1, <1>2, <1>5
  <2>2. L <= NumLines(t) /\ L \in M /\ 1 <= l
    BY <1>1, <1>5 DEF N
  <2>3. \A k \in l..L : k \in Around(t, conf, M) /\ (k \in M => k = L)
    BY <2>1, Zenon DEF W
  <2> HIDE DEF M
  <2>4. Given(t, conf, M)
    BY DEF M
  <2> QED BY <1>1, <1>5, <2>2, <2>3, <2>4, MatchRun, Zenon
<1>11. Opens(t, conf, p, M, l) <=> p
  <2>1. (l - 1) \notin W
    <3>1. before \in 0..before
      BY <1>5
    <3> QED BY <1>5, <1>8, <3>1
  <2>2. ~ \E j \in W : j < l
    <3>1. \A j \in W : j < l => j \in 0..before
      BY <1>1, <1>5
    <3> QED BY <1>8, <3>1
  <2> QED BY <2>1, <2>2, Zenon DEF Opens, W
<1> DEFINE U(n) == GrepUpTo(t, conf, p, M, n)
           s == LineOrNone(conf.context_mode /\ p, Separator)
           s2 == LineOrNone(conf.context_mode /\ Opens(t, conf, p, M, l), Separator)
           P == PageLines(t)
<1>12. U(before) = <<>>
  <2>1. 0 \in 0..NumLines(t)
    BY <1>1 DEF N
  <2>2. U(0) = <<>>
    <3> HIDE DEF M
    <3>1. Given(t, conf, M)
      BY DEF M
    <3> QED BY <2>1, <3>1, UpToType
  <2> QED BY <1>9, <2>2, Zenon DEF AddsNothing
<1>13. s2 = s
  BY <1>11, Zenon DEF LineOrNone
<1>14. U(L) = ((U(before) \o s2) \o ContextLines(t, l, L - 1)) \o <<Matched(t, L)>>
  BY <1>5, <1>10, Zenon DEF AddsMatch
<1>15. <<>> \o s = s
  BY SMT DEF LineOrNone
<1> HIDE DEF U, s, s2
<1>16. U(L) = (s \o ContextLines(t, l, L - 1)) \o <<Matched(t, L)>>
  BY <1>12, <1>13, <1>14, <1>15, Zenon
<1> QED BY <1>16, Zenon DEF AddsFirst, U, M, l, s

\* The lines behind the last matched one.
AddsRest(t, conf, p, M, mx, e) ==
  GrepUpTo(t, conf, p, M, NumLines(t)) = GrepUpTo(t, conf, p, M, mx) \o ContextLines(t, mx + 1, e)
LEMMA LastLines ==
  ASSUME NEW t, NEW conf, NEW p, NEW M, NEW mx, NEW e, Given(t, conf, M), IsLast(M, mx),
         e = mx + Lesser(ContextAfter(conf), NumLines(t) - mx)
  PROVE  AddsRest(t, conf, p, M, mx, e)
<1> DEFINE N == NumLines(t)
           A == ContextAfter(conf)
           W == Around(t, conf, M)
<1>1. N \in Nat /\ A \in Nat /\ M \subseteq W
  BY GivenTypes
<1>2. /\ mx \in Nat /\ 1 <= mx /\ mx <= N
      /\ \A k \in (mx + 1)..N : k \notin M /\ (k \in W <=> k <= mx + A)
  BY AroundEnd
<1>3. e = mx + Lesser(A, N - mx)
  OBVIOUS
<1> HIDE DEF N, A, W
<1>4. e \in Nat /\ mx <= e /\ e <= N /\ e <= mx + A /\ (e < N => e = mx + A)
  BY <1>1, <1>2, <1>3 DEF Lesser
<1>5. AddsContext(t, conf, p, M, mx, e)
  <2>1. ASSUME NEW k \in (mx + 1)..e PROVE k \in W /\ k \notin M /\ (k - 1) \in W
    <3>1. k \in (mx + 1)..N /\ k <= mx + A
      BY <1>1, <1>2, <1>4
    <3>2. (k - 1) \in W
      <4>1. CASE k - 1 = mx
        BY <1>1, <4>1 DEF IsLast
      <4>2. CASE k - 1 # mx
        <5>1. k - 1 \in (mx + 1)..N /\ k - 1 <= mx + A
          BY <1>1, <1>2, <1>4, <4>2
        <5> QED BY <1>2, <5>1
      <4> QED BY <4>1, <4>2
    <3> QED BY <1>2, <3>1, <3>2
  <2>2. e <= NumLines(t)
    BY <1>4 DEF N
  <2>3. \A k \in (mx + 1)..e : /\ k \in Around(t, conf, M) /\ k \notin M
                               /\ (k - 1) \in Around(t, conf, M)
    BY <2>1, Zenon DEF W
  <2> QED BY <1>2, <1>4, <2>2, <2>3, ContextRun, Zenon
<1>6. AddsNothing(t, conf, p, M, e, N)
  <2>1. ASSUME NEW k \in (e + 1)..N PROVE k \notin W
    <3>1. k \in (mx + 1)..N /\ ~ (k <= mx + A)
      BY <1>1, <1>2, <1>4
    <3> QED BY <1>2, <3>1
  <2>2. N <= NumLines(t)
    BY <1>1 DEF N
  <2>3. \A k \in (e + 1)..N : k \notin Around(t, conf, M)
    BY <2>1, Zenon DEF W
  <2> QED BY <1>1, <1>4, <2>2, <2>3, HiddenLines, Zenon
<1> QED BY <1>5, <1>6, Zenon DEF AddsContext, AddsNothing, AddsRest, N

\* Without a match nothing is printed.
LEMMA NoLines ==
  ASSUME NEW t, NEW conf, NEW p, Given(t, conf, {})
  PROVE  GrepUpTo(t, conf, p, {}, NumLines(t)) = <<>> /\ GrepUpTo(t, conf, p, {}, 0) = <<>>
<1> DEFINE N == NumLines(t)
           M == {}
<1>1. N \in Nat /\ 0 \in Nat /\ 0 <= N /\ N <= NumLines(t)
  BY GivenTypes
<1>2. \A k \in (0 + 1)..N : k \notin Around(t, conf, M)
  BY DEF Around
<1>3. Given(t, conf, M)
  OBVIOUS
<1> HIDE DEF N, M
<1>4. AddsNothing(t, conf, p, M, 0, N)
  BY <1>1, <1>2, <1>3, HiddenLines, Zenon
<1>5. GrepUpTo(t, conf, p, M, 0) = <<>>
  <2>1. 0 \in 0..NumLines(t)
    BY <1>1 DEF N
  <2> QED BY <1>3, <2>1, UpToType
<1> QED BY <1>4, <1>5, Zenon DEF AddsNothing, M, N

-----------------------------------------------------------------------------
(* What the functions of output.cc print, with or without context mode.      *)

\* The context in front of the first matched line.
LEMMA LeadPrints ==
  ASSUME NEW t, NEW conf, NEW m, NEW L, t \in Texts, conf \in OptionType, OnLine(t, m, L)
  PROVE  print_context_before(t, conf, m, conf.context_before)
           = ContextLines(t, L - Lead(conf, 0, L), L - 1)
<1> DEFINE n == conf.context_before
           b == Lead(conf, 0, L)
<1>1. n \in Nat
  BY DEF OptionType
<1>2. L \in Nat /\ 1 <= L
  BY EndsOfLine
<1>3. print_context_before(t, conf, m, n)
        = IF conf.context_mode THEN ContextLines(t, L - Lesser(n, L - 1), L - 1) ELSE <<>>
  <2> HIDE DEF n
  <2> QED BY <1>1, BeforePrints
<1>4. CASE conf.context_mode
  <2>1. ContextBefore(conf) = n
    BY <1>4 DEF ContextBefore
  <2>2. L - 1 - 0 = L - 1
    BY <1>2
  <2>3. b = Lesser(n, L - 1)
    BY <2>1, <2>2, Zenon DEF Lead
  <2> QED BY <1>3, <1>4, <2>3, Zenon
<1>5. CASE ~conf.context_mode
  <2>1. ContextBefore(conf) = 0
    BY <1>5 DEF ContextBefore
  <2>2. L - b = L /\ L - 1 \in Nat /\ L - 1 < L
    BY <1>2, <2>1 DEF Lead, Lesser
  <2>3. ContextLines(t, L, L - 1) = <<>>
    BY <1>2, <2>2, ContextNone
  <2> QED BY <1>3, <1>5, <2>2, <2>3, Zenon
<1> QED BY <1>4, <1>5

\* The context behind the last matched line.
LEMMA RestPrints ==
  ASSUME NEW t, NEW conf, NEW m, NEW k, t \in Texts, conf \in OptionType, OnLine(t, m, k)
  PROVE  print_context_after(t, conf, m, conf.context_after)
           = ContextLines(t, k + 1, k + Lesser(ContextAfter(conf), NumLines(t) - k))
<1> DEFINE n == conf.context_after
           N == NumLines(t)
<1>1. n \in Nat
  BY DEF OptionType
<1>2. k \in Nat /\ 1 <= k /\ k <= N /\ N \in Nat
  BY EndsOfLine, LineCounts
<1>3. print_context_after(t, conf, m, n)
        = IF conf.context_mode THEN ContextLines(t, k + 1, k + Lesser(n, N - k)) ELSE <<>>
  <2> HIDE DEF n
  <2> QED BY <1>1, AfterPrints
<1>4. CASE conf.context_mode
  <2>1. ContextAfter(conf) = n
    BY <1>4 DEF ContextAfter
  <2> QED BY <1>3, <1>4, <2>1, Zenon
<1>5. CASE ~conf.context_mode
  <2>1. ContextAfter(conf) = 0
    BY <1>5 DEF ContextAfter
  <2>2. k + Lesser(ContextAfter(conf), N - k) = k /\ k + 1 \in Nat /\ k < k + 1
    BY <1>2, <2>1 DEF Lesser
  <2>3. ContextLines(t, k + 1, k) = <<>>
    BY <1>2, <2>2, ContextNone
  <2> QED BY <1>3, <1>5, <2>2, <2>3, Zenon
<1> QED BY <1>4, <1>5

\* A separator is printed in context mode only.
LEMMA SeparatorPrints ==
  ASSUME NEW conf, NEW b
  PROVE  (IF b THEN print_context_separator(conf) ELSE <<>>)
           = LineOrNone(conf.context_mode /\ b, Separator)
<1>1. CASE b
  <2>1. CASE conf.context_mode
    BY <1>1, <2>1, Zenon DEF print_context_separator, LineOrNone
  <2>2. CASE ~conf.context_mode
    BY <1>1, <2>2, Zenon DEF print_context_separator, LineOrNone
  <2> QED BY <2>1, <2>2
<1>2. CASE ~b
  BY <1>2, Zenon DEF LineOrNone
<1> QED BY <1>1, <1>2

\* What is printed between two matched lines.
PrintsGap(t, conf, m1, m2, j, L, r, b) ==
  print_context_between(t, conf, m1, m2)
    = (ContextLines(t, j + 1, r)
       \o LineOrNone(conf.context_mode /\ L - 1 - b > r, Separator))
      \o ContextLines(t, L - b, L - 1)
LEMMA GapPrints ==
  ASSUME NEW t, NEW conf, NEW m1, NEW m2, NEW j, NEW L, NEW r, NEW b,
         t \in Texts, conf \in OptionType,
         OnLine(t, m1, j), OnLine(t, m2, L), j < L,
         r = j + Follow(conf, j, L), b = Lead(conf, r, L)
  PROVE  PrintsGap(t, conf, m1, m2, j, L, r, b)
<1> DEFINE C1 == ContextLines(t, j + 1, r)
           C2 == ContextLines(t, L - b, L - 1)
           s == LineOrNone(conf.context_mode /\ L - 1 - b > r, Separator)
           r2 == j + Trailing(conf, j, L)
           b2 == Leading(conf, j, L)
<1>1. conf.context_after \in Nat /\ conf.context_before \in Nat
  BY DEF OptionType
<1>2. j \in Nat /\ 1 <= j /\ L \in Nat /\ 1 <= L
  BY EndsOfLine
<1>3. print_context_between(t, conf, m1, m2)
        = IF ~conf.context_mode THEN <<>>
          ELSE ContextLines(t, j + 1, r2)
               \o (IF L - 1 - b2 > r2 THEN print_context_separator(conf) ELSE <<>>)
               \o ContextLines(t, L - b2, L - 1)
  <2>1. PrintsBetween(t, conf, m1, m2, j, L)
    BY <1>1, BetweenPrints, Zenon
  <2> QED BY <2>1, Zenon DEF PrintsBetween
<1>4. CASE conf.context_mode
  <2>1. ContextAfter(conf) = conf.context_after /\ ContextBefore(conf) = conf.context_before
    BY <1>4 DEF ContextAfter, ContextBefore
  <2>2. r2 = r
    BY <2>1, Zenon DEF Trailing, Follow
  <2>3. b2 = b
    <3>1. b2 = Lesser(conf.context_before, L - 1 - r2)
      BY Zenon DEF Leading
    <3> QED BY <2>1, <2>2, <3>1, Zenon DEF Lead
  <2> DEFINE far == L - 1 - b > r
  <2>4. (IF far THEN print_context_separator(conf) ELSE <<>>) = s
    BY SeparatorPrints
  <2> HIDE DEF s, r2, b2
  <2>5. print_context_between(t, conf, m1, m2)
          = C1 \o (IF far THEN print_context_separator(conf) ELSE <<>>) \o C2
    BY <1>3, <1>4, <2>2, <2>3, Zenon
  <2> QED BY <2>4, <2>5, Zenon DEF PrintsGap, s
<1>5. CASE ~conf.context_mode
  <2>1. ContextAfter(conf) = 0 /\ ContextBefore(conf) = 0
    BY <1>5 DEF ContextAfter, ContextBefore
  <2>2. r = j /\ j + 1 \in Nat /\ j < j + 1
    BY <1>2, <2>1 DEF Follow, Lesser
  <2>3. L - b = L /\ L - 1 \in Nat /\ L - 1 < L
    BY <1>2, <2>1, <2>2 DEF Lead, Lesser
  <2>4. ContextLines(t, j + 1, j) = <<>>
    BY <1>2, <2>2, ContextNone
  <2>5. ContextLines(t, L, L - 1) = <<>>
    BY <1>2, <2>3, ContextNone
  <2>6. C1 = <<>> /\ C2 = <<>>
    BY <2>2, <2>3, <2>4, <2>5, Zenon
  <2>7. s = <<>>
    BY <1>5, Zenon DEF LineOrNone
  <2>8. (<<>> \o <<>>) \o <<>> = <<>>
    OBVIOUS
  <2>9. (C1 \o s) \o C2 = <<>>
    <3> HIDE DEF s, C1, C2
    <3> QED BY <2>6, <2>7, <2>8, Zenon
  <2> QED BY <1>3, <1>5, <2>9, Zenon DEF PrintsGap
<1> QED BY <1>4, <1>5
-----------------------------------------------------------------------------
(* What has been printed when the loop has seen the matches on the lines M.  *)

GrepMode == NormalOutput /\ ~opts.only_matching

Sofar(t, conf, p, st, M, mx) ==
  /\ Given(t, conf, M)
  /\ M = {} => mx = 0 /\ st.last_line = <<>>
  /\ M # {} => IsLast(M, mx) /\ Grouped(t, st.last_line, mx)
  /\ st.out = GrepUpTo(t, conf, p, M, mx)

\* The first and the last match of a group lie on its line.
LEMMA GroupEnds ==
  ASSUME NEW t, NEW group, NEW k, t \in Texts, Grouped(t, group, k)
  PROVE  /\ OnLine(t, Head(group), k) /\ OnLine(t, Last(group), k) /\ group # <<>>
         /\ group \in Seq(Match) /\ k \in Nat /\ 1 <= k /\ k <= NumLines(t)
<1>1. group \in Seq(Match) /\ group # <<>>
  BY DEF Grouped
<1>2. /\ Len(group) \in Nat /\ 1 \in 1..Len(group) /\ Len(group) \in 1..Len(group)
      /\ Head(group) = group[1] /\ Last(group) = group[Len(group)]
  BY <1>1, EmptySeq DEF Last
<1>3. OnLine(t, group[1], k) /\ OnLine(t, group[Len(group)], k)
  BY <1>2, Zenon DEF Grouped
<1>4. OnLine(t, Head(group), k) /\ OnLine(t, Last(group), k)
  BY <1>2, <1>3, Zenon
<1>5. k \in Nat /\ 1 <= k /\ k <= NumLines(t)
  BY <1>4, EndsOfLine
<1> QED BY <1>1, <1>4, <1>5

LEMMA PiecesType ==
  ASSUME NEW t, NEW b, t \in Texts
  PROVE  LineOrNone(b, Separator) \in Seq(PageLines(t))
<1> DEFINE P == PageLines(t)
<1>1. Separator \in P
  <2>1. <<>> \in Seq(Inside(t)) /\ "separator" \in LineKinds
    BY DEF LineKinds
  <2> QED BY <2>1, LineInside DEF Separator
<1> HIDE DEF P
<1>2. LineOrNone(b, Separator) \in Seq(P)
  BY <1>1 DEF LineOrNone
<1> QED BY <1>2 DEF P

\* A group of matches behind the ones so far adds its line.
LEMMA FlushPrints ==
  ASSUME text \in Texts, opts \in OptionType, GrepMode,
         NEW st, NEW M, NEW mx, NEW L, Sofar(text, opts, previous_matches, st, M, mx),
         Grouped(text, st.current, L), mx < L
  PROVE  /\ Sofar(text, opts, previous_matches, flush_line_matches(st), M \cup {L}, L)
         /\ flush_line_matches(st).last_line = st.current
<1> DEFINE fl == flush_line_matches(st)
           P == PageLines(text)
           first == Head(st.current)
           last == Last(st.last_line)
           N == NumLines(text)
           lead == LeadingContext(st)
           x == <<Matched(text, L)>>
           U(S, n) == GrepUpTo(text, opts, previous_matches, S, n)
<1>1. /\ OnLine(text, first, L) /\ st.current # <<>> /\ L \in Nat /\ 1 <= L /\ L <= N
  BY GroupEnds
<1>2. Given(text, opts, M) /\ st.out = U(M, mx)
  BY DEF Sofar
<1>3. N \in Nat /\ L \in 1..N
  <2>1. N \in Nat
    BY LineCounts
  <2> HIDE DEF N
  <2>2. L \in 1..N
    BY <1>1, <2>1 DEF N
  <2> QED BY <2>1, <2>2
<1>4. fl = [current |-> <<>>, last_line |-> st.current, out |-> (st.out \o lead) \o x]
  <2>1. ~NoLineOutput
    BY DEF GrepMode, NormalOutput, NoLineOutput
  <2>2. MatchedText(st) = <<print_matches(text, st.current)>>
    BY DEF GrepMode, MatchedText
  <2>3. print_matches(text, st.current) = Matched(text, L)
    BY MatchPrints
  <2>4. MatchedText(st) = x
    BY <2>2, <2>3, Zenon
  <2> QED BY <1>1, <2>1, <2>4, Zenon DEF flush_line_matches
<1>5. fl.last_line = st.current /\ fl.out = (st.out \o lead) \o x
  <2> HIDE DEF fl, lead, x
  <2> QED BY <1>4
<1> HIDE DEF fl
<1>6. Given(text, opts, M \cup {L})
  BY <1>2, <1>3 DEF Given
<1>7. IsLast(M \cup {L}, L)
  <2>1. ASSUME NEW m \in M PROVE m <= L
    <3>1. IsLast(M, mx)
      BY <2>1 DEF Sofar
    <3>2. m \in Nat /\ mx \in Nat /\ m <= mx
      BY <1>2, <1>3, <3>1 DEF Given, IsLast
    <3> QED BY <1>1, <3>2
  <2> QED BY <1>1, <2>1 DEF IsLast
<1>8. fl.out = U(M \cup {L}, L)
  <2>1. CASE M = {}
    <3> DEFINE b == Lead(opts, 0, L)
               c == ContextLines(text, L - b, L - 1)
               s == LineOrNone(opts.context_mode /\ previous_matches, Separator)
    <3>1. M \cup {L} = {L} /\ st.last_line = <<>> /\ mx = 0
      BY <2>1 DEF Sofar
    <3>2. st.out = <<>>
      BY <1>2, <2>1, <3>1, NoLines
    <3>3. lead = s \o c
      <4>1. lead = (IF previous_matches THEN print_context_separator(opts) ELSE <<>>)
                   \o print_context_before(text, opts, first, opts.context_before)
        BY <3>1, Zenon DEF LeadingContext
      <4>2. print_context_before(text, opts, first, opts.context_before) = c
        BY <1>1, LeadPrints
      <4>3. (IF previous_matches THEN print_context_separator(opts) ELSE <<>>) = s
        BY SeparatorPrints
      <4> HIDE DEF lead, c, s
      <4> QED BY <4>1, <4>2, <4>3, Zenon
    <3>4. lead \in Seq(P)
      <4>1. s \in Seq(P)
        BY PiecesType
      <4>2. LinesIn(text, L - b, L - 1)
        <5>1. ContextBefore(opts) \in Nat
          BY <1>2, GivenTypes
        <5>2. b \in Nat /\ b <= L - 1
          BY <1>1, <5>1 DEF Lead, Lesser
        <5> HIDE DEF b, N
        <5>3. /\ L - b \in Nat /\ L - 1 \in Nat /\ 1 <= L - b /\ L - b <= L - 1 + 1 /\ L - 1 <= N
          BY <1>1, <1>3, <5>2
        <5> QED BY <5>3 DEF LinesIn, N
      <4>3. c \in Seq(P)
        BY <4>2, ContextType
      <4> HIDE DEF lead, c, s, P
      <4> QED BY <3>3, <4>1, <4>3, Joining, Zenon
    <3>5. <<>> \o lead = lead
      <4> HIDE DEF lead, P
      <4> QED BY <3>4, Joining, Zenon
    <3>6. AddsFirst(text, opts, previous_matches, b, L)
      BY <1>6, <3>1, FirstLine
    <3>7. U({L}, L) = (s \o c) \o x
      BY <3>6, Zenon DEF AddsFirst
    <3> HIDE DEF lead, c, s, x, U
    <3> QED BY <1>5, <3>1, <3>2, <3>3, <3>5, <3>7, Zenon
  <2>2. CASE M # {}
    <3> DEFINE r == mx + Follow(opts, mx, L)
               b == Lead(opts, r, L)
               c1 == ContextLines(text, mx + 1, r)
               c2 == ContextLines(text, L - b, L - 1)
               s == LineOrNone(opts.context_mode /\ L - 1 - b > r, Separator)
    <3>1. IsLast(M, mx) /\ Grouped(text, st.last_line, mx)
      BY <2>2 DEF Sofar
    <3>2. OnLine(text, last, mx) /\ st.last_line # <<>> /\ mx \in Nat /\ 1 <= mx /\ mx <= N
      BY <3>1, GroupEnds
    <3>3. lead = (c1 \o s) \o c2
      <4>1. lead = print_context_between(text, opts, last, first)
        BY <3>2, Zenon DEF LeadingContext
      <4>2. print_context_between(text, opts, last, first) = (c1 \o s) \o c2
        <5>1. PrintsGap(text, opts, last, first, mx, L, r, b)
          <6> HIDE DEF first, last
          <6> QED BY <1>1, <3>2, GapPrints, Zenon
        <5> QED BY <5>1, Zenon DEF PrintsGap
      <4> HIDE DEF lead, c1, c2, s
      <4> QED BY <4>1, <4>2, Zenon
    <3>4. c1 \in Seq(P) /\ c2 \in Seq(P) /\ s \in Seq(P) /\ st.out \in Seq(P)
      <4>1. ContextBefore(opts) \in Nat /\ ContextAfter(opts) \in Nat
        BY <1>2, GivenTypes
      <4>2. r \in Nat /\ mx <= r /\ r <= L - 1
        BY <1>1, <3>2, <4>1 DEF Follow, Lesser
      <4>3. b \in Nat /\ b <= L - 1 - r
        <5> HIDE DEF r
        <5> QED BY <1>1, <4>1, <4>2 DEF Lead, Lesser
      <4> HIDE DEF r, b
      <4>4. LinesIn(text, mx + 1, r) /\ LinesIn(text, L - b, L - 1)
        BY <1>1, <1>3, <3>2, <4>2, <4>3 DEF LinesIn
      <4>5. c1 \in Seq(P) /\ c2 \in Seq(P)
        BY <4>4, ContextType
      <4>6. s \in Seq(P)
        BY PiecesType
      <4>7. st.out \in Seq(P)
        <5>1. mx \in 0..NumLines(text)
          BY <3>2
        <5> QED BY <1>2, <5>1, UpToType
      <4> QED BY <4>5, <4>6, <4>7
    <3>5. AddsLine(text, opts, previous_matches, M, r, mx, b, L)
      <4>1. L \in 1..NumLines(text)
        BY <1>3
      <4> HIDE DEF U
      <4> QED BY <1>2, <3>1, <4>1, NextLine
    <3>6. U(M \cup {L}, L) = (((U(M, mx) \o c1) \o s) \o c2) \o x
      BY <3>5, Zenon DEF AddsLine
    <3> DEFINE before == st.out
    <3> HIDE DEF lead, c1, c2, s, x, U, P, before
    <3>7. AllRegrouped(before, c1, s, c2, x)
      <4>1. before \in Seq(P)
        BY <3>4 DEF before
      <4> QED BY <3>4, <4>1, RegroupFour, Zenon
    <3>8. fl.out = (before \o ((c1 \o s) \o c2)) \o x
      BY <1>5, <3>3, Zenon DEF before
    <3>9. before = U(M, mx)
      BY <1>2 DEF before
    <3> QED BY <3>6, <3>7, <3>8, <3>9, Zenon DEF AllRegrouped
  <2> QED BY <2>1, <2>2
<1>9. Grouped(text, fl.last_line, L)
  BY <1>5, Zenon
<1> QED BY <1>5, <1>6, <1>7, <1>8, <1>9, Zenon DEF Sofar, fl

-----------------------------------------------------------------------------
(* The loop of search_page: how the groups follow the lines.                 *)

\* The next match is on the line of the current group, or further down the page.
LEMMA NextOnLine ==
  ASSUME text \in Texts, NEW st, NEW m, NEW L, NEW k, Grouped(text, st.current, L),
         OnLine(text, m, k), Last(st.current).end <= m.start
  PROVE  (SameLineAs(st, m) <=> k = L) /\ L <= k
<1> DEFINE last == Last(st.current)
           e == last.end
           q == Find(text, e)
           N == NumLines(text)
           s == m.start
<1>1. OnLine(text, last, L)
  BY GroupEnds
<1>2. /\ e \in Nat /\ LineOf(text, e) = L /\ L \in Nat /\ 1 <= L /\ L <= N
      /\ q = IF L = N THEN Npos(text) ELSE LineEnd(text, L)
  <2> HIDE DEF last
  <2> QED BY <1>1, EndsOfLine
<1>3. s \in Nat /\ s \notin text.newlines /\ k \in Nat /\ k <= N /\ LineOf(text, s) = k
  BY EndsOfLine DEF OnLine
<1>4. N \in Nat
  BY LineCounts
<1>5. SameLineAs(st, m) <=> q = Npos(text) \/ q > s
  BY DEF SameLineAs
<1>6. e <= s
  OBVIOUS
<1> HIDE DEF e, q, s, N
<1>7. L <= k
  BY <1>2, <1>3, <1>6, LineOfMonotonic
<1>8. CASE L = N
  BY <1>2, <1>3, <1>4, <1>5, <1>7, <1>8
<1>9. CASE L # N
  <2>1. q \in text.newlines /\ LineOf(text, q) = L
    BY <1>2, <1>4, <1>9, LineEndType DEF N
  <2>2. q \in Nat /\ q # Npos(text)
    BY <2>1, TextType
  <2>3. q # s
    BY <1>3, <2>1
  <2>4. ASSUME q > s PROVE k = L
    <3>1. LineOf(text, s) <= LineOf(text, q)
      BY <1>3, <2>2, <2>4, LineOfMonotonic
    <3> QED BY <1>2, <1>3, <1>7, <2>1, <3>1
  <2>5. ASSUME ~(q > s) PROVE k # L
    <3>1. q < s
      BY <1>3, <2>2, <2>3, <2>5
    <3>2. LineOf(text, q) < LineOf(text, s)
      BY <1>3, <2>1, <3>1, LineOfNewline
    <3> QED BY <1>2, <1>3, <2>1, <3>2
  <2> QED BY <1>5, <1>7, <2>2, <2>4, <2>5
<1> QED BY <1>8, <1>9

\* A match behind the others of its line extends their group.
EndsWith(t, group, m, k) == Grouped(t, group, k) /\ Last(group) = m
LEMMA GroupGrows ==
  ASSUME NEW t, NEW group, NEW m, NEW k, t \in Texts, OnLine(t, m, k),
         group = <<>> \/ (Grouped(t, group, k) /\ Last(group).end <= m.start)
  PROVE  EndsWith(t, Append(group, m), m, k)
<1> DEFINE r == Append(group, m)
           n == Len(group)
<1>1. m \in Match
  BY DEF OnLine, Proper
<1>2. group \in Seq(Match)
  <2>1. CASE group = <<>>
    <3>1. <<>> \in Seq(Match)
      BY NothingOnly
    <3> QED BY <2>1, <3>1, Zenon
  <2>2. CASE Grouped(t, group, k)
    BY <2>2, Zenon DEF Grouped
  <2> QED BY <2>1, <2>2
<1>3. /\ r \in Seq(Match) /\ r # <<>> /\ n \in Nat /\ Len(r) = n + 1 /\ r[n + 1] = m
      /\ \A i \in 1..n : r[i] = group[i]
  <2> DEFINE T == Match
  <2> HIDE DEF T
  <2>1. m \in T /\ group \in Seq(T)
    BY <1>1, <1>2 DEF T
  <2>2. r \in Seq(T) /\ n \in Nat /\ Len(r) = n + 1 /\ r[n + 1] = m
    BY <2>1
  <2>3. r # <<>>
    BY <2>1
  <2>4. \A i \in 1..n : r[i] = group[i]
    BY <2>1
  <2> QED BY <2>2, <2>3, <2>4 DEF T
<1>4. Last(r) = m
  BY <1>3 DEF Last
<1>5. n > 0 => Grouped(t, group, k) /\ group[n].end <= m.start
  BY <1>2 DEF Last
<1> HIDE DEF r, n
<1>6. ASSUME NEW i \in 1..Len(r) PROVE OnLine(t, r[i], k) /\ (i > 1 => r[i - 1].end <= r[i].start)
  <2>1. CASE i = n + 1
    <3>1. r[i] = m
      BY <1>3, <2>1
    <3>2. ASSUME i > 1 PROVE r[i - 1].end <= r[i].start
      <4>1. n \in 1..n /\ i - 1 = n /\ n > 0
        BY <1>3, <2>1, <3>2
      <4>2. r[i - 1] = group[n]
        BY <1>3, <4>1
      <4> QED BY <1>5, <3>1, <4>1, <4>2
    <3> QED BY <3>1, <3>2
  <2>2. CASE i # n + 1
    <3>1. i \in 1..n /\ n > 0 /\ (i > 1 => i - 1 \in 1..n)
      BY <1>3, <2>2
    <3>2. OnLine(t, group[i], k) /\ (i > 1 => group[i - 1].end <= group[i].start)
      BY <1>5, <3>1 DEF Grouped, n
    <3> QED BY <1>3, <3>1, <3>2
  <2> QED BY <2>1, <2>2
<1>7. Grouped(t, r, k)
  BY <1>3, <1>6 DEF Grouped
<1> QED BY <1>4, <1>7, Zenon DEF EndsWith, r

\* What the loop keeps: S are the lines of the matches so far, ix the offset.
Printing(t, conf, p, st, S, ix) ==
  \E M, mx :
    /\ Sofar(t, conf, p, st, M, mx)
    /\ st.current = <<>> => M = {} /\ S = {}
    /\ st.current # <<>> =>
         \E L : /\ Grouped(t, st.current, L) /\ mx < L /\ S = M \cup {L}
                /\ Last(st.current).end <= ix

\* handle_match keeps what the loop keeps, for one more match.
LEMMA HandlePrints ==
  ASSUME text \in Texts, opts \in OptionType, GrepMode,
         NEW st, NEW S, NEW ix, NEW m, NEW k, NEW ix2,
         Printing(text, opts, previous_matches, st, S, ix), ix \in Nat,
         OnLine(text, m, k), ix <= m.start, m.end <= ix2
  PROVE  Printing(text, opts, previous_matches, handle_match(st, m), S \cup {k}, ix2)
<1> DEFINE h == handle_match(st, m)
           p == previous_matches
<1>1. PICK M, mx :
        /\ Sofar(text, opts, p, st, M, mx)
        /\ st.current = <<>> => M = {} /\ S = {}
        /\ st.current # <<>> =>
             \E L : /\ Grouped(text, st.current, L) /\ mx < L /\ S = M \cup {L}
                    /\ Last(st.current).end <= ix
  BY Zenon DEF Printing
<1>2. m.start \in Nat /\ m.end \in Nat /\ k \in Nat /\ 1 <= k
  BY EndsOfLine
<1>3. CASE st.current = <<>>
  <2>1. h = [current |-> Append(st.current, m), last_line |-> st.last_line, out |-> st.out]
    BY <1>3 DEF handle_match
  <2> HIDE DEF h
  <2>2. h.current = Append(st.current, m) /\ h.last_line = st.last_line /\ h.out = st.out
    BY <2>1
  <2>3. Grouped(text, h.current, k) /\ Last(h.current) = m
    <3>1. EndsWith(text, Append(st.current, m), m, k)
      BY <1>3, GroupGrows, Zenon
    <3> QED BY <2>2, <3>1, Zenon DEF EndsWith
  <2>4. M = {} /\ S = {} /\ mx = 0
    BY <1>1, <1>3 DEF Sofar
  <2>5. Sofar(text, opts, p, h, M, mx)
    BY <1>1, <2>2, Zenon DEF Sofar
  <2>6. h.current # <<>>
    BY <2>3 DEF Grouped
  <2>7. mx < k /\ S \cup {k} = M \cup {k} /\ Last(h.current).end <= ix2
    BY <1>2, <2>3, <2>4
  <2> QED BY <2>3, <2>5, <2>6, <2>7, Zenon DEF Printing, h
<1>4. CASE st.current # <<>>
  <2>1. PICK L : /\ Grouped(text, st.current, L) /\ mx < L /\ S = M \cup {L}
                 /\ Last(st.current).end <= ix
    BY <1>1, <1>4, Zenon
  <2>2. Last(st.current).end \in Nat /\ L \in Nat
    <3>1. OnLine(text, Last(st.current), L)
      BY <2>1, GroupEnds
    <3> QED BY <3>1, EndsOfLine
  <2>3. Last(st.current).end <= m.start
    BY <1>2, <2>1, <2>2
  <2>4. (SameLineAs(st, m) <=> k = L) /\ L <= k
    BY <2>1, <2>3, NextOnLine
  <2>5. CASE k = L
    <3>1. h = [current |-> Append(st.current, m), last_line |-> st.last_line, out |-> st.out]
      BY <2>4, <2>5 DEF handle_match
    <3> HIDE DEF h
    <3>2. h.current = Append(st.current, m) /\ h.last_line = st.last_line /\ h.out = st.out
      BY <3>1
    <3>3. Grouped(text, h.current, k) /\ Last(h.current) = m
      <4>1. EndsWith(text, Append(st.current, m), m, k)
        BY <2>1, <2>3, <2>5, GroupGrows, Zenon
      <4> QED BY <3>2, <4>1, Zenon DEF EndsWith
    <3>4. Sofar(text, opts, p, h, M, mx)
      BY <1>1, <3>2, Zenon DEF Sofar
    <3>5. h.current # <<>>
      BY <3>3 DEF Grouped
    <3>6. mx < k /\ S \cup {k} = M \cup {k} /\ Last(h.current).end <= ix2
      BY <2>1, <2>5, <3>3
    <3> QED BY <3>3, <3>4, <3>5, <3>6, Zenon DEF Printing, h
  <2>6. CASE k # L
    <3> DEFINE fl == flush_line_matches(st)
    <3>1. h = [current |-> Append(fl.current, m), last_line |-> fl.last_line, out |-> fl.out]
      BY <1>4, <2>4, <2>6, Zenon DEF handle_match
    <3>2. Sofar(text, opts, p, fl, M \cup {L}, L)
      BY <1>1, <2>1, FlushPrints
    <3>3. fl.current = <<>>
      BY DEF flush_line_matches
    <3> HIDE DEF h, fl
    <3>4. h.current = Append(fl.current, m) /\ h.last_line = fl.last_line /\ h.out = fl.out
      BY <3>1
    <3>5. Grouped(text, h.current, k) /\ Last(h.current) = m
      <4>1. EndsWith(text, Append(fl.current, m), m, k)
        BY <3>3, GroupGrows, Zenon
      <4> QED BY <3>4, <4>1, Zenon DEF EndsWith
    <3>6. Sofar(text, opts, p, h, M \cup {L}, L)
      BY <3>2, <3>4, Zenon DEF Sofar
    <3>7. h.current # <<>>
      BY <3>5 DEF Grouped
    <3>8. L < k /\ S \cup {k} = (M \cup {L}) \cup {k} /\ Last(h.current).end <= ix2
      BY <1>2, <2>1, <2>2, <2>4, <2>6, <3>5
    <3> QED BY <3>5, <3>6, <3>7, <3>8, Zenon DEF Printing, h
  <2> QED BY <2>5, <2>6
<1> QED BY <1>3, <1>4

\* The last flush and the context behind it complete the page.
Printed(st, S) ==
  st.out = GrepUpTo(text, opts, previous_matches, S, NumLines(text))
LEMMA FinishPrints ==
  ASSUME text \in Texts, opts \in OptionType, GrepMode, NEW st, NEW S, NEW ix,
         Printing(text, opts, previous_matches, st, S, ix)
  PROVE  Printed(finish(st), S)
<1> DEFINE fl == flush_line_matches(st)
           p == previous_matches
           N == NumLines(text)
<1>1. PICK M, mx :
        /\ Sofar(text, opts, p, st, M, mx)
        /\ st.current = <<>> => M = {} /\ S = {}
        /\ st.current # <<>> =>
             \E L : /\ Grouped(text, st.current, L) /\ mx < L /\ S = M \cup {L}
                    /\ Last(st.current).end <= ix
  BY Zenon DEF Printing
<1>2. CASE st.current = <<>>
  <2>1. fl = [current |-> <<>>, last_line |-> <<>>, out |-> st.out]
    BY <1>2 DEF flush_line_matches
  <2>2. fl.last_line = <<>> /\ fl.out = st.out
    BY <2>1
  <2>3. finish(st) = fl
    BY <2>2, Zenon DEF finish
  <2>4. M = {} /\ S = {} /\ mx = 0
    BY <1>1, <1>2 DEF Sofar
  <2>5. st.out = GrepUpTo(text, opts, p, {}, 0) /\ Given(text, opts, {})
    BY <1>1, <2>4 DEF Sofar
  <2>6. st.out = GrepUpTo(text, opts, p, {}, N)
    BY <2>5, NoLines
  <2> HIDE DEF fl
  <2> QED BY <2>2, <2>3, <2>4, <2>6 DEF Printed
<1>3. CASE st.current # <<>>
  <2>1. PICK L : Grouped(text, st.current, L) /\ mx < L /\ S = M \cup {L}
    BY <1>1, <1>3, Zenon
  <2> DEFINE last == Last(st.current)
             more == print_context_after(text, opts, last, opts.context_after)
             e == L + Lesser(ContextAfter(opts), N - L)
             before == fl.out
  <2>2. Sofar(text, opts, p, fl, S, L) /\ fl.last_line = st.current
    BY <1>1, <2>1, FlushPrints
  <2>3. OnLine(text, last, L)
    BY <2>1, GroupEnds
  <2>4. ~opts.count /\ ~opts.pagecount
    BY DEF GrepMode, NormalOutput
  <2>5. finish(st) = [fl EXCEPT !.out = fl.out \o more]
    BY <1>3, <2>2, <2>4, Zenon DEF finish
  <2>6. fl = [current |-> fl.current, last_line |-> fl.last_line, out |-> fl.out]
    BY DEF flush_line_matches
  <2>7. finish(st).out = before \o more
    <3> HIDE DEF fl, more
    <3> QED BY <2>5, <2>6
  <2>8. more = ContextLines(text, L + 1, e)
    BY <2>3, RestPrints
  <2>9. Given(text, opts, S) /\ IsLast(S, L) /\ before = GrepUpTo(text, opts, p, S, L)
    <3>1. S # {}
      BY <2>1
    <3> HIDE DEF fl
    <3> QED BY <2>2, <3>1, Zenon DEF Sofar
  <2>10. AddsRest(text, opts, p, S, L, e)
    BY <2>9, LastLines
  <2> HIDE DEF before, more
  <2> QED BY <2>7, <2>8, <2>9, <2>10, Zenon DEF AddsRest, Printed
<1> QED BY <1>2, <1>3

-----------------------------------------------------------------------------
(* search_page prints the page as grep does.                                 *)

\* The reference of the model is the reference of the lemmas.
LEMMA ReferenceIs ==
  GrepOutput = GrepUpTo(text, opts, previous_matches, MatchedLines, NumLines(text))
<1> DEFINE N == NumLines(text)
           p == previous_matches
           g == GrepAll(text, opts, p, MatchedLines)
<1>1. Before = ContextBefore(opts) /\ After = ContextAfter(opts)
  BY Zenon DEF Before, After, ContextBefore, ContextAfter
<1>2. Shown = Around(text, opts, MatchedLines)
  BY <1>1, Zenon DEF Shown, Around
<1>3. \A k : GrepLine(k) = GrepFor(text, opts, p, MatchedLines, k)
  BY <1>2, Zenon DEF GrepLine, GrepFor, Opens
<1>4. \A k \in 1..N : g[k] = GrepFor(text, opts, p, MatchedLines, k)
  BY Zenon DEF GrepAll
<1>5. [k \in 1..N |-> GrepLine(k)] = [k \in 1..N |-> g[k]]
  <2> HIDE DEF g
  <2> QED BY <1>3, <1>4, Zenon
<1> QED BY <1>5, Zenon DEF GrepOutput, GrepUpTo, Joined

\* One more match adds its line to the matched lines.
LEMMA MatchedLinesGrow ==
  ASSUME NEW m \in Match, found \in Seq(Match), found' = Append(found, m), text' = text
  PROVE  /\ MatchedLines' = MatchedLines \cup {LineOf(text, m.start)}
         /\ InsideLines' => InsideLines /\ KindOf(text, m) = "inline"
<1> DEFINE n == Len(found)
<1>1. /\ n \in Nat /\ Len(found') = n + 1 /\ found'[n + 1] = m
      /\ \A i \in 1..n : found'[i] = found[i]
      /\ DOMAIN found = 1..n /\ DOMAIN found' = 1..(n + 1)
  BY SMT
<1> HIDE DEF n
<1>2. MatchedLines' = {LineOf(text, found'[i].start) : i \in 1..(n + 1)}
  BY <1>1 DEF MatchedLines
<1>3. MatchedLines = {LineOf(text, found[i].start) : i \in 1..n}
  BY DEF MatchedLines, n
<1>4. \A i : i \in 1..(n + 1) <=> i \in 1..n \/ i = n + 1
  BY <1>1
<1>5. MatchedLines' = MatchedLines \cup {LineOf(text, m.start)}
  BY <1>1, <1>2, <1>3, <1>4
<1>6. ASSUME InsideLines' PROVE InsideLines /\ KindOf(text, m) = "inline"
  <2>1. \A i \in 1..(n + 1) : KindOf(text, found'[i]) = "inline"
    BY <1>1, <1>6 DEF InsideLines
  <2>2. \A i \in 1..n : KindOf(text, found[i]) = "inline"
    BY <1>1, <1>4, <2>1
  <2>3. KindOf(text, m) = "inline"
    BY <1>1, <1>4, <2>1
  <2> QED BY <1>1, <2>2, <2>3 DEF InsideLines
<1> QED BY <1>5, <1>6

\* What has been printed and the current group stand for the lines of the matches so far.
LinesInv ==
  GrepMode /\ InsideLines =>
    /\ pc = "exec" => Printing(text, opts, previous_matches, lines, MatchedLines, index)
    /\ pc = "done" => Printed(lines, MatchedLines)

\* The loop starts with nothing printed and nothing matched.
LEMMA LinesStart == Init => LinesInv
<1> SUFFICES ASSUME Init
             PROVE  Printing(text, opts, previous_matches, lines, MatchedLines, index)
  BY DEF Init, LinesInv
<1>1. lines.current = <<>> /\ lines.last_line = <<>> /\ lines.out = <<>>
  BY DEF Init
<1>2. MatchedLines = {}
  BY DEF Init, MatchedLines
<1>3. Given(text, opts, {})
  BY OptionsAssumption DEF Init, Given
<1>4. GrepUpTo(text, opts, previous_matches, {}, 0) = <<>>
  BY <1>3, NoLines
<1>5. Sofar(text, opts, previous_matches, lines, {}, 0)
  BY <1>1, <1>3, <1>4, Zenon DEF Sofar
<1> QED BY <1>1, <1>2, <1>5, Zenon DEF Printing

\* Every step of search_page keeps it.
LEMMA LinesStep == TypeOK /\ LinesInv /\ [Next]_vars => LinesInv'
<1> SUFFICES ASSUME TypeOK, LinesInv, [Next]_vars, GrepMode', InsideLines'
             PROVE  (/\ pc = "exec" => Printing(text, opts, previous_matches, lines,
                                                MatchedLines, index)
                     /\ pc = "done" => Printed(lines, MatchedLines))'
  BY DEF LinesInv
<1> DEFINE p == previous_matches
<1>1. text' = text /\ opts' = opts /\ previous_matches' = previous_matches
  BY DEF Next, Returned, NoMatch, MatchDecides, LastMatch, OneMatch, Counted, vars
<1>2. GrepMode
  BY <1>1 DEF GrepMode, NormalOutput
<1>3. /\ text \in Texts /\ opts \in OptionType /\ index \in Nat /\ found \in Seq(Match)
      /\ text.size \in Nat
  BY OptionsAssumption, TextType DEF TypeOK
<1>4. ASSUME NEW S, MatchedLines' = S,
             pc' = "exec" => Printing(text, opts, p, lines', S, index'),
             pc' = "done" => Printed(lines', S)
      PROVE  (/\ pc = "exec" => Printing(text, opts, previous_matches, lines,
                                         MatchedLines, index)
              /\ pc = "done" => Printed(lines, MatchedLines))'
  BY <1>1, <1>4 DEF Printed
<1>5. CASE NoMatch
  <2>1. /\ pc = "exec" /\ pc' = "done" /\ lines' = finish(lines) /\ found' = found
    BY <1>5 DEF NoMatch
  <2>2. InsideLines /\ MatchedLines' = MatchedLines
    BY <1>1, <2>1 DEF InsideLines, MatchedLines
  <2>3. Printing(text, opts, p, lines, MatchedLines, index)
    BY <1>2, <2>1, <2>2 DEF LinesInv
  <2>4. Printed(finish(lines), MatchedLines)
    BY <1>2, <1>3, <2>3, FinishPrints
  <2> QED BY <1>4, <2>1, <2>2, <2>4
<1>6. ASSUME NEW m \in Matches(text, index), MatchDecides(m) PROVE FALSE
  BY <1>2, <1>6 DEF MatchDecides, FirstMatchSuffices, GrepMode, NormalOutput
<1>7. ASSUME NEW m \in Matches(text, index), LastMatch(m) \/ OneMatch(m)
      PROVE  (/\ pc = "exec" => Printing(text, opts, previous_matches, lines,
                                         MatchedLines, index)
              /\ pc = "done" => Printed(lines, MatchedLines))'
  <2> DEFINE k == LineOf(text, m.start)
             S == MatchedLines \cup {k}
             h == handle_match(lines, m)
  <2>1. m \in Match /\ index <= m.start /\ m.start <= m.end /\ m.end \in Nat
    BY MatchType DEF Match
  <2>2. m \in Proper(text)
    <3>1. m.end \in index..text.size
      BY DEF Matches
    <3>2. m.end <= text.size
      BY <1>3, <3>1
    <3> QED BY <2>1, <3>2 DEF Proper
  <2>3. /\ pc = "exec" /\ found' = Append(found, m)
        /\ \/ lines' = h /\ pc' = "exec" /\ index' = NextIndex(m)
           \/ lines' = finish(h) /\ pc' = "done"
    BY <1>7 DEF LastMatch, OneMatch, Counted
  <2>4. MatchedLines' = S /\ InsideLines /\ KindOf(text, m) = "inline"
    BY <1>1, <1>3, <2>1, <2>3, MatchedLinesGrow
  <2>5. OnLine(text, m, k)
    BY <2>2, <2>4 DEF OnLine
  <2>6. Printing(text, opts, p, lines, MatchedLines, index)
    BY <1>2, <2>3, <2>4 DEF LinesInv
  <2> HIDE DEF k, S, h
  <2>7. m.end <= NextIndex(m)
    BY <2>1 DEF NextIndex
  <2>8. Printing(text, opts, p, h, S, NextIndex(m))
    BY <1>2, <1>3, <2>1, <2>5, <2>6, <2>7, HandlePrints DEF S, h
  <2>9. Printed(finish(h), S)
    BY <1>2, <1>3, <2>8, FinishPrints
  <2> QED BY <1>4, <2>3, <2>4, <2>8, <2>9
<1>8. CASE UNCHANGED vars
  <2>1. lines' = lines /\ pc' = pc /\ index' = index /\ found' = found
    BY <1>8 DEF vars
  <2>2. InsideLines /\ MatchedLines' = MatchedLines
    BY <1>1, <2>1 DEF InsideLines, MatchedLines
  <2> QED BY <1>2, <1>4, <2>1, <2>2 DEF LinesInv
<1> QED BY <1>5, <1>6, <1>7, <1>8 DEF Next, Returned

\* The lines, the context and the "--" of a page are those that grep prints: for every
\* text, amount of context and sequence of matches inside lines.
THEOREM GrepLinesArePrinted == Spec => []LinesLikeGrep
<1>1. LinesInv => LinesLikeGrep
  BY ReferenceIs DEF LinesInv, LinesLikeGrep, GrepMode, Printed
<1> QED
  BY <1>1, LinesStart, LinesStep, TypeCorrect, PTL DEF Spec

\* Every output mode: what a page prints is what grep would print.  main turns the context
\* off for -o; for -L without -q, -c and -p it does not, and there the code differs.
THEOREM PrintsAsGrepDoes ==
  Spec => []((opts.only_matching \/ OnlyFilesWithout => ~opts.context_mode) => PrintsLikeGrep)
<1>1. /\ LinesLikeGrep
      /\ ~opts.context_mode => OnlyMatchedParts
      /\ (OnlyFilesWithout => ~opts.context_mode) => NormalOutputSuppressed
      => ((opts.only_matching \/ OnlyFilesWithout => ~opts.context_mode) => PrintsLikeGrep)
  BY DEF PrintsLikeGrep, OnlyMatchedParts
<1> QED
  BY <1>1, GrepLinesArePrinted, OnlyMatchesArePrinted, SummariesPrintNoLines, PTL
=============================================================================
