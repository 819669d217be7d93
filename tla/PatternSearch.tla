----------------------------- MODULE PatternSearch ----------------------------
(***************************************************************************)
(* The loop of search_page with one of the engines of src/regengine.cc in  *)
(* the place of the engine PageSearch leaves open.                         *)
(***************************************************************************)
EXTENDS PageSearch, Regengine

CONSTANT Patterns  \* the engines main() may have built

ASSUME PatternsAssumption ==
  \A p \in Patterns : \/ IsPattern(p)
                      \/ /\ p.engine = "list"
                         /\ p.patterns \in Seq(OneOf(p.patterns)) \ {<<>>}
                         /\ \A q \in OneOf(p.patterns) : IsPattern(q)
\* Besides its line structure, a text has its bytes; "\n" is the newline.
ASSUME CharsAssumption ==
  \A t \in Texts : t.newlines = {i \in 0..(t.size - 1) : t.chars[i] = "\n"}

VARIABLE re        \* the Regengine

patternVars == <<vars, re>>

PatternInit == Init /\ re \in Patterns

\* re.exec(text, index, mt)
Exec ==
  /\ LET mt == exec(re, text, index)
     IN  \/ mt = {} /\ NoMatch
         \/ \E m \in mt : MatchDecides(m) \/ LastMatch(m) \/ OneMatch(m)
  /\ UNCHANGED re

PatternNext == Exec \/ (Returned /\ UNCHANGED re)
PatternSpec == PatternInit /\ [][PatternNext]_patternVars
FairPatternSpec == PatternSpec /\ WF_patternVars(PatternNext)

-----------------------------------------------------------------------------
\* The engines keep what PageSearch expects of one: from an offset they find a
\* match behind it and inside the page, so that every execution with a real
\* engine is one of PageSearch and all that holds there holds here.
ImplementsPageSearch == Spec

\* Where the patterns of the engine match the page as a whole.
SinglePatterns == IF re.engine = "list" THEN OneOf(re.patterns) ELSE {re}
OccurrencesOf(p) ==
  UNION {{MatchAt(i, w) : i \in {i \in 0..text.size : Occurs(text, w, i) /\ (p.bol => i = 0)}} :
           w \in OneOf(p.words)}
Occurrences == UNION {OccurrencesOf(p) : p \in SinglePatterns}

\* The test "^ only matches the beginning of a page": what is found is a match
\* of one of the patterns on the page as a whole, though the engines are called
\* with what is left of the page.
FindsOnlyOccurrences == \A i \in DOMAIN found : found[i] \in Occurrences

\* "Print matching lines": when the loop has ended, each line of the page with
\* an occurrence of one of the patterns is among the lines found.  (Without -m,
\* -q and -l, which stop earlier; a match never runs over a newline here.)
Exhaustive == opts.max_count = 0 /\ ~FirstMatchSuffices
LinesOf(occurrences) == {LineOf(text, m.start) : m \in occurrences}
EveryMatchingLineIsFound ==
  (pc = "done" /\ Exhaustive) => LinesOf(Occurrences) \subseteq MatchedLines

\* The offsets the engine was asked for.
Asked == {0} \cup {i \in {NextIndex(found[k]) : k \in DOMAIN found} : i < text.size}

\* The same for the pattern that is tried first, the only one of most engines:
\* that fixed strings overlap, that a match is empty, or that other patterns
\* match in between does not hide a line from it.  Only an error of the library
\* does: the loop takes it for the end of the matches, and the lines behind that
\* offset are lost without a message.  (After an empty match the loop goes on one
\* byte behind it, which is such an error of PCRE inside a longer character.)
FirstPattern == IF re.engine = "list" THEN Head(re.patterns) ELSE re
LostBehindError(m) ==
  \E offset \in Asked : offset <= m.start /\ GivesUp(FirstPattern, text, offset)
FirstPatternIsFound ==
  (pc = "done" /\ Exhaustive) =>
    \A m \in OccurrencesOf(FirstPattern) :
       LineOf(text, m.start) \in MatchedLines \/ LostBehindError(m)

\* The loop ends on every page, also if a pattern matches the empty string at
\* every place, and asks no engine for ever.
Terminates == <>(pc = "done")
=============================================================================
