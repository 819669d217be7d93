------------------------------ MODULE PageSearch ------------------------------
(***************************************************************************)
(* search_page() of src/search.cc with handle_match and                    *)
(* flush_line_matches: the loop that asks the engine for one match after   *)
(* the other, groups the matches by line and prints lines and context.     *)
(*                                                                         *)
(* The engine (regexec, pcre2_match, strstr) is external: from offset      *)
(* `index` it may find any match of the kinds in MatchKinds, or none.      *)
(***************************************************************************)
EXTENDS Output

CONSTANTS
  Texts,        \* page texts [size, newlines]; a page never ends in a newline
  OptionSet,    \* the command line options that reach search_page
  StartCounts,  \* total_count left by the pages before this one
  MatchKinds    \* which matches the engine may find

AllMatchKinds == {"inline", "atNewline", "spanning"}
OnlyFilenames == {"NOPE", "WITH_MATCHES", "WITHOUT_MATCH"}
OptionType ==
  [quiet: BOOLEAN, only_filenames: OnlyFilenames, count: BOOLEAN,
   pagecount: BOOLEAN, only_matching: BOOLEAN, context_mode: BOOLEAN,
   context_before: Nat, context_after: Nat, max_count: Nat]

ASSUME TextsAssumption ==
  \A t \in Texts : /\ t.size \in Nat
                   /\ t.newlines \subseteq 0..(t.size - 2)
ASSUME OptionsAssumption == OptionSet \subseteq OptionType
ASSUME CountsAssumption  == StartCounts \subseteq Nat
ASSUME KindsAssumption   == MatchKinds \subseteq AllMatchKinds

VARIABLES
  text, opts,    \* the arguments of search_page
  total_count,   \* state.total_count
  previous_matches,
  page_count, index, \* locals of search_page
  lines,         \* [current, last_line, out]: the two vectors and stdout
  pc,            \* "exec" in the loop, "done" after the return
  found          \* history: every match the engine reported

vars == <<text, opts, total_count, previous_matches, page_count, index, lines,
          pc, found>>

Match == [start: Nat, end: Nat]

-----------------------------------------------------------------------------
\* The engine.  A match inside a line, an empty match on a newline character
\* (x*, \b), and a match that runs over a newline (PCRE \n, POSIX [^a]*).

Spans(t, m) == \E n \in t.newlines : m.start <= n /\ n < m.end
KindOf(t, m) ==
  IF Spans(t, m) THEN "spanning"
  ELSE IF m.start = m.end /\ m.start \in t.newlines THEN "atNewline"
  ELSE "inline"

Matches(t, from) ==
  {m \in [start: from..t.size, end: from..t.size] :
      m.start <= m.end /\ KindOf(t, m) \in MatchKinds}

-----------------------------------------------------------------------------

\* Nothing is written per line.
NoLineOutput == opts.count \/ opts.pagecount \/ opts.only_filenames # "NOPE"

LeadingContext(st) ==
  IF st.last_line = <<>>
  THEN (IF previous_matches THEN print_context_separator(opts) ELSE <<>>)
       \o print_context_before(text, opts, Head(st.current), opts.context_before)
  ELSE print_context_between(text, opts, Last(st.last_line), Head(st.current))

MatchedText(st) ==
  IF opts.only_matching
  THEN [i \in 1..Len(st.current) |-> print_only_match(text, st.current[i])]
  ELSE <<print_matches(text, st.current)>>

flush_line_matches(st) ==
  [current   |-> <<>>,
   last_line |-> st.current,
   out       |-> IF st.current = <<>> \/ NoLineOutput THEN st.out
                 ELSE st.out \o LeadingContext(st) \o MatchedText(st)]

\* (mutant) looks for the newline behind the new match.
SameLineAsNext(st, m) ==
  LET next_newline == Find(text, m.end)
  IN  next_newline = Npos(text) \/ next_newline > m.start

\* m starts on the line on which the group st.current ends.
SameLineAs(st, m) ==
  LET next_newline == Find(text, Last(st.current).end)
  IN  next_newline = Npos(text) \/ next_newline > m.start

handle_match(st, m) ==
  LET st1 == IF st.current = <<>> \/ SameLineAs(st, m) THEN st
             ELSE flush_line_matches(st)
  IN  [current |-> Append(st1.current, m), last_line |-> st1.last_line, out |-> st1.out]

\* The last flush and the context behind the last match of the page.
finish(st) ==
  LET fl == flush_line_matches(st)
  IN  IF fl.last_line # <<>> /\ ~opts.count /\ ~opts.pagecount
      THEN [fl EXCEPT !.out = @ \o print_context_after(text, opts, Last(fl.last_line),
                                                       opts.context_after)]
      ELSE fl

-----------------------------------------------------------------------------
Init ==
  /\ text \in Texts
  /\ opts \in OptionSet
  /\ total_count \in {c \in StartCounts : opts.max_count = 0 \/ c < opts.max_count}
  /\ previous_matches = (total_count > 0)
  /\ page_count = 0
  /\ index = 0
  /\ lines = [current |-> <<>>, last_line |-> <<>>, out |-> <<>>]
  /\ pc = "exec"
  /\ found = <<>>

\* (mutant) the loop goes on without a match.
NoMatchStays == pc = "exec" /\ UNCHANGED vars

\* re.exec(text, index, mt) returns false: the loop ends.
NoMatch ==
  /\ pc = "exec"
  /\ lines' = finish(lines)
  /\ pc' = "done"
  /\ UNCHANGED <<text, opts, total_count, previous_matches, page_count, index, found>>

Counted(m) ==
  /\ pc = "exec"
  /\ total_count' = total_count + 1
  /\ page_count' = page_count + 1
  /\ found' = Append(found, m)
  /\ UNCHANGED <<text, opts, previous_matches>>

\* With -q or -l the first match decides.
FirstMatchSuffices == opts.quiet \/ opts.only_filenames = "WITH_MATCHES"
MatchDecides(m) ==
  /\ FirstMatchSuffices
  /\ Counted(m)
  /\ pc' = "done"
  /\ UNCHANGED <<index, lines>>

\* (mutant) one match too many.
LimitExceeded == opts.max_count > 0 /\ total_count' > opts.max_count

LimitReached == opts.max_count > 0 /\ total_count' >= opts.max_count
LastMatch(m) ==
  /\ ~FirstMatchSuffices
  /\ Counted(m)
  /\ LimitReached
  /\ lines' = finish(handle_match(lines, m))
  /\ pc' = "done"
  /\ UNCHANGED index

\* (mutants) no step over an empty match, or a step back.
EndOfMatch(m) == m.end
StepBack(m) == IF m.start = m.end THEN m.end - 1 ELSE m.end

\* An empty match must not be found again: step over one character.
NextIndex(m) == IF m.start = m.end THEN m.end + 1 ELSE m.end

OneMatch(m) ==
  /\ ~FirstMatchSuffices
  /\ Counted(m)
  /\ ~LimitReached
  /\ index' = NextIndex(m)
  /\ IF index' >= text.size
     THEN lines' = finish(handle_match(lines, m)) /\ pc' = "done"
     ELSE lines' = handle_match(lines, m) /\ pc' = "exec"

\* search_page has returned; nothing more happens on this page.
Returned == pc = "done" /\ UNCHANGED vars

Next ==
  \/ NoMatch
  \/ \E m \in Matches(text, index) : MatchDecides(m) \/ LastMatch(m) \/ OneMatch(m)
  \/ Returned

Spec == Init /\ [][Next]_vars

-----------------------------------------------------------------------------
TypeOK ==
  /\ text \in Texts /\ opts \in OptionSet
  /\ total_count \in Nat /\ page_count \in Nat /\ index \in Nat
  /\ previous_matches \in BOOLEAN
  /\ pc \in {"exec", "done"}
  /\ lines.current \in Seq(Match) /\ lines.last_line \in Seq(Match)
  /\ found \in Seq(Match)

\* "All entries must begin and end in the same line" (output.h, print_matches):
\* as long as no match runs over a newline itself, the matches handed over as one
\* line have no newline between the start of the first and the end of the last.
NoneSpans == \A i \in DOMAIN found : ~Spans(text, found[i])
OnOneLine(group) ==
  \A i \in 1..Len(group) :
     ~ \E n \in text.newlines : group[1].start <= n /\ n < group[i].end
MatchesOnOneLine ==
  NoneSpans => OnOneLine(lines.current) /\ OnOneLine(lines.last_line)

\* -m NUM: never more than NUM matches, counted over all pages of the file, and
\* the loop asks for another match only while the limit is not used up.
MaxCountRespected ==
  opts.max_count > 0 => /\ total_count <= opts.max_count
                        /\ pc = "exec" => total_count < opts.max_count

\* Every step of the loop that goes on moves the offset: empty matches cannot
\* make search_page report the same place for ever.
IndexAdvances == [][pc' = "exec" => index' > index]_vars

\* No index outside the page text is ever dereferenced while printing, whatever
\* the engine matched (substr in output.cc iterates with !=, not with <).
PrintedInsideText ==
  \A i \in 1..Len(lines.out) :
     \A k \in 1..Len(lines.out[i].chars) : lines.out[i].chars[k] < text.size

-----------------------------------------------------------------------------
\* The reference: what grep prints for a page, written line by line.

NumLines(t) == Cardinality(t.newlines) + 1
LineOf(t, pos) == Cardinality({n \in t.newlines : n < pos}) + 1
\* The newline that ends line k; the last line and "line 0" have none.
LineEnd(t, k) ==
  IF k = NumLines(t) THEN t.size ELSE CHOOSE n \in t.newlines : LineOf(t, n) = k
LineStart(t, k) == IF k = 1 THEN 0 ELSE LineEnd(t, k - 1) + 1
LineChars(t, k) ==
  [i \in 1..(LineEnd(t, k) - LineStart(t, k)) |-> LineStart(t, k) + i - 1]

Before == IF opts.context_mode THEN opts.context_before ELSE 0
After  == IF opts.context_mode THEN opts.context_after ELSE 0

MatchedLines == {LineOf(text, found[i].start) : i \in 1..Len(found)}
Shown == {k \in 1..NumLines(text) :
            \E m \in MatchedLines : m - Before <= k /\ k <= m + After}

GrepLine(k) ==
  LET opensGroup == /\ (k - 1) \notin Shown
                    /\ (\E j \in Shown : j < k) \/ previous_matches
      line == OutputLine(IF k \in MatchedLines THEN "match" ELSE "context",
                         LineChars(text, k))
  IN  IF k \notin Shown THEN <<>>
      ELSE IF opts.context_mode /\ opensGroup THEN <<Separator, line>>
      ELSE <<line>>

GrepOutput == FlattenSeq([k \in 1..NumLines(text) |-> GrepLine(k)])

\* The manual's options that replace the lines by something else.
NormalOutput ==
  ~opts.quiet /\ ~opts.count /\ ~opts.pagecount /\ opts.only_filenames = "NOPE"

\* The manual on -A, -B, -C: exactly the matching lines and their context are
\* printed, each line once and in page order, a "--" between groups of lines
\* that do not touch (and before the first one if a former page had a match).
\* For matches inside lines, the only ones that grep knows.
InsideLines == \A i \in DOMAIN found : KindOf(text, found[i]) = "inline"
LinesLikeGrep ==
  (pc = "done" /\ NormalOutput /\ ~opts.only_matching /\ InsideLines)
    => lines.out = GrepOutput

\* The manual on -c, -p, -l, -L, -q: normal output is suppressed.
NormalOutputSuppressed == ~NormalOutput => lines.out = <<>>

\* The manual on -o: only the matched parts, in order; context has no effect.
OnlyMatchedParts ==
  (pc = "done" /\ NormalOutput /\ opts.only_matching)
    => lines.out = [i \in 1..Len(found) |->
                      OutputLine("only", Substr(text, found[i].start, found[i].end))]

\* What is printed for a page is what grep would print, in every output mode.
PrintsLikeGrep == LinesLikeGrep /\ NormalOutputSuppressed /\ OnlyMatchedParts
=============================================================================
