-------------------------------- MODULE Output --------------------------------
(***************************************************************************)
(* The printing functions of src/output.cc.  They only look at the line    *)
(* structure of a page, so a page text is [size, newlines]: its length and *)
(* the 0-based indices of its newline characters.  A match is a half-open  *)
(* range [start, end) of indices.                                          *)
(*                                                                         *)
(* What is written to stdout is a sequence of output lines [kind, chars]:  *)
(* kind tells a matching line from a context line (':' or '-' in the       *)
(* prefix), a bare match of -o and the "--" separator; chars lists the     *)
(* indices of the page text that are copied to stdout, in order.           *)
(*                                                                         *)
(* Definitions marked (mutant), here and in the other modules, are wrong   *)
(* on purpose: a run with one of them in place of the definition that      *)
(* follows it must fail.  No other definition refers to them.              *)
(***************************************************************************)
EXTENDS Naturals, Sequences, SequencesExt, FiniteSetsExt

OutputLine(kind, chars) == [kind |-> kind, chars |-> chars]
Separator == OutputLine("separator", <<>>)

\* std::string::npos: not an index, and larger than every index.
Npos(text) == text.size + 1

\* std::string::find('\n', pos) and rfind('\n', pos).
Find(text, pos) ==
  LET after == {n \in text.newlines : n >= pos}
  IN  IF after = {} THEN Npos(text) ELSE Min(after)

RFind(text, pos) ==
  LET before == {n \in text.newlines : n <= pos}
  IN  IF before = {} THEN Npos(text) ELSE Max(before)

\* The iterator pair of struct substr.  With begin > end, or an end behind the
\* text, the loop leaves the string: that is the index text.size.
Substr(text, begin, end) ==
  IF begin <= end /\ end <= text.size
  THEN [k \in 1..(end - begin) |-> begin + k - 1]
  ELSE <<text.size>>

-----------------------------------------------------------------------------

print_only_match(text, match) ==
  OutputLine("only", Substr(text, match.start, match.end))

\* (mutant) without the check.
GapUnchecked(text, from, to) == Substr(text, from, to)

\* What lies in front of a match, skipped if it would run backwards.
Gap(text, from, to) == IF from <= to THEN Substr(text, from, to) ELSE <<>>

\* From the newline before the first match to the newline behind the last one.
print_matches(text, matches) ==
  LET newline_a == RFind(text, Head(matches).start)
      newline_b == Find(text, Last(matches).end)
      a == IF newline_a = Npos(text) THEN 0 ELSE newline_a + 1
      b == IF newline_b = Npos(text) THEN text.size ELSE newline_b
      previous_end(i) == IF i = 1 THEN a ELSE matches[i - 1].end
      pieces == [i \in 1..Len(matches) |->
                   Gap(text, previous_end(i), matches[i].start)
                   \o Substr(text, matches[i].start, matches[i].end)]
  IN  OutputLine("match", FlattenSeq(pieces) \o Substr(text, Last(matches).end, b))

print_context_separator(conf) ==
  IF conf.context_mode THEN <<Separator>> ELSE <<>>

\* f[lines][pos] are the lines in front of the newline at pos, at most `lines`
\* of them; the code collects them backwards and prints them reversed.
print_context_before(text, conf, match, lines) ==
  LET f[k \in Nat] ==
        [pos \in text.newlines |->
           IF k = 0 THEN <<>>
           ELSE IF pos = 0 THEN <<OutputLine("context", <<>>)>>
           ELSE LET newpos == RFind(text, pos - 1)
                IN  IF newpos = Npos(text)
                    THEN <<OutputLine("context", Substr(text, 0, pos))>>
                    ELSE Append(f[k - 1][newpos],
                                OutputLine("context", Substr(text, newpos + 1, pos)))]
      line_begin == RFind(text, match.start)
  IN  IF ~conf.context_mode \/ line_begin = Npos(text) THEN <<>>
      ELSE f[lines][line_begin]

\* f[lines][pos] are the lines behind the newline at pos, at most `lines`.
print_context_after(text, conf, match, lines) ==
  LET f[k \in Nat] ==
        [pos \in text.newlines |->
           IF k = 0 \/ pos = text.size - 1 THEN <<>>
           ELSE LET newpos == Find(text, pos + 1)
                IN  IF newpos = Npos(text)
                    THEN <<OutputLine("context", Substr(text, pos + 1, text.size))>>
                    ELSE <<OutputLine("context", Substr(text, pos + 1, newpos))>>
                         \o f[k - 1][newpos]]
      line_end == Find(text, match.end)
  IN  IF ~conf.context_mode \/ line_end = Npos(text) THEN <<>>
      ELSE f[lines][line_end]

\* Where find and rfind may stop.
Stops(text) == text.newlines \cup {Npos(text)}

\* One more line behind a walk that starts at the next newline.
OneMore(walk) == [walk EXCEPT !.lines = @ + 1]

\* (mutant) does not stop at the line of the second match.
walk_right_too_far(text, conf, pos_right, pos_left) ==
  LET f[k \in Nat] ==
        [pos \in Stops(text) |->
           IF k > 0 /\ pos # Npos(text) THEN OneMore(f[k - 1][Find(text, pos + 1)])
           ELSE [lines |-> 0, pos |-> pos]]
  IN  f[conf.context_after][pos_right]

\* The first loop: walk pos_right over at most context_after newlines, up to
\* pos_left.  Yields how many lines fit and where the walk stopped.
walk_right(text, conf, pos_right, pos_left) ==
  LET f[k \in Nat] ==
        [pos \in Stops(text) |->
           IF k > 0 /\ pos # Npos(text) /\ pos < pos_left
           THEN OneMore(f[k - 1][Find(text, pos + 1)])
           ELSE [lines |-> 0, pos |-> pos]]
  IN  f[conf.context_after][pos_right]

\* The second loop, towards the front of the text and down to pos_right.
walk_left(text, conf, pos_left, pos_right) ==
  LET f[k \in Nat] ==
        [pos \in Stops(text) |->
           IF k > 0 /\ pos # Npos(text) /\ pos > pos_right
           THEN IF pos = 0 THEN [lines |-> 1, pos |-> Npos(text)]
                ELSE OneMore(f[k - 1][RFind(text, pos - 1)])
           ELSE [lines |-> 0, pos |-> pos]]
  IN  f[conf.context_before][pos_left]

print_context_between(text, conf, match1, match2) ==
  LET right == walk_right(text, conf, Find(text, match1.end), RFind(text, match2.start))
      left  == walk_left(text, conf, RFind(text, match2.start), right.pos)
  IN  IF ~conf.context_mode THEN <<>>
      ELSE print_context_after(text, conf, match1, right.lines)
           \o (IF left.pos > right.pos THEN print_context_separator(conf) ELSE <<>>)
           \o print_context_before(text, conf, match2, left.lines)
=============================================================================
