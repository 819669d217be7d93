------------------------------ MODULE Regengine ------------------------------
(***************************************************************************)
(* The engines of src/regengine.cc.  A page text here also has its bytes:  *)
(* chars[i] for every index i < size, in UTF-8.                            *)
(*                                                                         *)
(* A pattern of the regex libraries is reduced to what the loop around it  *)
(* can tell apart: an alternation of words, perhaps anchored with ^, and   *)
(* the offsets from which the library gives up.  An engine is              *)
(* [engine, words, bol, exceeds] or the list [engine, patterns].           *)
(*                                                                         *)
(* exec() yields the set of the matches it writes to m: one or none.       *)
(***************************************************************************)
EXTENDS Naturals, Sequences, FiniteSets

CONSTANT TrailingBytes  \* the bytes of a UTF-8 character behind its first one

ASSUME TrailingBytesAssumption == TrailingBytes \subseteq STRING \ {"\n"}

MatchAt(i, word) == [start |-> i, end |-> i + Len(word)]

\* The word stands at index i of the text.
Occurs(text, word, i) ==
  /\ i + Len(word) <= text.size
  /\ \A k \in 1..Len(word) : text.chars[i + k - 1] = word[k]

OneOf(words) == {words[k] : k \in DOMAIN words}

\* Where a match that begins at `from` or later may begin.
Starts(text, words, from) ==
  {i \in from..text.size : \E w \in OneOf(words) : Occurs(text, w, i)}

Leftmost(starts) == {i \in starts : \A j \in starts : i <= j}

\* The first of the words, in their order, that stands at i.
FirstWord(text, words, i) ==
  words[CHOOSE k \in DOMAIN words :
          /\ Occurs(text, words[k], i)
          /\ \A j \in DOMAIN words : Occurs(text, words[j], i) => k <= j]

\* The longest of them.
LongestWord(text, words, i) ==
  CHOOSE w \in OneOf(words) :
    /\ Occurs(text, w, i)
    /\ \A v \in OneOf(words) : Occurs(text, v, i) => Len(v) <= Len(w)

\* A word is UTF-8 too.  re.exceeds: where a search uses up the limits of the
\* library, the backtracking limit of PCRE or the memory of regexec.
IsPattern(re) ==
  /\ re.engine \in {"posix", "pcre", "fixed"}
  /\ re.bol \in BOOLEAN
  /\ re.words \in Seq(Seq(STRING))
  /\ \A w \in OneOf(re.words) : w # <<>> => Head(w) \notin TrailingBytes
  /\ re.exceeds \subseteq Nat
  /\ re.engine = "fixed" => ~re.bol /\ re.exceeds = {}

\* The offset is inside a character.
InsideCharacter(text, offset) == offset < text.size /\ text.chars[offset] \in TrailingBytes

\* The call fails, which exec() reports like no match.  With PCRE2_UTF an offset
\* inside a character is an error (PCRE2_ERROR_BADUTFOFFSET).
GivesUp(re, text, offset) ==
  \/ offset \in re.exceeds
  \/ re.engine = "pcre" /\ InsideCharacter(text, offset)

-----------------------------------------------------------------------------
\* regexec(3) on the text that begins at `offset`: the leftmost, longest match;
\* ^ matches there unless REG_NOTBOL is given.  The result is relative.
regexec(re, text, offset, notbol) ==
  LET starts == {i \in Starts(text, re.words, offset) :
                   ~GivesUp(re, text, offset) /\ (re.bol => i = offset /\ ~notbol)}
  IN  {[rm_so |-> i - offset,
        rm_eo |-> i - offset + Len(LongestWord(text, re.words, i))] :
         i \in Leftmost(starts)}

\* (mutants) ^ matches wherever the search goes on; the offset is not added.
PosixRegex_any_bol(re, text, offset) ==
  {[start |-> offset + r.rm_so, end |-> offset + r.rm_eo] :
     r \in regexec(re, text, offset, FALSE)}
PosixRegex_relative(re, text, offset) ==
  {[start |-> r.rm_so, end |-> r.rm_eo] : r \in regexec(re, text, offset, offset # 0)}

PosixRegex_exec(re, text, offset) ==
  {[start |-> offset + r.rm_so, end |-> offset + r.rm_eo] :
     r \in regexec(re, text, offset, offset # 0)}

\* pcre2_match(3) looks at the whole text and begins at `offset`: the leftmost
\* match, the first alternative; ^ is the beginning of the text.  A negative
\* result, an error as well as PCRE2_ERROR_NOMATCH, is no match.
PCRERegex_exec(re, text, offset) ==
  LET starts == {i \in Starts(text, re.words, offset) :
                   ~GivesUp(re, text, offset) /\ (re.bol => i = 0)}
  IN  {MatchAt(i, FirstWord(text, re.words, i)) : i \in Leftmost(starts)}

\* (mutant) the first string that is found, wherever it is.
FixedString_first_found(re, text, offset) ==
  LET hits == {k \in DOMAIN re.words : Starts(text, <<re.words[k]>>, offset) # {}}
      first == {k \in hits : \A j \in hits : k <= j}
  IN  UNION {{MatchAt(i, re.words[k]) :
                i \in Leftmost(Starts(text, <<re.words[k]>>, offset))} : k \in first}

\* strstr() for each of the strings: the leftmost result, and the first string
\* if two are found at the same place.
FixedString_exec(re, text, offset) ==
  {MatchAt(i, FirstWord(text, re.words, i)) :
     i \in Leftmost(Starts(text, re.words, offset))}

\* The virtual call of a single pattern.
ExecOne(re, text, offset) ==
  CASE re.engine = "posix" -> PosixRegex_exec(re, text, offset)
    [] re.engine = "pcre"  -> PCRERegex_exec(re, text, offset)
    [] re.engine = "fixed" -> FixedString_exec(re, text, offset)

\* All patterns in turn until one of them matches.
PatternList_exec(re, text, offset) ==
  LET hits == {k \in DOMAIN re.patterns : ExecOne(re.patterns[k], text, offset) # {}}
      first == {k \in hits : \A j \in hits : k <= j}
  IN  UNION {ExecOne(re.patterns[k], text, offset) : k \in first}

exec(re, text, offset) ==
  IF re.engine = "list" THEN PatternList_exec(re, text, offset)
  ELSE ExecOne(re, text, offset)
=============================================================================
