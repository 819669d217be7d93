---------------------------- MODULE MCPatternSearch ---------------------------
(* Small instances of PatternSearch. *)
EXTENDS PatternSearch

CONSTANT MaxSize  \* longest page text, in characters

\* One character has two bytes in UTF-8.
Characters == {<<"a">>, <<"b">>, <<"\n">>, <<"c3", "a4">>}
Trailing == {"a4"}

\* A page text never ends in a newline.
TextOf(bytes) ==
  [size |-> Len(bytes), chars |-> [i \in 0..(Len(bytes) - 1) |-> bytes[i + 1]],
   newlines |-> {i \in 0..(Len(bytes) - 1) : bytes[i + 1] = "\n"}]
CharTexts ==
  {TextOf(FlattenSeq(c)) : c \in {c \in UNION {[1..n -> Characters] : n \in 0..MaxSize} :
                                    c = <<>> \/ Last(c) # <<"\n">>}}

Default ==
  [quiet |-> FALSE, only_filenames |-> "NOPE", count |-> FALSE, pagecount |-> FALSE,
   only_matching |-> FALSE, context_mode |-> FALSE, context_before |-> 0,
   context_after |-> 0, max_count |-> 0]
PlainOptions == {Default}
EarlyStopOptions ==
  PlainOptions \cup {[Default EXCEPT !.max_count = 1],
                    [Default EXCEPT !.only_filenames = "WITH_MATCHES"]}

\* Words that overlap, that contain each other, and the empty word.
Words == {<<>>, <<"a">>, <<"b">>, <<"a", "b">>, <<"a", "a">>}
WordLists == {<<w>> : w \in Words} \cup {<<v, w>> : v, w \in Words}

Regexes ==
  {[engine |-> e, words |-> ws, bol |-> b, exceeds |-> {}] :
     e \in {"posix", "pcre"}, ws \in WordLists, b \in BOOLEAN}
\* A search that begins at the second byte of a page is too much for the library.
HardRegexes ==
  {[engine |-> e, words |-> <<w>>, bol |-> FALSE, exceeds |-> {1}] :
     e \in {"posix", "pcre"}, w \in Words}
\* A fixed string has no anchors.
FixedStrings ==
  {[engine |-> "fixed", words |-> ws, bol |-> FALSE, exceeds |-> {}] : ws \in WordLists}
SinglePatternEngines == Regexes \cup HardRegexes \cup FixedStrings

\* -e given twice.
ListParts == {r \in Regexes : Len(r.words) = 1}
PosixLists ==
  {[engine |-> "list", patterns |-> <<p, q>>] :
     p \in {r \in ListParts : r.engine = "posix"},
     q \in {r \in ListParts : r.engine = "posix" /\ ~r.bol}}
PatternLists ==
  PosixLists \cup {[engine |-> "list", patterns |-> <<p, q>>] :
                     p \in {r \in HardRegexes \cup ListParts : r.engine = "pcre"},
                     q \in {r \in ListParts : r.words = <<<<"a">>>>}}
AllEngines == SinglePatternEngines \cup PatternLists
=============================================================================
