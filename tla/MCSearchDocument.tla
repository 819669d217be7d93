--------------------------- MODULE MCSearchDocument ---------------------------
(* Small instances of SearchDocument. *)
EXTENDS SearchDocument

CONSTANTS MaxPages, MaxMatches, MaxLimit,
          text1, text2 \* model values: two texts with characters

MCTexts == {EmptyText, text1, text2}

Rendering == [renders: {TRUE}, text: MCTexts]
Broken == [renders: {FALSE}, text: {EmptyText}]
RenderingDocs == UNION {[1..n -> Rendering] : n \in 0..MaxPages}
AllDocs == UNION {[1..n -> Rendering \cup Broken] : n \in 0..MaxPages}

\* A pattern may match the empty text (once, at its end); text1 has the most
\* matches and text2 at most one.
Patterns ==
  {f \in [MCTexts -> 0..MaxMatches] :
      f[text1] = MaxMatches /\ f[EmptyText] <= 1 /\ f[text2] <= 1}

Default ==
  [quiet |-> FALSE, only_filenames |-> "NOPE", count |-> FALSE, pagecount |-> FALSE,
   context |-> FALSE, max_count |-> 0, warn_empty |-> FALSE, use_cache |-> FALSE, page_range |-> <<>>,
   pattern |-> CHOOSE f \in Patterns : f[EmptyText] = 0 /\ f[text2] = 0]

WithPattern(S) == {[o EXCEPT !.pattern = f] : o \in S, f \in Patterns}
WithLimit(S) == {[o EXCEPT !.max_count = m] : o \in S, m \in 0..MaxLimit}
WithRange(S, ranges) == {[o EXCEPT !.page_range = r] : o \in S, r \in ranges}

Span(a, b) == [from |-> a, to |-> b]
Ranges == {<<>>, <<Span(2, 3)>>, <<Span(1, 1), Span(3, 3)>>, <<Span(2, 1)>>}
\* Ranges that leave no page out in front of one they contain.
PrefixRanges == {<<>>, <<Span(1, 1)>>, <<Span(1, 2)>>}

\* -q suppresses whatever the others would print.
OutputModes ==
  {[Default EXCEPT !.only_filenames = l, !.count = c, !.pagecount = p,
                   !.warn_empty = TRUE] :
     c, p \in BOOLEAN, l \in OnlyFilenames}
  \cup {[Default EXCEPT !.quiet = TRUE, !.only_filenames = l, !.count = TRUE,
                        !.pagecount = TRUE, !.context = TRUE] : l \in OnlyFilenames}
  \cup {[Default EXCEPT !.only_filenames = "WITHOUT_MATCH", !.count = c, !.pagecount = p,
                        !.context = TRUE] : c, p \in BOOLEAN}

\* One run without the cache: every mode, range, limit and pattern.
SingleRunOptions == WithPattern(WithLimit(WithRange(OutputModes, Ranges)))

\* Runs that share a cache, mixed with one that does not use it and a quiet one.
CachedModes ==
  {[Default EXCEPT !.only_filenames = l, !.count = TRUE, !.use_cache = TRUE,
                   !.warn_empty = TRUE] : l \in OnlyFilenames}
CachedOptions ==
  WithLimit(WithRange(CachedModes, PrefixRanges))
  \cup {[Default EXCEPT !.count = TRUE], [Default EXCEPT !.quiet = TRUE, !.use_cache = TRUE]}

\* Runs with a page range that leaves a hole.
CachedHoleOptions == WithRange(CachedModes, {<<>>, <<Span(2, 3)>>})
=============================================================================
