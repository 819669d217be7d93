----------------------------- MODULE MCPageSearch -----------------------------
(* Small instances of PageSearch. *)
EXTENDS PageSearch

CONSTANTS MaxSize,     \* longest page text
          MaxContext,  \* largest argument of -A and -B
          MaxLimit     \* largest argument of -m

\* Trailing whitespace has been cut off: no text ends in a newline.
MCTexts == UNION {[size: {s}, newlines: SUBSET (0..(s - 2))] : s \in 0..MaxSize}

Default ==
  [quiet |-> FALSE, only_filenames |-> "NOPE", count |-> FALSE, pagecount |-> FALSE,
   only_matching |-> FALSE, context_mode |-> FALSE, context_before |-> 0,
   context_after |-> 0, max_count |-> 0]

WithContext(S) ==
  S \cup {[o EXCEPT !.context_mode = TRUE, !.context_before = b, !.context_after = a] :
             o \in S, a, b \in 0..MaxContext}
WithLimit(S) == {[o EXCEPT !.max_count = m] : o \in S, m \in 0..MaxLimit}

\* Plain line output with every combination of -A, -B and -m.
LineOptions == WithLimit(WithContext({Default}))

\* The options that replace the line output.
SummaryOptions ==
  {[Default EXCEPT !.quiet = q, !.only_filenames = l, !.count = c, !.pagecount = p] :
     q, c, p \in BOOLEAN, l \in OnlyFilenames}

\* main() turns the context mode off for -o when there is context to print.
OnlyMatching == {[Default EXCEPT !.only_matching = TRUE]}

\* Every mode, with context where it has no effect on what is suppressed: not
\* with -L alone, where the final context of a page is printed all the same.
WithSomeContext(S) ==
  {[o EXCEPT !.context_mode = TRUE, !.context_before = 1, !.context_after = 1] : o \in S}
AllOptions ==
  LineOptions
  \cup WithLimit(OnlyMatching \cup SummaryOptions
                 \cup WithSomeContext({o \in SummaryOptions :
                         \/ o.quiet \/ o.count \/ o.pagecount
                         \/ o.only_filenames = "WITH_MATCHES"}))
=============================================================================
