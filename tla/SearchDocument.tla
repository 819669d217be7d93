---------------------------- MODULE SearchDocument ----------------------------
(***************************************************************************)
(* search_document() of src/search.cc: the loop over the pages of one PDF, *)
(* run up to MaxRuns times on the same file, with the rendering cache that *)
(* the runs hand over to each other.                                       *)
(*                                                                         *)
(* A page text stands for the text and the label of the page.  A pattern   *)
(* is the number of matches it has in each text.  The cache file is read   *)
(* and written as a whole here; CacheFile looks inside.                    *)
(***************************************************************************)
EXTENDS Integers, Sequences, SequencesExt, FiniteSetsExt

CONSTANTS
  Texts, EmptyText, \* page texts, and the one without a character
  Docs,             \* PDFs: sequences of pages [renders, text]
  OptionSet,        \* command lines, the pattern included
  MaxRuns           \* bound: invocations of pdfgrep

PageType == [renders: BOOLEAN, text: Texts]
Interval == [from: Nat, to: Nat]
OnlyFilenames == {"NOPE", "WITH_MATCHES", "WITHOUT_MATCH"}
OptionType ==
  [quiet: BOOLEAN, only_filenames: OnlyFilenames, count: BOOLEAN,
   pagecount: BOOLEAN, context: BOOLEAN, \* lines of context behind a match, -A or -C
   max_count: Nat, warn_empty: BOOLEAN, use_cache: BOOLEAN,
   page_range: Seq(Interval), pattern: [Texts -> Nat]]

ASSUME TextsAssumption   == EmptyText \in Texts
\* A page that does not render has no text.
ASSUME DocsAssumption    ==
  /\ Docs \subseteq Seq(PageType)
  /\ \A d \in Docs : \A p \in 1..Len(d) : d[p].renders \/ d[p].text = EmptyText
ASSUME OptionsAssumption == OptionSet \subseteq OptionType /\ OptionSet # {}
ASSUME RunsAssumption    == MaxRuns \in Nat

VARIABLES
  doc,            \* the PDF
  stored,         \* the cache file of this PDF
  opts,           \* the command line of the current run, or of the last one
  cache,          \* the Cache object: [valid, pages]
  pagenum, total_count, document_empty, \* locals of search_document
  stdout, stderr,
  read,           \* history: the pages whose text was searched
  runs,           \* finished invocations
  pc              \* "idle", "page" in the loop, "break" behind it

vars == <<doc, stored, opts, cache, pagenum, total_count, document_empty,
          stdout, stderr, read, runs, pc>>

-----------------------------------------------------------------------------
\* (mutant) the end of an interval is excluded.
contains_exclusive(page_range, page) ==
  \/ page_range = <<>>
  \/ \E i \in DOMAIN page_range :
        page_range[i].from <= page /\ page < page_range[i].to

\* IntervalContainer::contains: no intervals stand for all pages.
contains(page_range, page) ==
  \/ page_range = <<>>
  \/ \E i \in DOMAIN page_range :
        page_range[i].from <= page /\ page <= page_range[i].to

\* A missing, incomplete or foreign cache file and the Cache made from it.
NoCache == [valid |-> FALSE, pages |-> <<>>]
CacheType == [valid: BOOLEAN, pages: Seq(Texts)]

get_page(page) == cache.valid /\ page <= Len(cache.pages)

\* (mutant) stores the text one page behind.
set_page_behind(page, text) ==
  [valid |-> cache.valid, pages |-> Append(cache.pages, text) \o <<text>>]

\* pages.resize() fills up with empty pages.
set_page(page, text) ==
  LET old == cache.pages
      size == IF page > Len(old) THEN page ELSE Len(old)
  IN  [valid |-> cache.valid,
       pages |-> [i \in 1..size |-> IF i = page THEN text
                                    ELSE IF i <= Len(old) THEN old[i] ELSE EmptyText]]

\* What is written: the lines of a page with their context, the context behind
\* the last match alone, a count line of -p, the count line of -c, the file name,
\* and the two messages on stderr.
Item(kind, page, number) == [kind |-> kind, page |-> page, number |-> number]
ItemType ==
  [kind: {"lines", "context", "page count", "count", "filename", "page error", "empty"},
   page: Nat, number: Nat]
Filename == Item("filename", 0, 0)
PageError(page) == Item("page error", page, 0)
WarnEmpty == Item("empty", 0, 0)

-----------------------------------------------------------------------------
Init ==
  /\ doc \in Docs
  /\ opts = CHOOSE o \in OptionSet : TRUE
  /\ stored = NoCache /\ cache = NoCache
  /\ pagenum = 1 /\ total_count = 0 /\ document_empty = TRUE
  /\ stdout = <<>> /\ stderr = <<>> /\ read = <<>>
  /\ runs = 0
  /\ pc = "idle"

\* (mutant) pages are counted from 0.
BeginFromZero ==
  /\ pagenum' = 0 /\ total_count' = 0 /\ document_empty' = TRUE
  /\ stdout' = <<>> /\ stderr' = <<>> /\ read' = <<>>

\* The SearchState and the loop counter of a new search.
Begin ==
  /\ pagenum' = 1 /\ total_count' = 0 /\ document_empty' = TRUE
  /\ stdout' = <<>> /\ stderr' = <<>> /\ read' = <<>>

\* A new invocation: the Cache constructor reads the file.
Start ==
  /\ pc = "idle" /\ runs < MaxRuns
  /\ opts' \in OptionSet
  /\ cache' = IF opts'.use_cache THEN stored ELSE NoCache
  /\ Begin
  /\ pc' = "page"
  /\ UNCHANGED <<doc, stored, runs>>

AtPage == pc = "page" /\ pagenum <= Len(doc)
InRange == contains(opts.page_range, pagenum)
CacheHit == opts.use_cache /\ get_page(pagenum)

\* (mutant) the loop counter stays.
SkipPageStays == AtPage /\ ~InRange /\ UNCHANGED vars

SkipPage ==
  /\ AtPage /\ ~InRange
  /\ pagenum' = pagenum + 1
  /\ UNCHANGED <<doc, stored, opts, cache, total_count, document_empty,
                 stdout, stderr, read, runs, pc>>

WithPageError == IF opts.quiet THEN stderr ELSE Append(stderr, PageError(pagenum))

\* (mutant) caches the page that failed.
PageFailsForGood ==
  /\ AtPage /\ InRange /\ ~CacheHit /\ ~doc[pagenum].renders
  /\ stderr' = WithPageError
  /\ pagenum' = pagenum + 1
  /\ cache' = IF opts.use_cache THEN set_page(pagenum, EmptyText) ELSE cache
  /\ UNCHANGED <<doc, stored, opts, total_count, document_empty, stdout, read, runs, pc>>

\* create_page() returns null: complain and go on with the next page.
PageFails ==
  /\ AtPage /\ InRange /\ ~CacheHit /\ ~doc[pagenum].renders
  /\ stderr' = WithPageError
  /\ pagenum' = pagenum + 1
  /\ UNCHANGED <<doc, stored, opts, cache, total_count, document_empty,
                 stdout, read, runs, pc>>

page_text == IF CacheHit THEN cache.pages[pagenum] ELSE doc[pagenum].text

\* The value of search_page(): it returns at the first match with -q and -l and
\* at the limit with -m (see PageSearch).
page_count ==
  LET n == opts.pattern[page_text]
      left == opts.max_count - total_count
  IN  IF (opts.quiet \/ opts.only_filenames = "WITH_MATCHES") /\ n > 0 THEN 1
      ELSE IF opts.max_count > 0 /\ n > left THEN left ELSE n

\* (mutants) -p prints a running total; context with -c and -p, too.
RunningTotals(trailing) ==
  IF ~opts.quiet /\ page_count > 0 /\ opts.only_filenames = "NOPE" /\ opts.pagecount
  THEN <<Item("page count", pagenum, total_count + page_count)>> ELSE <<>>
ContextUnchecked(trailing) ==
  IF opts.quiet \/ page_count = 0 THEN <<>>
  ELSE IF opts.only_filenames = "WITHOUT_MATCH"
       THEN (IF trailing THEN <<Item("context", pagenum, 0)>> ELSE <<>>)
  ELSE IF opts.only_filenames = "WITH_MATCHES" THEN <<Filename>>
  ELSE <<Item("lines", pagenum, page_count)>>

\* What search_page() and the loop print for a page.  Nothing is printed for a
\* match with -L, but the context behind the last one is: `trailing` says that
\* there are such lines on the page.
PageOutput(trailing) ==
  IF opts.quiet \/ page_count = 0 THEN <<>>
  ELSE IF opts.only_filenames = "WITHOUT_MATCH"
       THEN (IF trailing /\ ~opts.count /\ ~opts.pagecount
             THEN <<Item("context", pagenum, 0)>> ELSE <<>>)
  ELSE IF opts.only_filenames = "WITH_MATCHES" THEN <<Filename>>
  ELSE IF opts.pagecount THEN <<Item("page count", pagenum, page_count)>>
  ELSE IF opts.count THEN <<>>
  ELSE <<Item("lines", pagenum, page_count)>>

\* (mutant) the limit does not end the loop.
StopWithoutLimit ==
  page_count > 0 /\ (opts.quiet \/ opts.only_filenames = "WITH_MATCHES")

\* The three break statements of the loop.
StopAfterPage ==
  \/ page_count > 0 /\ (opts.quiet \/ opts.only_filenames = "WITH_MATCHES")
  \/ opts.max_count > 0 /\ total_count + page_count >= opts.max_count

\* (mutant) pages from the cache do not count.
RenderedPagesBlank == document_empty /\ (CacheHit \/ page_text = EmptyText)
StillBlank == document_empty /\ page_text = EmptyText

SearchPage ==
  /\ AtPage /\ InRange
  /\ CacheHit \/ doc[pagenum].renders
  /\ cache' = IF opts.use_cache /\ ~CacheHit THEN set_page(pagenum, page_text) ELSE cache
  /\ document_empty' = StillBlank
  /\ total_count' = total_count + page_count
  /\ \E trailing \in {FALSE, opts.context} : stdout' = stdout \o PageOutput(trailing)
  /\ read' = Append(read, pagenum)
  /\ \/ StopAfterPage  /\ pc' = "break" /\ UNCHANGED pagenum
     \/ ~StopAfterPage /\ pagenum' = pagenum + 1 /\ UNCHANGED pc
  /\ UNCHANGED <<doc, stored, opts, stderr, runs>>

\* (mutant) -L names every file.
ClosingNamesAll ==
  IF opts.only_filenames = "WITHOUT_MATCH" /\ ~opts.quiet THEN <<Filename>> ELSE <<>>

ClosingOutput ==
  (IF opts.only_filenames = "WITHOUT_MATCH" /\ total_count = 0 /\ ~opts.quiet
   THEN <<Filename>> ELSE <<>>)
  \o (IF opts.count /\ opts.only_filenames = "NOPE" /\ ~opts.quiet
      THEN <<Item("count", 0, total_count)>> ELSE <<>>)

\* (mutant) only the pages that were looked at.
DumpedUpToHere == [valid |-> TRUE, pages |-> SubSeq(cache.pages, 1, Len(read))]
Dumped == [valid |-> TRUE, pages |-> cache.pages]

\* Behind the loop.  dump() does nothing if the file cannot be opened.
Finish ==
  /\ pc = "break" \/ (pc = "page" /\ pagenum > Len(doc))
  /\ stdout' = stdout \o ClosingOutput
  /\ stderr' = IF opts.warn_empty /\ document_empty THEN Append(stderr, WarnEmpty)
               ELSE stderr
  /\ \/ opts.use_cache /\ stored' = Dumped
     \/ UNCHANGED stored
  /\ runs' = runs + 1
  /\ pc' = "idle"
  /\ UNCHANGED <<doc, opts, cache, pagenum, total_count, document_empty, read>>

\* limit_cachesize() of another pdfgrep, or the user, unlinks the cache file.
Evict ==
  /\ stored.valid
  /\ stored' = NoCache
  /\ UNCHANGED <<doc, opts, cache, pagenum, total_count, document_empty,
                 stdout, stderr, read, runs, pc>>

LastRunDone == pc = "idle" /\ runs = MaxRuns /\ UNCHANGED vars

Loop == SkipPage \/ PageFails \/ SearchPage \/ Finish
Next == Start \/ Loop \/ Evict \/ LastRunDone

Spec == Init /\ [][Next]_vars
FairSpec == Spec /\ WF_vars(Loop)

-----------------------------------------------------------------------------
TypeOK ==
  /\ doc \in Docs /\ opts \in OptionSet
  /\ stored \in CacheType /\ cache \in CacheType
  /\ pagenum \in Nat \ {0} /\ total_count \in Nat /\ document_empty \in BOOLEAN
  /\ stdout \in Seq(ItemType) /\ stderr \in Seq(ItemType)
  /\ read \in Seq(Nat)
  /\ pc \in {"idle", "page", "break"}
  /\ runs \in 0..(IF pc = "idle" THEN MaxRuns ELSE MaxRuns - 1)

\* What a run has to find, from the PDF alone.
Returned == pc = "idle" /\ runs > 0
Asked(p) == opts.page_range = <<>> \/ \E r \in Range(opts.page_range) : p \in r.from..r.to
Wanted == {p \in 1..Len(doc) : Asked(p) /\ doc[p].renders}
MatchesUpTo(k) ==
  MapThenSumSet(LAMBDA p : opts.pattern[doc[p].text], {p \in Wanted : p <= k})
AllMatches == MatchesUpTo(Len(doc))
OneMatchDecides == opts.quiet \/ opts.only_filenames = "WITH_MATCHES"
DecidedBy(k) == \/ OneMatchDecides /\ MatchesUpTo(k) > 0
                \/ opts.max_count > 0 /\ MatchesUpTo(k) >= opts.max_count

\* -m NUM: a run never counts more than NUM matches, however the matches are
\* spread over the pages, and never enters a page with the limit used up.
MaxCountRespected ==
  opts.max_count > 0 => /\ total_count <= opts.max_count
                        /\ pc = "page" => total_count < opts.max_count

\* The number behind -c and the exit status: all matches on the pages of the
\* range that render, cut at -m, or 1 when one match decides.  Where the texts
\* come from must not matter: document_fresh checks it without a cache,
\* document_cached_range shows a cache that falsifies the count, and CountIsRight
\* in SearchDocumentProofs has the caches with which it is exact.
CountIsExact ==
  Returned => total_count =
    IF OneMatchDecides THEN Min({1, AllMatches})
    ELSE IF opts.max_count > 0 THEN Min({opts.max_count, AllMatches})
    ELSE AllMatches

\* -m, -q and -l stop reading: a page is searched if and only if it is wanted
\* and the pages before it have not decided the answer, and never twice.
ReadsWhatIsNeeded ==
  Returned => /\ Range(read) = {p \in Wanted : ~DecidedBy(p - 1)}
              /\ Len(read) = Cardinality(Range(read))

\* -l names the file once if it has a match, -L once if it has none, and
\* nothing else ever names it; -q silences both.
MustBeNamed ==
  /\ ~opts.quiet
  /\ \/ opts.only_filenames = "WITH_MATCHES" /\ AllMatches > 0
     \/ opts.only_filenames = "WITHOUT_MATCH" /\ AllMatches = 0
NamesTheFile ==
  Returned => Cardinality({i \in DOMAIN stdout : stdout[i] = Filename})
                = (IF MustBeNamed THEN 1 ELSE 0)

\* -p: the counts printed for the pages add up to the matches of the file, no
\* page is printed twice, and none with the count 0.
PageCountsAddUp ==
  LET counts == {i \in DOMAIN stdout : stdout[i].kind = "page count"}
  IN  (opts.pagecount /\ opts.only_filenames = "NOPE" /\ ~opts.quiet) =>
        /\ MapThenSumSet(LAMBDA i : stdout[i].number, counts) = total_count
        /\ \A i, j \in counts : i < j => stdout[i].page < stdout[j].page
        /\ \A i \in counts : stdout[i].number > 0

\* What is left of the normal output under the options that suppress it: nothing
\* with -q, the name with -l, and with -L the name or, from a file that has
\* matches, the context lines behind the last match of a page.  The manual has -L
\* suppress these, too; they come only with -A or -C and without -c and -p, and
\* never together with the name.
SuppressedOutput ==
  /\ opts.quiet => stdout = <<>>
  /\ opts.only_filenames = "WITH_MATCHES" => Range(stdout) \subseteq {Filename}
  /\ opts.only_filenames = "WITHOUT_MATCH" =>
       \/ Range(stdout) \subseteq {Filename} /\ (stdout # <<>> => total_count = 0)
       \/ /\ total_count > 0 /\ opts.context /\ ~opts.count /\ ~opts.pagecount
          /\ \A i \in DOMAIN stdout : stdout[i].kind = "context"

\* --warn-empty: the warning appears exactly if no page that was searched has
\* text, also when the pages came from the cache.
WarnsIfNoTextWasSeen ==
  Returned => (WarnEmpty \in Range(stderr) <=>
                 opts.warn_empty /\ \A i \in DOMAIN read : doc[read[i]].text = EmptyText)

\* A page that cannot be rendered is reported, unless with -q, by every run that
\* comes to it and does not find it in the cache.  It is in the cache, as an empty
\* page that is searched in silence, where resize() made room for a page behind
\* it that an earlier run has rendered, and nowhere else.  (A pattern that matches
\* the empty page may stop the run there: see CountIsExact in
\* document_cached_range.)
FailuresReported ==
  (Returned /\ (opts.use_cache => opts.pattern[EmptyText] = 0)) =>
    \A p \in 1..Len(doc) :
      /\ PageError(p) \in Range(stderr) <=>
           /\ ~opts.quiet /\ ~doc[p].renders /\ Asked(p) /\ ~DecidedBy(p)
           /\ p \notin Range(read)
      /\ p \in Range(read) /\ ~doc[p].renders =>
           opts.use_cache /\ \E q \in (p + 1)..Len(cache.pages) : doc[q].renders

\* What is cached is the rendered text: in the file and in memory, every cached
\* page is the page of the PDF with the same number (an empty one if that does not
\* render), and the last of them has been rendered.
CachedIsRendered(c) ==
  /\ \A p \in 1..Len(c.pages) : p <= Len(doc) /\ c.pages[p] = doc[p].text
  /\ c.pages # <<>> => doc[Len(c.pages)].renders
CacheIsFaithful == CachedIsRendered(stored) /\ CachedIsRendered(cache)

\* A run that stops early does not spoil the cache for the next one: rewriting
\* the file never loses a page or changes one.
CacheNeverForgets == [][stored'.valid => IsPrefix(stored.pages, stored'.pages)]_vars

\* A run that has started comes to an end.
RunReturns == pc = "page" ~> pc = "idle"
=============================================================================
