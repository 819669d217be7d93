------------------------- MODULE SearchDocumentProofs -------------------------
(***************************************************************************)
(* Proofs about search_document() and its cache, for all documents,        *)
(* command lines, patterns and numbers of runs.  Without hypothesis: the   *)
(* types, the limit of -m, the options that suppress output, the counts    *)
(* printed with -p, and that a cache file only grows.  What depends on the *)
(* texts being those of the PDF (the count, the name, the errors and       *)
(* warnings) needs that no cache with a hole is used and that no pattern   *)
(* matches a page that failed (NoHoleInCache), and which pages are read,   *)
(* that none of those is cached; that the cache is faithful needs that no  *)
(* run leaves a hole.                                                      *)
(***************************************************************************)
EXTENDS SearchDocument, DataLemmas

LEMMA ShortSequences ==
  ASSUME NEW S, NEW x \in S
  PROVE  <<>> \in Seq(S) /\ <<x>> \in Seq(S)
OBVIOUS

\* What the options and the pages of the PDF are.
LEMMA InputTypes ==
  ASSUME TypeOK
  PROVE  /\ opts \in OptionType /\ doc \in Seq(PageType)
         /\ opts.max_count \in Nat /\ opts.pattern \in [Texts -> Nat]
         /\ opts.quiet \in BOOLEAN /\ opts.use_cache \in BOOLEAN
         /\ opts.only_filenames \in OnlyFilenames
<1>1. opts \in OptionType /\ doc \in Seq(PageType)
  BY DocsAssumption, OptionsAssumption DEF TypeOK
<1> QED
  BY <1>1 DEF OptionType

\* The text of a page is a text, from wherever it comes.
LEMMA PageTextType ==
  ASSUME TypeOK, AtPage
  PROVE  page_text \in Texts
<1>1. CASE CacheHit
  <2>1. cache.pages \in Seq(Texts) /\ pagenum \in Nat \ {0}
    BY DEF TypeOK, CacheType
  <2>2. pagenum <= Len(cache.pages)
    BY <1>1 DEF CacheHit, get_page
  <2>3. cache.pages[pagenum] \in Texts
    BY <2>1, <2>2
  <2> QED BY <1>1, <2>3 DEF page_text
<1>2. CASE ~CacheHit
  <2>1. doc \in Seq(PageType) /\ pagenum \in Nat \ {0} /\ pagenum <= Len(doc)
    BY InputTypes DEF TypeOK, AtPage
  <2>2. doc[pagenum] \in PageType
    BY <2>1
  <2> QED BY <1>2, <2>2 DEF page_text, PageType
<1> QED
  BY <1>1, <1>2

\* search_page never takes the total over the limit.
LEMMA PageCountType ==
  ASSUME TypeOK, MaxCountRespected, AtPage
  PROVE  /\ page_count \in Nat
         /\ opts.max_count > 0 => total_count + page_count <= opts.max_count
<1>1. opts.pattern[page_text] \in Nat
  BY InputTypes, PageTextType
<1>2. /\ total_count \in Nat /\ opts.max_count \in Nat
      /\ opts.max_count > 0 => total_count < opts.max_count
  BY InputTypes DEF TypeOK, MaxCountRespected, AtPage
<1> QED
  BY <1>1, <1>2 DEF page_count

\* set_page keeps the type, and puts the text where it belongs.
LEMMA SetPageType ==
  ASSUME cache \in CacheType, NEW p \in Nat \ {0}, NEW t \in Texts
  PROVE  LET c == set_page(p, t) IN
           /\ c \in CacheType /\ c.valid = cache.valid
           /\ Len(c.pages) = IF p > Len(cache.pages) THEN p ELSE Len(cache.pages)
           /\ \A i \in 1..Len(c.pages) :
                c.pages[i] = IF i = p THEN t
                             ELSE IF i <= Len(cache.pages) THEN cache.pages[i]
                             ELSE EmptyText
<1> DEFINE old == cache.pages
           n == IF p > Len(old) THEN p ELSE Len(old)
           new == [i \in 1..n |-> IF i = p THEN t ELSE IF i <= Len(old) THEN old[i]
                                  ELSE EmptyText]
<1>1. old \in Seq(Texts) /\ Len(old) \in Nat /\ n \in Nat /\ cache.valid \in BOOLEAN
  BY DEF CacheType
<1>2. \A i \in 1..n : new[i] \in Texts
  BY <1>1, TextsAssumption
<1>3. new \in Seq(Texts) /\ Len(new) = n
  <2> HIDE DEF n
  <2> QED BY <1>1, <1>2
<1>4. set_page(p, t) = [valid |-> cache.valid, pages |-> new]
  BY DEF set_page, CacheType
<1> QED
  BY <1>1, <1>3, <1>4 DEF CacheType

-----------------------------------------------------------------------------
\* The state is well typed, and -m NUM holds over all pages of the file: one
\* induction, since a page may only add what the limit leaves.
TypedAndLimited == TypeOK /\ MaxCountRespected

LEMMA TypedAndLimitedInit == Init => TypedAndLimited
<1> SUFFICES ASSUME Init PROVE TypedAndLimited
  OBVIOUS
<1>1. opts \in OptionSet
  BY OptionsAssumption DEF Init
<1>2. opts.max_count \in Nat
  BY <1>1, OptionsAssumption DEF OptionType
<1>3. NoCache \in CacheType
  BY DEF NoCache, CacheType
<1>4. TypeOK
  BY <1>1, <1>3, RunsAssumption DEF Init, TypeOK
<1>5. MaxCountRespected
  BY <1>2 DEF Init, MaxCountRespected
<1> QED
  BY <1>4, <1>5 DEF TypedAndLimited

LEMMA SearchPageTyped ==
  ASSUME TypedAndLimited, SearchPage
  PROVE  TypedAndLimited'
<1> USE DEF TypedAndLimited
<1>1. /\ page_count \in Nat /\ page_text \in Texts /\ total_count \in Nat
      /\ opts.max_count \in Nat
      /\ opts.max_count > 0 => total_count + page_count <= opts.max_count
  BY PageCountType, PageTextType, InputTypes DEF SearchPage, StillBlank, TypeOK
<1>2. pagenum \in Nat \ {0} /\ cache \in CacheType /\ document_empty \in BOOLEAN
  BY DEF TypeOK
<1>3. cache' \in CacheType
  BY <1>1, <1>2, SetPageType DEF SearchPage
<1>4. \A trailing : PageOutput(trailing) \in Seq(ItemType)
  <2> TAKE trailing
  <2>1. /\ Filename \in ItemType
        /\ Item("context", pagenum, 0) \in ItemType
        /\ Item("page count", pagenum, page_count) \in ItemType
        /\ Item("lines", pagenum, page_count) \in ItemType
    BY <1>1, <1>2 DEF Item, ItemType, Filename
  <2>2. \/ PageOutput(trailing) = <<>> \/ PageOutput(trailing) = <<Filename>>
        \/ PageOutput(trailing) = <<Item("context", pagenum, 0)>>
        \/ PageOutput(trailing) = <<Item("page count", pagenum, page_count)>>
        \/ PageOutput(trailing) = <<Item("lines", pagenum, page_count)>>
    BY DEF PageOutput
  <2> QED BY <2>1, <2>2, ShortSequences, Zenon
<1>5. stdout' \in Seq(ItemType)
  <2>1. PICK trailing : stdout' = stdout \o PageOutput(trailing)
    BY DEF SearchPage
  <2> QED BY <1>4, <2>1 DEF TypeOK
<1>6. total_count' = total_count + page_count /\ opts' = opts
  BY DEF SearchPage
<1>7. TypeOK'
  <2>1. /\ pagenum' \in Nat \ {0} /\ pc' \in {"idle", "page", "break"}
        /\ total_count' \in Nat /\ read' \in Seq(Nat)
        /\ document_empty' \in BOOLEAN
    BY <1>1, <1>2, <1>6 DEF SearchPage, StillBlank, TypeOK
  <2>2. stored' = stored /\ doc' = doc /\ opts' = opts /\ runs' = runs /\ stderr' = stderr
    BY DEF SearchPage
  <2>3. pc = "page" /\ pc' # "idle"
    BY DEF SearchPage, AtPage
  <2> QED BY <1>3, <1>5, <2>1, <2>2, <2>3 DEF TypeOK
<1>8. MaxCountRespected'
  <2>1. CASE pc' = "break"
    BY <1>1, <1>6, <2>1 DEF MaxCountRespected
  <2>2. CASE ~StopAfterPage
    BY <1>1, <1>6, <2>2 DEF MaxCountRespected, StopAfterPage
  <2> QED BY <2>1, <2>2 DEF SearchPage
<1> QED
  BY <1>7, <1>8

LEMMA TypedAndLimitedNext ==
  ASSUME TypedAndLimited, [Next]_vars
  PROVE  TypedAndLimited'
<1>1. CASE Start
  <2>1. opts' \in OptionSet /\ opts'.max_count \in Nat
    BY <1>1, OptionsAssumption DEF Start, Begin, OptionType
  <2>2. cache' \in CacheType
    BY <1>1 DEF Start, Begin, TypedAndLimited, TypeOK, NoCache, CacheType
  <2>3. TypeOK'
    BY <1>1, <2>1, <2>2, RunsAssumption DEF Start, Begin, TypedAndLimited, TypeOK
  <2>4. MaxCountRespected'
    BY <1>1, <2>1 DEF Start, Begin, MaxCountRespected
  <2> QED BY <2>3, <2>4 DEF TypedAndLimited
<1>2. CASE SkipPage
  BY <1>2 DEF SkipPage, TypedAndLimited, TypeOK, MaxCountRespected
<1>3. CASE PageFails
  <2>1. stderr' \in Seq(ItemType)
    <3>1. PageError(pagenum) \in ItemType /\ stderr \in Seq(ItemType)
      BY DEF TypedAndLimited, TypeOK, PageError, Item, ItemType
    <3> QED BY <1>3, <3>1 DEF PageFails, WithPageError
  <2> QED
    BY <1>3, <2>1 DEF PageFails, WithPageError, TypedAndLimited, TypeOK, MaxCountRespected
<1>4. CASE SearchPage
  BY <1>4, SearchPageTyped
<1>5. CASE Finish
  <2>1. total_count \in Nat /\ stdout \in Seq(ItemType) /\ stderr \in Seq(ItemType)
    BY DEF TypedAndLimited, TypeOK
  <2>2. ClosingOutput \in Seq(ItemType)
    <3>1. Filename \in ItemType /\ Item("count", 0, total_count) \in ItemType
      BY <2>1 DEF Filename, Item, ItemType
    <3> QED BY <3>1 DEF ClosingOutput
  <2>3. stdout' \in Seq(ItemType) /\ stderr' \in Seq(ItemType)
    <3>1. WarnEmpty \in ItemType
      BY DEF WarnEmpty, Item, ItemType
    <3> QED BY <1>5, <2>1, <2>2, <3>1 DEF Finish, Dumped
  <2>4. stored' \in CacheType
    <3>1. [valid |-> TRUE, pages |-> cache.pages] \in CacheType /\ stored \in CacheType
      BY DEF TypedAndLimited, TypeOK, CacheType
    <3> QED BY <1>5, <3>1 DEF Finish, Dumped
  <2>5. runs' \in 0..MaxRuns
    BY <1>5, RunsAssumption DEF Finish, Dumped, TypedAndLimited, TypeOK
  <2> QED
    BY <1>5, <2>3, <2>4, <2>5
    DEF Finish, Dumped, TypedAndLimited, TypeOK, MaxCountRespected
<1>6. CASE Evict
  <2>1. stored' \in CacheType
    BY <1>6 DEF Evict, NoCache, CacheType
  <2> QED BY <1>6, <2>1 DEF Evict, TypedAndLimited, TypeOK, MaxCountRespected
<1>7. CASE UNCHANGED vars
  BY <1>7 DEF vars, TypedAndLimited, TypeOK, MaxCountRespected
<1> QED
  BY <1>1, <1>2, <1>3, <1>4, <1>5, <1>6, <1>7 DEF Next, Loop, LastRunDone

\* The state of search_document is well typed.
THEOREM TypeCorrect == Spec => []TypeOK
<1>1. TypedAndLimited => TypeOK
  BY DEF TypedAndLimited
<1> QED
  BY <1>1, TypedAndLimitedInit, TypedAndLimitedNext, PTL DEF Spec

\* -m NUM: for every number, document and pattern, the matches of a file never
\* exceed NUM, and no page is entered with the limit used up.
THEOREM LimitHolds == Spec => []MaxCountRespected
<1>1. TypedAndLimited => MaxCountRespected
  BY DEF TypedAndLimited
<1> QED
  BY <1>1, TypedAndLimitedInit, TypedAndLimitedNext, PTL DEF Spec

-----------------------------------------------------------------------------
LEMMA AppendAsConcat ==
  ASSUME NEW S, NEW s \in Seq(S), NEW x \in S
  PROVE  s \o <<x>> = Append(s, x) /\ s \o <<>> = s /\ <<>> \o <<x>> = <<x>>
OBVIOUS

LEMMA RangeAppend ==
  ASSUME NEW S, NEW s \in Seq(S), NEW x \in S
  PROVE  /\ Range(Append(s, x)) = Range(s) \cup {x}
         /\ DOMAIN Append(s, x) = 1..(Len(s) + 1) /\ DOMAIN s = 1..Len(s) /\ Len(s) \in Nat
         /\ \A i \in 1..Len(s) : Append(s, x)[i] = s[i]
         /\ Append(s, x)[Len(s) + 1] = x
<1> DEFINE r == Append(s, x)
<1>1. /\ DOMAIN r = 1..(Len(s) + 1) /\ DOMAIN s = 1..Len(s) /\ Len(s) \in Nat
      /\ \A i \in 1..Len(s) : r[i] = s[i]
      /\ r[Len(s) + 1] = x
  OBVIOUS
<1> HIDE DEF r
<1>2. 1..(Len(s) + 1) = 1..Len(s) \cup {Len(s) + 1}
  BY <1>1
<1>3. Range(r) = Range(s) \cup {x}
  BY <1>1, <1>2 DEF Range
<1> QED BY <1>1, <1>3 DEF r

\* What the options that suppress the normal output let through, by items; the
\* name comes last with -L, and only if nothing else has.
OnlyContext == \A e \in Range(stdout) : e.kind = "context"
Suppressed ==
  /\ opts.quiet => stdout = <<>>
  /\ opts.only_filenames = "WITH_MATCHES" => Range(stdout) \subseteq {Filename}
  /\ opts.only_filenames = "WITHOUT_MATCH" =>
       /\ pc # "idle" /\ total_count = 0 => stdout = <<>>
       /\ total_count = 0 => Range(stdout) \subseteq {Filename}
       /\ total_count > 0 /\ stdout # <<>> =>
            opts.context /\ ~opts.count /\ ~opts.pagecount /\ OnlyContext

LEMMA SuppressedOnPage ==
  ASSUME TypedAndLimited, Suppressed, SearchPage
  PROVE  Suppressed'
<1>1. /\ AtPage /\ pc = "page" /\ opts' = opts /\ total_count' = total_count + page_count
      /\ total_count \in Nat /\ stdout \in Seq(ItemType) /\ pagenum \in Nat
      /\ opts.context \in BOOLEAN
  BY InputTypes DEF SearchPage, AtPage, TypedAndLimited, TypeOK, OptionType
<1>2. page_count \in Nat
  BY <1>1, PageCountType DEF TypedAndLimited
<1>3. PICK trailing \in {FALSE, opts.context} : stdout' = stdout \o PageOutput(trailing)
  BY DEF SearchPage
<1>4. CASE PageOutput(trailing) = <<>>
  <2>1. stdout' = stdout
    BY <1>1, <1>3, <1>4
  <2>2. total_count' > 0 /\ total_count = 0 => stdout = <<>> \/ opts.only_filenames # "WITHOUT_MATCH"
    BY <1>1 DEF Suppressed
  <2>3. total_count' = 0 => total_count = 0
    BY <1>1, <1>2
  <2>4. total_count' > 0 => total_count > 0 \/ total_count = 0
    BY <1>1
  <2>5. OnlyContext' = OnlyContext
    BY <2>1 DEF OnlyContext, Range
  <2> QED BY <1>1, <2>1, <2>2, <2>3, <2>4, <2>5 DEF Suppressed, Range
<1>5. CASE PageOutput(trailing) # <<>>
  <2>1. ~opts.quiet /\ page_count > 0 /\ total_count' > 0
    BY <1>1, <1>2, <1>5 DEF PageOutput
  <2>2. ASSUME opts.only_filenames = "WITH_MATCHES"
        PROVE  Range(stdout') \subseteq {Filename}
    <3>1. PageOutput(trailing) = <<Filename>> /\ Filename \in ItemType
      BY <1>5, <2>2 DEF PageOutput, Filename, Item, ItemType
    <3>2. stdout' = Append(stdout, Filename)
      BY <1>1, <1>3, <3>1, AppendAsConcat
    <3>3. Range(stdout') = Range(stdout) \cup {Filename}
      BY <1>1, <3>1, <3>2, RangeAppend
    <3> QED BY <2>2, <3>3 DEF Suppressed
  <2>3. ASSUME opts.only_filenames = "WITHOUT_MATCH"
        PROVE  opts.context /\ ~opts.count /\ ~opts.pagecount /\ OnlyContext'
    <3> DEFINE e == Item("context", pagenum, 0)
    <3>1. /\ trailing /\ ~opts.count /\ ~opts.pagecount /\ PageOutput(trailing) = <<e>>
          /\ e \in ItemType /\ e.kind = "context"
      BY <1>1, <1>5, <2>3 DEF PageOutput, Item, ItemType
    <3> HIDE DEF e
    <3>0. stdout' = Append(stdout, e)
      BY <1>1, <1>3, <3>1, AppendAsConcat
    <3>2. Range(stdout') = Range(stdout) \cup {e}
      BY <1>1, <3>0, <3>1, RangeAppend
    <3>3. OnlyContext
      <4>1. CASE total_count = 0
        BY <1>1, <2>3, <4>1 DEF Suppressed, OnlyContext, Range
      <4>2. CASE total_count > 0 /\ stdout = <<>>
        BY <4>2 DEF OnlyContext, Range
      <4>3. CASE total_count > 0 /\ stdout # <<>>
        BY <2>3, <4>3 DEF Suppressed
      <4> QED BY <1>1, <4>1, <4>2, <4>3
    <3>4. OnlyContext'
      BY <3>1, <3>2, <3>3 DEF OnlyContext
    <3> QED BY <1>3, <3>1, <3>4
  <2> QED BY <1>1, <1>2, <2>1, <2>2, <2>3 DEF Suppressed
<1> QED BY <1>4, <1>5

LEMMA SuppressedAtEnd ==
  ASSUME TypedAndLimited, Suppressed, Finish
  PROVE  Suppressed'
<1>1. /\ pc # "idle" /\ pc' = "idle" /\ opts' = opts /\ total_count' = total_count
      /\ stdout' = stdout \o ClosingOutput
      /\ total_count \in Nat /\ stdout \in Seq(ItemType)
  BY DEF Finish, TypedAndLimited, TypeOK
<1>2. Filename \in ItemType /\ <<Filename>> \o <<>> = <<Filename>> /\ <<>> \o <<>> = <<>>
  BY DEF Filename, Item, ItemType
<1>3. opts.quiet => ClosingOutput = <<>>
  BY <1>2 DEF ClosingOutput
<1>4. opts.only_filenames = "WITH_MATCHES" => ClosingOutput = <<>>
  BY <1>2 DEF ClosingOutput
<1>5. opts.only_filenames = "WITHOUT_MATCH" =>
        ClosingOutput = IF total_count = 0 /\ ~opts.quiet THEN <<Filename>> ELSE <<>>
  BY <1>2, Zenon DEF ClosingOutput
<1>6. CASE ClosingOutput = <<>>
  <2>1. stdout' = stdout
    BY <1>1, <1>6
  <2>2. OnlyContext' = OnlyContext
    BY <2>1 DEF OnlyContext, Range
  <2> QED BY <1>1, <2>1, <2>2 DEF Suppressed, Range
<1>7. CASE ClosingOutput # <<>> /\ opts.only_filenames = "WITHOUT_MATCH"
  <2>1. ClosingOutput = <<Filename>> /\ total_count = 0 /\ ~opts.quiet
    BY <1>5, <1>7
  <2>2. stdout = <<>>
    BY <1>1, <1>7, <2>1 DEF Suppressed
  <2>3. Range(stdout') = {Filename}
    <3>1. stdout' = Append(stdout, Filename)
      BY <1>1, <1>2, <2>1, AppendAsConcat
    <3>2. Range(stdout') = Range(stdout) \cup {Filename} /\ Range(stdout) = {}
      BY <1>1, <1>2, <2>2, <3>1, RangeAppend DEF Range
    <3> QED BY <3>2
  <2> QED BY <1>1, <1>7, <2>1, <2>3 DEF Suppressed
<1>8. CASE ClosingOutput # <<>> /\ opts.only_filenames # "WITHOUT_MATCH"
  BY <1>1, <1>3, <1>4, <1>8 DEF Suppressed
<1> QED BY <1>6, <1>7, <1>8

\* In every state, for every document, pattern and combination of options: -q
\* prints nothing, -l nothing but the name, and -L the name of a file without a
\* match or, only with -A or -C and without -c and -p, context lines of one that
\* has matches.
THEOREM SuppressionHolds == Spec => []SuppressedOutput
<1>1. Init => Suppressed
  BY DEF Init, Suppressed, Range
<1>2. TypedAndLimited /\ Suppressed /\ [Next]_vars => Suppressed'
  <2> SUFFICES ASSUME TypedAndLimited, Suppressed, [Next]_vars
               PROVE  Suppressed'
    OBVIOUS
  <2>1. CASE Start
    BY <2>1 DEF Start, Begin, Suppressed, Range
  <2>2. CASE UNCHANGED <<opts, stdout, total_count, pc>>
    <3>1. OnlyContext' = OnlyContext
      BY <2>2 DEF OnlyContext, Range
    <3> QED BY <2>2, <3>1 DEF Suppressed, Range
  <2> QED
    BY <2>1, <2>2, SuppressedOnPage, SuppressedAtEnd
    DEF Next, Loop, LastRunDone, SkipPage, PageFails, Evict, vars
<1>3. TypeOK /\ Suppressed => SuppressedOutput
  <2> SUFFICES ASSUME TypeOK, Suppressed PROVE SuppressedOutput
    OBVIOUS
  <2>1. total_count \in Nat /\ \A i \in DOMAIN stdout : stdout[i] \in Range(stdout)
    BY DEF TypeOK, Range
  <2>2. stdout = <<>> => Range(stdout) \subseteq {Filename}
    BY DEF Range
  <2> QED BY <2>1, <2>2 DEF Suppressed, OnlyContext, SuppressedOutput
<1> QED
  BY <1>1, <1>2, <1>3, TypedAndLimitedInit, TypedAndLimitedNext, TypeCorrect, PTL DEF Spec

-----------------------------------------------------------------------------
\* Command lines whose page range leaves no page out in front of one it contains.
NoPageLeftOut ==
  \A o \in OptionSet : o.use_cache =>
    \A p \in Nat \ {0} : contains(o.page_range, p + 1) => contains(o.page_range, p)

\* Documents without a page that fails, and patterns that do not match a page
\* without text, which is what a failed page becomes in the cache.
EveryPageRenders == \A d \in Docs : \A p \in 1..Len(d) : d[p].renders
NothingMatchesEmptyPages ==
  \A o \in OptionSet : o.use_cache => o.pattern[EmptyText] = 0

\* The cache has grown up to the current page, but for pages that do not render,
\* unless the range is exhausted.
NoHole ==
  opts.use_cache /\ pc = "page" =>
    \/ ~contains(opts.page_range, pagenum)
    \/ \A p \in (Len(cache.pages) + 1)..(pagenum - 1) : ~doc[p].renders

\* A page that does not render has no text.
LEMMA BrokenIsEmpty ==
  ASSUME TypeOK, NEW p \in 1..Len(doc), ~doc[p].renders
  PROVE  doc[p].text = EmptyText
BY DocsAssumption DEF TypeOK

LEMMA FaithfulOnPage ==
  ASSUME NoPageLeftOut, TypeOK, CacheIsFaithful, NoHole, SearchPage
  PROVE  CacheIsFaithful' /\ NoHole'
<1>1. /\ opts' = opts /\ doc' = doc /\ stored' = stored /\ pc = "page" /\ AtPage /\ InRange
      /\ pagenum \in Nat \ {0} /\ pagenum <= Len(doc) /\ Len(doc) \in Nat
      /\ cache \in CacheType /\ Len(cache.pages) \in Nat
  BY InputTypes DEF SearchPage, AtPage, TypeOK, CacheType
<1>2. pagenum' \in {pagenum, pagenum + 1}
  BY DEF SearchPage
<1>3. CASE opts.use_cache /\ ~CacheHit
  <2>1. /\ cache' = set_page(pagenum, doc[pagenum].text)
        /\ page_text = doc[pagenum].text /\ doc[pagenum].renders
    BY <1>3 DEF SearchPage, page_text
  <2>2. \A p \in (Len(cache.pages) + 1)..(pagenum - 1) : ~doc[p].renders
    BY <1>1, <1>3 DEF NoHole, InRange
  <2>3. doc[pagenum].text \in Texts
    BY <1>1, <2>1, PageTextType
  <2>4. /\ cache' \in CacheType
        /\ Len(cache'.pages) = IF pagenum > Len(cache.pages) THEN pagenum
                               ELSE Len(cache.pages)
        /\ \A i \in 1..Len(cache'.pages) :
             cache'.pages[i] = IF i = pagenum THEN doc[pagenum].text
                               ELSE IF i <= Len(cache.pages) THEN cache.pages[i]
                               ELSE EmptyText
    BY <1>1, <2>1, <2>3, SetPageType
  <2>5. ASSUME NEW i \in 1..Len(cache'.pages)
        PROVE  i <= Len(doc) /\ cache'.pages[i] = doc[i].text
    <3>1. CASE i = pagenum
      BY <1>1, <2>4, <3>1
    <3>2. CASE i # pagenum /\ i <= Len(cache.pages)
      <4>1. i \in 1..Len(cache.pages) /\ cache'.pages[i] = cache.pages[i]
        BY <1>1, <2>4, <3>2
      <4> QED BY <4>1 DEF CacheIsFaithful, CachedIsRendered
    <3>3. CASE i # pagenum /\ ~(i <= Len(cache.pages))
      <4>1. /\ i \in (Len(cache.pages) + 1)..(pagenum - 1) /\ i \in 1..Len(doc)
            /\ cache'.pages[i] = EmptyText
        BY <1>1, <2>4, <3>3
      <4> QED BY <2>2, <4>1, BrokenIsEmpty
    <3> QED BY <3>1, <3>2, <3>3
  <2>6. doc[Len(cache'.pages)].renders
    <3>1. CASE pagenum > Len(cache.pages)
      BY <2>1, <2>4, <3>1
    <3>2. CASE ~(pagenum > Len(cache.pages))
      <4>1. cache.pages # <<>> /\ Len(cache'.pages) = Len(cache.pages)
        BY <1>1, <2>4, <3>2
      <4> QED BY <4>1 DEF CacheIsFaithful, CachedIsRendered
    <3> QED BY <3>1, <3>2
  <2>7. CacheIsFaithful'
    BY <1>1, <2>5, <2>6 DEF CacheIsFaithful, CachedIsRendered
  <2>8. (Len(cache'.pages) + 1)..(pagenum' - 1) = {}
    BY <1>1, <1>2, <2>4
  <2> QED BY <1>1, <2>7, <2>8 DEF NoHole
<1>4. CASE ~(opts.use_cache /\ ~CacheHit)
  <2>1. cache' = cache
    BY <1>4 DEF SearchPage
  <2>2. CacheIsFaithful'
    BY <1>1, <2>1 DEF CacheIsFaithful, CachedIsRendered
  <2>3. opts.use_cache => pagenum <= Len(cache.pages)
    BY <1>4, InputTypes DEF CacheHit, get_page
  <2>4. opts.use_cache => (Len(cache'.pages) + 1)..(pagenum' - 1) = {}
    BY <1>1, <1>2, <2>1, <2>3
  <2> QED BY <1>1, <2>2, <2>4 DEF NoHole
<1> QED BY <1>3, <1>4

\* Where pages are not left out, the cache in memory and in the file holds the
\* rendered pages, and empty ones for those that do not render, whatever runs
\* filled it, stopped early or found the file gone.
THEOREM CacheStaysFaithful ==
  ASSUME NoPageLeftOut
  PROVE  Spec => []CacheIsFaithful
<1>1. Init => CacheIsFaithful /\ NoHole
  BY DEF Init, CacheIsFaithful, CachedIsRendered, NoHole, NoCache
<1>2. TypeOK /\ CacheIsFaithful /\ NoHole /\ [Next]_vars
        => CacheIsFaithful' /\ NoHole'
  <2> SUFFICES ASSUME TypeOK, CacheIsFaithful, NoHole, [Next]_vars
               PROVE  CacheIsFaithful' /\ NoHole'
    OBVIOUS
  <2>1. CASE Start
    <3>1. CacheIsFaithful'
      BY <2>1 DEF Start, Begin, CacheIsFaithful, CachedIsRendered, NoCache
    <3>2. pagenum' = 1 /\ cache' \in CacheType
      BY <2>1 DEF Start, Begin, TypeOK, NoCache, CacheType
    <3>3. (Len(cache'.pages) + 1)..(pagenum' - 1) = {}
      BY <3>2 DEF CacheType
    <3> QED BY <3>1, <3>3 DEF NoHole
  <2>2. CASE SkipPage
    <3>1. CacheIsFaithful'
      BY <2>2 DEF SkipPage, CacheIsFaithful, CachedIsRendered
    <3>2. opts.use_cache => ~contains(opts.page_range, pagenum + 1)
      BY <2>2, NoPageLeftOut DEF SkipPage, InRange, TypeOK, NoPageLeftOut
    <3> QED BY <2>2, <3>1, <3>2 DEF SkipPage, NoHole
  <2>3. CASE PageFails
    <3>1. /\ UNCHANGED <<doc, opts, cache, stored, pc>> /\ pagenum' = pagenum + 1
          /\ ~doc[pagenum].renders /\ InRange /\ AtPage
      BY <2>3 DEF PageFails
    <3>2. CacheIsFaithful'
      BY <3>1 DEF CacheIsFaithful, CachedIsRendered
    <3>3. /\ pagenum \in Nat \ {0} /\ Len(cache.pages) \in Nat
      BY DEF TypeOK, CacheType
    <3>4. \A p \in (Len(cache.pages) + 1)..((pagenum + 1) - 1) :
            p = pagenum \/ p \in (Len(cache.pages) + 1)..(pagenum - 1)
      BY <3>3
    <3> QED BY <3>1, <3>2, <3>4 DEF NoHole, InRange, AtPage
  <2>4. CASE SearchPage
    BY <2>4, FaithfulOnPage
  <2>5. CASE Finish
    <3>1. /\ doc' = doc /\ cache' = cache /\ pc' = "idle"
          /\ stored' = stored \/ stored'.pages = cache.pages
      BY <2>5 DEF Finish, Dumped
    <3> QED BY <3>1 DEF CacheIsFaithful, CachedIsRendered, NoHole
  <2>6. CASE Evict
    BY <2>6 DEF Evict, CacheIsFaithful, CachedIsRendered, NoHole, NoCache
  <2>7. CASE UNCHANGED vars
    BY <2>7 DEF vars, CacheIsFaithful, CachedIsRendered, NoHole
  <2> QED
    BY <2>1, <2>2, <2>3, <2>4, <2>5, <2>6, <2>7 DEF Next, Loop, LastRunDone
<1> QED
  BY <1>1, <1>2, TypeCorrect, PTL DEF Spec

-----------------------------------------------------------------------------
\* While a run uses the cache, what is stored is the beginning of what the run
\* has in memory, unless somebody unlinked the file.
Extends(long, short) ==
  /\ Len(short) <= Len(long)
  /\ \A i \in 1..Len(short) : long[i] = short[i]
LoadedFromStored ==
  /\ ~stored.valid => stored.pages = <<>>
  /\ pc # "idle" /\ opts.use_cache /\ stored.valid =>
       cache.valid /\ Extends(cache.pages, stored.pages)

LEMMA ExtendsIsPrefix ==
  ASSUME NEW long \in Seq(Texts), NEW short \in Seq(Texts), Extends(long, short)
  PROVE  IsPrefix(short, long)
<1>1. /\ Len(short) \in Nat /\ Len(short) <= Len(long) /\ Len(long) \in Nat
      /\ \A i \in 1..Len(short) : long[i] = short[i]
  BY DEF Extends
<1>2. SubSeq(short, 1, Len(short)) = SubSeq(long, 1, Len(short))
  BY <1>1
<1> QED
  BY <1>1, <1>2 DEF IsPrefix

\* Rewriting the cache file never loses or changes a page that is in it, also if
\* the run read only a part of the document.
THEOREM CacheOnlyGrows == Spec => CacheNeverForgets
<1>1. Init => LoadedFromStored
  BY DEF Init, LoadedFromStored, NoCache
<1>2. TypeOK /\ LoadedFromStored /\ [Next]_vars => LoadedFromStored'
  <2> SUFFICES ASSUME TypeOK, LoadedFromStored, [Next]_vars
               PROVE  LoadedFromStored'
    OBVIOUS
  <2>0. /\ stored \in CacheType /\ cache \in CacheType /\ Len(stored.pages) \in Nat
        /\ Len(cache.pages) \in Nat /\ pagenum \in Nat \ {0}
    BY DEF TypeOK, CacheType
  <2>1. CASE Start
    BY <2>0, <2>1 DEF Start, Begin, LoadedFromStored, Extends
  <2>2. CASE SkipPage \/ PageFails
    BY <2>2 DEF SkipPage, PageFails, AtPage, LoadedFromStored, Extends
  <2>3. CASE SearchPage
    <3>1. opts' = opts /\ stored' = stored /\ pc # "idle"
      BY <2>3 DEF SearchPage, AtPage
    <3>2. CASE cache' = cache
      BY <3>1, <3>2 DEF LoadedFromStored, Extends
    <3>3. CASE cache' # cache /\ stored.valid
      <4>1. cache' = set_page(pagenum, page_text) /\ opts.use_cache /\ ~CacheHit
        BY <2>3, <3>3 DEF SearchPage
      <4>2. cache.valid /\ Extends(cache.pages, stored.pages)
        BY <3>1, <3>3, <4>1 DEF LoadedFromStored
      <4>3. pagenum > Len(cache.pages)
        BY <2>0, <4>1, <4>2 DEF CacheHit, get_page
      <4>4. page_text \in Texts
        BY <2>3, PageTextType DEF SearchPage
      <4>5. /\ cache'.valid = cache.valid /\ Len(cache'.pages) = pagenum
            /\ \A i \in 1..Len(cache.pages) : cache'.pages[i] = cache.pages[i]
        BY <2>0, <4>1, <4>3, <4>4, SetPageType
      <4>6. Extends(cache'.pages, stored.pages)
        BY <2>0, <4>2, <4>3, <4>5 DEF Extends
      <4> QED BY <3>1, <3>3, <4>2, <4>5, <4>6 DEF LoadedFromStored
    <3>4. CASE ~stored.valid
      BY <3>1, <3>4 DEF LoadedFromStored
    <3> QED BY <2>0, <3>2, <3>3, <3>4 DEF CacheType
  <2>4. CASE Finish
    BY <2>4 DEF Finish, Dumped, LoadedFromStored
  <2>5. CASE Evict
    BY <2>5 DEF Evict, NoCache, LoadedFromStored
  <2>6. CASE UNCHANGED vars
    BY <2>6 DEF vars, LoadedFromStored
  <2> QED
    BY <2>1, <2>2, <2>3, <2>4, <2>5, <2>6 DEF Next, Loop, LastRunDone
<1>3. TypeOK /\ LoadedFromStored /\ [Next]_vars
        => [stored'.valid => IsPrefix(stored.pages, stored'.pages)]_vars
  <2> SUFFICES ASSUME TypeOK, LoadedFromStored, Next, stored'.valid
               PROVE  IsPrefix(stored.pages, stored'.pages)
    OBVIOUS
  <2>0. /\ stored.pages \in Seq(Texts) /\ cache.pages \in Seq(Texts)
        /\ stored.valid \in BOOLEAN
    BY DEF TypeOK, CacheType
  <2>1. CASE stored' = stored
    <3>1. Extends(stored.pages, stored.pages)
      BY <2>0 DEF Extends
    <3> QED BY <2>0, <2>1, <3>1, ExtendsIsPrefix
  <2>2. CASE Finish /\ stored' # stored
    <3>1. stored'.pages = cache.pages /\ opts.use_cache /\ pc # "idle"
      BY <2>2 DEF Finish, Dumped
    <3>2. Extends(cache.pages, stored.pages)
      BY <2>0, <3>1 DEF LoadedFromStored, Extends
    <3> QED BY <2>0, <3>1, <3>2, ExtendsIsPrefix
  <2>3. ~Evict
    BY DEF Evict, NoCache
  <2> QED
    BY <2>1, <2>2, <2>3
    DEF Next, Loop, Start, SkipPage, PageFails, SearchPage, LastRunDone, vars
<1> QED
  BY <1>1, <1>2, <1>3, TypeCorrect, PTL DEF Spec, CacheNeverForgets

-----------------------------------------------------------------------------
\* The matches of the pages 1..k, as a sum.
MatchesOn(p) == opts.pattern[doc[p].text]
WantedUpTo(k) == {p \in Wanted : p <= k}

LEMMA WantedFinite ==
  ASSUME TypeOK, NEW k
  PROVE  /\ IsFiniteSet(WantedUpTo(k))
         /\ \A p \in WantedUpTo(k) : p \in 1..Len(doc) /\ MatchesOn(p) \in Nat
<1>1. doc \in Seq(PageType) /\ opts.pattern \in [Texts -> Nat] /\ Len(doc) \in Nat
  BY InputTypes
<1>2. IsFiniteSet(1..Len(doc))
  <2>1. 1 \in Int /\ Len(doc) \in Int
    BY <1>1
  <2> QED BY <2>1, FS_Interval
<1>3. WantedUpTo(k) \in SUBSET (1..Len(doc))
  BY DEF WantedUpTo, Wanted
<1>4. \A p \in 1..Len(doc) : doc[p].text \in Texts
  <2>1. \A p \in 1..Len(doc) : doc[p] \in PageType
    BY <1>1
  <2> QED BY <2>1 DEF PageType
<1> QED BY <1>1, <1>2, <1>3, <1>4, FS_Subset DEF MatchesOn

Weights(k) == [p \in WantedUpTo(k) |-> MatchesOn(p)]

LEMMA MatchesAreTotal ==
  ASSUME TypeOK, NEW k
  PROVE  /\ MatchesUpTo(k) = Total(Weights(k), WantedUpTo(k))
         /\ Weight(Weights(k), WantedUpTo(k))
<1> DEFINE S == WantedUpTo(k)
           w == Weights(k)
           iter == CHOOSE g : g = [s \in SUBSET S |->
                     IF s = {} THEN 0 ELSE opts.pattern[doc[CHOOSE x \in s : TRUE].text]
                                           + g[s \ {CHOOSE x \in s : TRUE}]]
<1>1. MatchesUpTo(k) = iter[S]
  BY Zenon DEF MatchesUpTo, MapThenSumSet, MapThenFoldSet, WantedUpTo
<1>2. IsFiniteSet(S) /\ Weight(w, S)
  BY WantedFinite DEF Weight, Weights
<1>3. \A p \in S : w[p] = opts.pattern[doc[p].text]
  BY DEF Weights, MatchesOn
<1>4. PICK g : SumsUp(g, w, S)
  BY <1>2, SumExists
<1> HIDE DEF w, S
<1>5. \A s \in SUBSET S : s # {} => (CHOOSE x \in s : TRUE) \in S
  OBVIOUS
<1>6. \A h : SumsUp(h, w, S) <=>
        h = [s \in SUBSET S |->
              IF s = {} THEN 0 ELSE opts.pattern[doc[CHOOSE x \in s : TRUE].text]
                                    + h[s \ {CHOOSE x \in s : TRUE}]]
  BY <1>3, <1>5 DEF SumsUp, Chosen
<1>7. SumsUp(iter, w, S)
  <2>1. \E h : h = [s \in SUBSET S |->
                     IF s = {} THEN 0 ELSE opts.pattern[doc[CHOOSE x \in s : TRUE].text]
                                           + h[s \ {CHOOSE x \in s : TRUE}]]
    <3>1. g = [s \in SUBSET S |->
                IF s = {} THEN 0 ELSE opts.pattern[doc[CHOOSE x \in s : TRUE].text]
                                      + g[s \ {CHOOSE x \in s : TRUE}]]
      BY <1>4, <1>6, Zenon
    <3> QED BY <3>1, Zenon
  <2>2. iter = [s \in SUBSET S |->
                 IF s = {} THEN 0 ELSE opts.pattern[doc[CHOOSE x \in s : TRUE].text]
                                       + iter[s \ {CHOOSE x \in s : TRUE}]]
    BY <2>1, Zenon
  <2> QED BY <1>6, <2>2, Zenon
<1> HIDE DEF iter
<1>8. iter[S] = Total(w, S)
  BY <1>2, <1>7, TotalIs
<1> QED BY <1>1, <1>2, <1>8 DEF w, S

\* Page by page.
LEMMA MatchesStep ==
  ASSUME TypeOK, NEW k \in Nat
  PROVE  /\ MatchesUpTo(k) \in Nat
         /\ MatchesUpTo(0) = 0
         /\ MatchesUpTo(k + 1) = MatchesUpTo(k) + (IF k + 1 \in Wanted THEN MatchesOn(k + 1) ELSE 0)
<1>1. MatchesUpTo(k) \in Nat
  BY MatchesAreTotal, WantedFinite, TotalType
<1>2. MatchesUpTo(0) = 0
  <2>1. WantedUpTo(0) = {}
    BY DEF WantedUpTo, Wanted
  <2> QED BY <2>1, MatchesAreTotal, TotalEmpty
<1>3. CASE k + 1 \in Wanted
  <2>1. /\ WantedUpTo(k) = WantedUpTo(k + 1) \ {k + 1}
        /\ k + 1 \in WantedUpTo(k + 1)
    BY <1>3 DEF WantedUpTo, Wanted
  <2>2. /\ AgreeOn(WantedUpTo(k), Weights(k), Weights(k + 1))
        /\ Weights(k + 1)[k + 1] = MatchesOn(k + 1)
    BY <2>1 DEF AgreeOn, Weights
  <2>3. IsFiniteSet(WantedUpTo(k + 1))
    BY WantedFinite
  <2>4. /\ Weight(Weights(k), WantedUpTo(k)) /\ Weight(Weights(k + 1), WantedUpTo(k + 1))
        /\ MatchesUpTo(k) = Total(Weights(k), WantedUpTo(k))
        /\ MatchesUpTo(k + 1) = Total(Weights(k + 1), WantedUpTo(k + 1))
    BY MatchesAreTotal
  <2>5. Total(Weights(k + 1), WantedUpTo(k + 1))
          = Total(Weights(k), WantedUpTo(k)) + Weights(k + 1)[k + 1]
    BY <2>1, <2>2, <2>3, <2>4, TotalAdd
  <2>6. MatchesUpTo(k + 1) = MatchesUpTo(k) + MatchesOn(k + 1)
    BY <2>2, <2>4, <2>5
  <2> QED BY <1>1, <1>2, <1>3, <2>6
<1>4. CASE k + 1 \notin Wanted
  <2>1. WantedUpTo(k + 1) = WantedUpTo(k)
    BY <1>4 DEF WantedUpTo, Wanted
  <2>2. Weights(k + 1) = Weights(k)
    BY <2>1 DEF Weights
  <2>3. /\ MatchesUpTo(k) = Total(Weights(k), WantedUpTo(k))
        /\ MatchesUpTo(k + 1) = Total(Weights(k + 1), WantedUpTo(k + 1))
    BY MatchesAreTotal
  <2>4. MatchesUpTo(k + 1) = MatchesUpTo(k)
    BY <2>1, <2>2, <2>3
  <2> QED BY <1>1, <1>2, <1>4, <2>4
<1> QED BY <1>1, <1>2, <1>3, <1>4

LEMMA MatchesGrow ==
  ASSUME TypeOK, NEW j \in Nat, NEW k \in Nat, j <= k
  PROVE  MatchesUpTo(j) <= MatchesUpTo(k)
<1> DEFINE S == {n \in Nat : MatchesUpTo(j) <= MatchesUpTo(j + n)}
<1>1. 0 \in S
  <2>1. MatchesUpTo(j) \in Nat /\ j + 0 = j
    BY MatchesStep
  <2> QED BY <2>1
<1>2. ASSUME NEW n \in Nat, n \in S PROVE n + 1 \in S
  <2> DEFINE m == j + n
  <2>1. m \in Nat /\ m + 1 = j + (n + 1)
    OBVIOUS
  <2>2. MatchesUpTo(j) <= MatchesUpTo(m) /\ MatchesUpTo(j) \in Nat
    BY <1>2, MatchesStep
  <2> HIDE DEF m
  <2>3. MatchesUpTo(m + 1) >= MatchesUpTo(m) /\ MatchesUpTo(m) \in Nat /\ MatchesUpTo(m + 1) \in Nat
    <3>1. m + 1 \in Wanted => m + 1 \in WantedUpTo(m + 1)
      BY <2>1 DEF WantedUpTo, Wanted
    <3>2. m + 1 \in Wanted => MatchesOn(m + 1) \in Nat
      BY <3>1, WantedFinite
    <3>3. m + 1 \in Nat
      BY <2>1
    <3>4. /\ MatchesUpTo(m) \in Nat /\ MatchesUpTo(m + 1) \in Nat
          /\ MatchesUpTo(m + 1) = MatchesUpTo(m) + (IF m + 1 \in Wanted THEN MatchesOn(m + 1) ELSE 0)
      BY <2>1, <3>3, MatchesStep
    <3> QED BY <3>2, <3>4
  <2>4. MatchesUpTo(j) <= MatchesUpTo(m + 1)
    BY <2>2, <2>3
  <2> QED BY <2>1, <2>4
<1> HIDE DEF S
<1>3. Nat \subseteq S
  BY <1>1, <1>2, Induction
<1>4. k - j \in Nat /\ j + (k - j) = k
  OBVIOUS
<1> QED BY <1>3, <1>4 DEF S

-----------------------------------------------------------------------------
\* How far a run has got: the pages 1..Passed are dealt with.
Passed == IF pc = "page" \/ pagenum > Len(doc) THEN pagenum - 1 ELSE pagenum
Active == pc # "idle" \/ runs > 0

\* What the cache gives for a page is the text of the page; the empty text of one
\* that does not render has no match.  The second says that there is no such page.
ReadsTheText ==
  AtPage /\ InRange /\ CacheHit =>
    /\ page_text = doc[pagenum].text
    /\ ~doc[pagenum].renders => opts.pattern[EmptyText] = 0
ReadsRenderedPages == AtPage /\ InRange /\ CacheHit => doc[pagenum].renders

\* n matches as the options count them.
Cut(n) ==
  IF OneMatchDecides THEN (IF n > 0 THEN 1 ELSE 0)
  ELSE IF opts.max_count > 0 /\ n > opts.max_count THEN opts.max_count ELSE n

LEMMA ContainsIsAsked ==
  ASSUME TypeOK, NEW p \in Nat
  PROVE  contains(opts.page_range, p) <=> Asked(p)
<1>1. opts.page_range \in Seq(Interval)
  BY InputTypes DEF OptionType
<1>2. \A r \in Range(opts.page_range) : r.from \in Nat /\ r.to \in Nat
  <2>1. \A i \in DOMAIN opts.page_range : opts.page_range[i] \in Interval
    BY <1>1
  <2> QED BY <2>1 DEF Range, Interval
<1> DEFINE s == opts.page_range
<1>3. (\E i \in DOMAIN s : s[i].from <= p /\ p <= s[i].to)
        <=> \E r \in Range(s) : r.from <= p /\ p <= r.to
  BY DEF Range
<1> QED BY <1>2, <1>3 DEF contains, Asked

\* The document and the command line decide what is wanted.
LEMMA SameWanted ==
  ASSUME doc' = doc, opts' = opts
  PROVE  /\ Wanted' = Wanted
         /\ \A p : Asked(p)' = Asked(p)
         /\ \A k : MatchesUpTo(k)' = MatchesUpTo(k)
         /\ \A k : DecidedBy(k)' = DecidedBy(k)
         /\ \A n : Cut(n)' = Cut(n)
<1>1. \A p : Asked(p)' = Asked(p)
  BY DEF Asked
<1>2. Wanted' = Wanted
  BY DEF Wanted, Asked
<1>3. \A k : MatchesUpTo(k)' = MatchesUpTo(k)
  BY <1>2, ZenonT(30) DEF MatchesUpTo, MapThenSumSet, MapThenFoldSet
<1> QED BY <1>1, <1>2, <1>3 DEF DecidedBy, OneMatchDecides, Cut

LEMMA NothingAtFirst == TypeOK => MatchesUpTo(0) = 0 /\ ~DecidedBy(0) /\ Cut(0) = 0
<1> SUFFICES ASSUME TypeOK PROVE MatchesUpTo(0) = 0 /\ ~DecidedBy(0) /\ Cut(0) = 0
  OBVIOUS
<1>1. MatchesUpTo(0) = 0
  BY MatchesStep
<1> QED BY <1>1, InputTypes DEF DecidedBy, Cut

\* A page without a match leaves everything as it is and does not end the loop.
LEMMA BlankPageAddsNothing ==
  ASSUME TypedAndLimited, SearchPage, opts.pattern[page_text] = 0
  PROVE  /\ total_count' = total_count /\ pc' = pc /\ pagenum' = pagenum + 1
         /\ stdout' = stdout
<1>1. /\ opts.max_count \in Nat /\ total_count \in Nat /\ stdout \in Seq(ItemType)
      /\ opts.max_count > 0 => total_count < opts.max_count
  BY InputTypes DEF TypedAndLimited, TypeOK, MaxCountRespected, SearchPage, AtPage
<1>2. page_count = 0
  BY <1>1 DEF page_count
<1>3. ~StopAfterPage
  BY <1>1, <1>2 DEF StopAfterPage
<1>4. PICK trailing : stdout' = stdout \o PageOutput(trailing)
  BY DEF SearchPage
<1>5. PageOutput(trailing) = <<>>
  BY <1>2 DEF PageOutput
<1> QED BY <1>1, <1>2, <1>3, <1>4, <1>5 DEF SearchPage

\* One page: it is searched if it is wanted, and if not, it is skipped, reported,
\* or an empty page of the cache; then nothing is counted.
LEMMA PageStep ==
  ASSUME TypedAndLimited, ReadsTheText, SkipPage \/ PageFails \/ SearchPage
  PROVE  /\ pagenum \in 1..Len(doc) /\ Len(doc) \in Nat /\ pc = "page" /\ pc' # "idle"
         /\ doc' = doc /\ opts' = opts /\ runs' = runs
         /\ Passed = pagenum - 1 /\ Passed' = pagenum
         /\ pc' = "break" => pagenum' <= Len(doc)
         /\ InRange <=> Asked(pagenum)
         /\ pagenum \notin Wanted =>
              /\ SearchPage => CacheHit /\ ~doc[pagenum].renders
              /\ pagenum' = pagenum + 1
              /\ UNCHANGED <<total_count, stdout, pc>>
         /\ SkipPage \/ PageFails => UNCHANGED <<document_empty, read>> /\ ~SearchPage
         /\ SearchPage => page_text = doc[pagenum].text /\ Asked(pagenum)
         /\ pagenum \in Wanted => SearchPage
<1>1. /\ pagenum \in Nat \ {0} /\ Len(doc) \in Nat
      /\ \A p \in 1..Len(doc) : doc[p].renders \in BOOLEAN
  <2>1. doc \in Seq(PageType)
    BY InputTypes DEF TypedAndLimited
  <2>2. \A p \in 1..Len(doc) : doc[p] \in PageType
    BY <2>1
  <2> QED BY <2>1, <2>2 DEF TypedAndLimited, TypeOK, PageType
<1>2. pagenum \in 1..Len(doc) /\ pc = "page"
  <2>1. AtPage
    BY DEF SkipPage, PageFails, SearchPage
  <2> QED BY <1>1, <2>1 DEF AtPage
<1>3. InRange <=> Asked(pagenum)
  BY <1>1, ContainsIsAsked DEF InRange, TypedAndLimited
<1>4. doc' = doc /\ opts' = opts /\ runs' = runs
  BY DEF SkipPage, PageFails, SearchPage
<1>5. Passed = pagenum - 1
  BY <1>2 DEF Passed
<1>6. CASE SkipPage \/ PageFails
  <2>1. /\ pagenum' = pagenum + 1 /\ pc' = pc
        /\ UNCHANGED <<total_count, document_empty, stdout, read, pc>>
    BY <1>6 DEF SkipPage, PageFails
  <2>2. pagenum \notin Wanted
    BY <1>3, <1>6 DEF Wanted, SkipPage, PageFails
  <2>3. Passed' = pagenum
    BY <1>1, <1>2, <2>1 DEF Passed
  <2>4. ~SearchPage
    BY <1>6 DEF SkipPage, PageFails, SearchPage
  <2> QED BY <1>1, <1>2, <1>3, <1>4, <1>5, <1>6, <2>1, <2>2, <2>3, <2>4
<1>7. CASE SearchPage
  <2>1. AtPage /\ InRange /\ (CacheHit \/ doc[pagenum].renders)
    BY <1>7 DEF SearchPage
  <2>2. page_text = doc[pagenum].text
    BY <2>1 DEF ReadsTheText, page_text
  <2>3. ~(SkipPage \/ PageFails)
    BY <2>1 DEF SkipPage, PageFails
  <2>4. \/ pc' = "break" /\ pagenum' = pagenum
        \/ pc' = "page" /\ pagenum' = pagenum + 1
    BY <1>2, <1>7 DEF SearchPage
  <2>5. Passed' = pagenum
    BY <1>1, <1>2, <1>4, <2>4 DEF Passed
  <2>6. ASSUME pagenum \notin Wanted
        PROVE  /\ CacheHit /\ ~doc[pagenum].renders /\ pagenum' = pagenum + 1
               /\ UNCHANGED <<total_count, stdout, pc>>
    <3>1. ~doc[pagenum].renders /\ CacheHit
      BY <1>2, <1>3, <2>1, <2>6 DEF Wanted
    <3>2. page_text = EmptyText /\ opts.pattern[page_text] = 0
      BY <1>2, <2>1, <2>2, <3>1, BrokenIsEmpty DEF ReadsTheText, TypedAndLimited
    <3> QED BY <1>7, <3>1, <3>2, BlankPageAddsNothing
  <2> QED BY <1>1, <1>2, <1>3, <1>4, <1>5, <1>7, <2>1, <2>2, <2>3, <2>4, <2>5, <2>6
<1> QED BY <1>6, <1>7

\* What a page adds to an undecided count, and when that decides.
LEMMA PageAdds ==
  ASSUME TypedAndLimited, pagenum \in Wanted, page_text = doc[pagenum].text,
         ~DecidedBy(pagenum - 1), total_count = Cut(MatchesUpTo(pagenum - 1))
  PROVE  /\ total_count + page_count = Cut(MatchesUpTo(pagenum))
         /\ StopAfterPage <=> DecidedBy(pagenum)
         /\ page_count > 0 <=> MatchesOn(pagenum) > 0
<1> DEFINE U == MatchesUpTo(pagenum - 1)
           n == MatchesOn(pagenum)
           m == opts.max_count
<1>1. pagenum - 1 \in Nat /\ (pagenum - 1) + 1 = pagenum
  BY DEF TypedAndLimited, TypeOK
<1>2. U \in Nat /\ MatchesUpTo(pagenum) = U + n
  BY <1>1, MatchesStep DEF TypedAndLimited
<1>3. n \in Nat /\ n = opts.pattern[page_text]
  <2>1. pagenum \in WantedUpTo(pagenum)
    BY <1>1 DEF WantedUpTo, TypedAndLimited, TypeOK
  <2> QED BY <2>1, WantedFinite DEF MatchesOn, TypedAndLimited
<1>4. m \in Nat
  BY InputTypes DEF TypedAndLimited
<1>5. page_count = IF OneMatchDecides /\ n > 0 THEN 1
                   ELSE IF m > 0 /\ n > m - total_count THEN m - total_count ELSE n
  BY <1>3 DEF page_count, OneMatchDecides
<1>6. /\ OneMatchDecides => U = 0
      /\ m > 0 => U < m
      /\ total_count = U
  BY <1>2, <1>4 DEF DecidedBy, Cut
<1> HIDE DEF U, n, m
<1>7. total_count + page_count = Cut(U + n)
  BY <1>2, <1>3, <1>4, <1>5, <1>6 DEF Cut, m
<1>8. page_count \in Nat /\ (page_count > 0 <=> n > 0)
  BY <1>2, <1>3, <1>4, <1>5, <1>6
<1>9. StopAfterPage <=> (page_count > 0 /\ OneMatchDecides) \/ (m > 0 /\ U + page_count >= m)
  BY <1>6 DEF StopAfterPage, OneMatchDecides, m
<1>10. DecidedBy(pagenum) <=> (OneMatchDecides /\ U + n > 0) \/ (m > 0 /\ U + n >= m)
  BY <1>2 DEF DecidedBy, m
<1>11. (page_count > 0 /\ OneMatchDecides) \/ (m > 0 /\ U + page_count >= m)
        <=> (OneMatchDecides /\ U + n > 0) \/ (m > 0 /\ U + n >= m)
  BY <1>2, <1>3, <1>4, <1>5, <1>6
<1> QED BY <1>2, <1>7, <1>8, <1>9, <1>10, <1>11 DEF n

\* The count of a run is that of the pages it has passed; it goes on as long as
\* they do not decide the answer.
Progress ==
  Active => /\ Passed \in 0..Len(doc)
            /\ pc = "break" => pagenum <= Len(doc)
            /\ total_count = Cut(MatchesUpTo(Passed))
            /\ \A p \in 1..Passed : ~DecidedBy(p - 1)
            /\ pc = "page" => ~DecidedBy(Passed)
            /\ pc # "page" => Passed = Len(doc) \/ DecidedBy(Passed)

LEMMA ProgressOnPage ==
  ASSUME TypedAndLimited, ReadsTheText, Progress, SkipPage \/ PageFails \/ SearchPage
  PROVE  Progress'
<1>1. /\ pagenum \in 1..Len(doc) /\ Len(doc) \in Nat /\ pc = "page" /\ pc' # "idle"
      /\ doc' = doc /\ opts' = opts
      /\ Passed = pagenum - 1 /\ Passed' = pagenum
      /\ pc' = "break" => pagenum' <= Len(doc)
  BY PageStep
<1>2. /\ total_count = Cut(MatchesUpTo(pagenum - 1))
      /\ \A p \in 1..(pagenum - 1) : ~DecidedBy(p - 1)
      /\ ~DecidedBy(pagenum - 1)
  BY <1>1 DEF Progress, Active
<1>3. \A p \in 1..pagenum : ~DecidedBy(p - 1)
  BY <1>1, <1>2
<1>4. /\ total_count' = Cut(MatchesUpTo(pagenum))
      /\ pc' = "page" => ~DecidedBy(pagenum)
      /\ pc' # "page" => DecidedBy(pagenum)
  <2>1. CASE pagenum \notin Wanted
    <3>1. total_count' = total_count /\ pc' = pc
      BY <2>1, PageStep
    <3>2. pagenum - 1 \in Nat /\ (pagenum - 1) + 1 = pagenum
      BY <1>1
    <3>3. /\ MatchesUpTo(pagenum - 1) \in Nat
          /\ MatchesUpTo(pagenum) = MatchesUpTo(pagenum - 1) + 0
      BY <2>1, <3>2, MatchesStep DEF TypedAndLimited
    <3>4. MatchesUpTo(pagenum) = MatchesUpTo(pagenum - 1)
      BY <3>3
    <3> QED BY <1>1, <1>2, <3>1, <3>4 DEF DecidedBy
  <2>2. CASE pagenum \in Wanted
    <3>1. SearchPage /\ page_text = doc[pagenum].text
      BY <2>2, PageStep
    <3>2. /\ total_count + page_count = Cut(MatchesUpTo(pagenum))
          /\ StopAfterPage <=> DecidedBy(pagenum)
      BY <1>2, <2>2, <3>1, PageAdds
    <3>3. /\ total_count' = total_count + page_count
          /\ (StopAfterPage /\ pc' = "break") \/ (~StopAfterPage /\ pc' = pc)
      BY <3>1 DEF SearchPage
    <3> QED BY <1>1, <3>2, <3>3
  <2> QED BY <2>1, <2>2
<1>5. /\ \A k : MatchesUpTo(k)' = MatchesUpTo(k)
      /\ \A k : DecidedBy(k)' = DecidedBy(k)
      /\ \A n : Cut(n)' = Cut(n)
  BY <1>1, SameWanted
<1>6. /\ Passed' \in 0..Len(doc')
      /\ pc' = "break" => pagenum' <= Len(doc')
      /\ total_count' = Cut(MatchesUpTo(pagenum))
      /\ \A p \in 1..Passed' : ~DecidedBy(p - 1)
      /\ pc' = "page" => ~DecidedBy(Passed')
      /\ pc' # "page" => DecidedBy(Passed')
  BY <1>1, <1>3, <1>4
<1> QED BY <1>1, <1>5, <1>6 DEF Progress

LEMMA FirstPage == TypeOK' => MatchesUpTo(0)' = 0 /\ ~DecidedBy(0)' /\ Cut(0)' = 0
<1>1. (TypeOK => MatchesUpTo(0) = 0 /\ ~DecidedBy(0) /\ Cut(0) = 0)'
  BY NothingAtFirst, PTL
<1> QED BY <1>1

LEMMA ProgressNext ==
  ASSUME TypedAndLimited, ReadsTheText, Progress, [Next]_vars
  PROVE  Progress'
<1>1. TypedAndLimited' /\ TypeOK' /\ TypeOK
  BY TypedAndLimitedNext DEF TypedAndLimited
<1>2. CASE Start
  <2>1. Passed' = 0 /\ pc' = "page" /\ total_count' = 0
    BY <1>2 DEF Start, Begin, Passed
  <2>2. MatchesUpTo(0)' = 0 /\ ~DecidedBy(0)' /\ Cut(0)' = 0
    BY <1>1, FirstPage
  <2>3. Len(doc)' \in Nat
    BY <1>1, InputTypes, <1>2 DEF Start
  <2>4. /\ total_count' = Cut(MatchesUpTo(Passed))'
        /\ ~DecidedBy(Passed)'
        /\ Passed' \in 0..Len(doc') /\ 1..Passed' = {}
    BY <2>1, <2>2, <2>3 DEF DecidedBy, MatchesUpTo, Cut
  <2> QED BY <2>1, <2>4 DEF Progress
<1>3. CASE SkipPage \/ PageFails \/ SearchPage
  BY <1>3, ProgressOnPage
<1>4. CASE Finish
  <2>1. /\ doc' = doc /\ opts' = opts /\ pagenum' = pagenum /\ total_count' = total_count
        /\ pc' = "idle" /\ pc # "idle"
        /\ pc = "break" \/ (pc = "page" /\ pagenum > Len(doc))
    BY <1>4 DEF Finish
  <2>2. Len(doc) \in Nat /\ pagenum \in Nat
    BY <1>1, InputTypes DEF TypeOK
  <2>3. Passed' = Passed /\ Progress /\ Active
    BY <2>1, <2>2 DEF Passed, Active
  <2>4. Passed = Len(doc) \/ DecidedBy(Passed)
    BY <2>1, <2>2, <2>3 DEF Progress, Passed
  <2>5. /\ \A k : MatchesUpTo(k)' = MatchesUpTo(k)
        /\ \A k : DecidedBy(k)' = DecidedBy(k)
        /\ \A n : Cut(n)' = Cut(n)
    BY <2>1, SameWanted
  <2>6. /\ total_count = Cut(MatchesUpTo(Passed)) /\ Passed \in 0..Len(doc)
        /\ \A p \in 1..Passed : ~DecidedBy(p - 1)
    BY <2>3 DEF Progress
  <2> QED BY <2>1, <2>3, <2>4, <2>5, <2>6 DEF Progress
<1>5. CASE UNCHANGED <<doc, opts, pagenum, total_count, runs, pc>>
  <2>1. /\ doc' = doc /\ opts' = opts /\ pagenum' = pagenum /\ total_count' = total_count
        /\ pc' = pc /\ runs' = runs
    BY <1>5
  <2>2. Passed' = Passed /\ Active' = Active
    BY <2>1 DEF Passed, Active
  <2>3. /\ \A k : MatchesUpTo(k)' = MatchesUpTo(k)
        /\ \A k : DecidedBy(k)' = DecidedBy(k)
        /\ \A n : Cut(n)' = Cut(n)
    BY <2>1, SameWanted
  <2> QED BY <2>1, <2>2, <2>3 DEF Progress
<1> QED
  BY <1>2, <1>3, <1>4, <1>5 DEF Next, Loop, LastRunDone, Evict, vars

\* The total decides all later pages: what is decided stays decided.
LEMMA DecidedStays ==
  ASSUME TypeOK, NEW j \in Nat, NEW k \in Nat, j <= k, DecidedBy(j)
  PROVE  DecidedBy(k) /\ Cut(MatchesUpTo(j)) = Cut(MatchesUpTo(k))
<1>1. /\ MatchesUpTo(j) \in Nat /\ MatchesUpTo(k) \in Nat
      /\ MatchesUpTo(j) <= MatchesUpTo(k)
  BY MatchesStep, MatchesGrow
<1>2. opts.max_count \in Nat
  BY InputTypes
<1>3. DecidedBy(k)
  BY <1>1, <1>2 DEF DecidedBy
<1> QED BY <1>1, <1>2, <1>3 DEF DecidedBy, Cut

LEMMA LeastOfTwo ==
  ASSUME NEW a \in Nat, NEW b \in Nat
  PROVE  Min({a, b}) = IF b < a THEN b ELSE a
<1> DEFINE m == IF b < a THEN b ELSE a
<1>1. /\ m \in {a, b} /\ \A y \in {a, b} : m <= y
      /\ \A x \in {a, b} : (\A y \in {a, b} : x <= y) => x = m
  OBVIOUS
<1> HIDE DEF m
<1>2. Min({a, b}) = m
  BY <1>1 DEF Min
<1> QED BY <1>2 DEF m

LEMMA CountIsCut ==
  ASSUME TypeOK, Progress, Returned
  PROVE  total_count = Cut(AllMatches) /\ AllMatches \in Nat /\ opts.max_count \in Nat
<1>1. /\ Passed \in 0..Len(doc) /\ Len(doc) \in Nat
      /\ total_count = Cut(MatchesUpTo(Passed))
      /\ Passed = Len(doc) \/ DecidedBy(Passed)
  BY InputTypes DEF Progress, Active, Returned
<1>2. total_count = Cut(AllMatches)
  <2>1. CASE Passed = Len(doc)
    BY <1>1, <2>1 DEF AllMatches
  <2>2. CASE DecidedBy(Passed)
    <3>1. Passed \in Nat /\ Passed <= Len(doc)
      BY <1>1
    <3> QED BY <1>1, <2>2, <3>1, DecidedStays DEF AllMatches
  <2> QED BY <1>1, <2>1, <2>2
<1>3. AllMatches \in Nat
  BY <1>1, MatchesStep DEF AllMatches
<1> QED BY <1>2, <1>3, InputTypes

LEMMA ProgressIsExact ==
  ASSUME TypeOK, Progress
  PROVE  CountIsExact
<1> SUFFICES ASSUME Returned PROVE total_count =
      IF OneMatchDecides THEN Min({1, AllMatches})
      ELSE IF opts.max_count > 0 THEN Min({opts.max_count, AllMatches})
      ELSE AllMatches
  BY DEF CountIsExact
<1>1. total_count = Cut(AllMatches) /\ AllMatches \in Nat /\ opts.max_count \in Nat
  BY CountIsCut
<1>2. /\ Min({1, AllMatches}) = IF AllMatches < 1 THEN AllMatches ELSE 1
      /\ Min({opts.max_count, AllMatches})
           = IF AllMatches < opts.max_count THEN AllMatches ELSE opts.max_count
  BY <1>1, LeastOfTwo
<1> QED BY <1>1, <1>2 DEF Cut

-----------------------------------------------------------------------------
LEMMA FirstTypes == Init => TypeOK
BY TypedAndLimitedInit DEF TypedAndLimited

\* The pages that have been searched: the wanted ones among those passed, each
\* once and in order.
ReadSoFar ==
  Active => /\ Range(read) = {p \in Wanted : p <= Passed}
            /\ \A i, j \in DOMAIN read : i < j => read[i] < read[j]

LEMMA ReadSoFarNext ==
  ASSUME TypedAndLimited, ReadsTheText, ReadsRenderedPages, ReadSoFar, [Next]_vars
  PROVE  ReadSoFar'
<1>1. TypeOK /\ TypeOK'
  BY TypedAndLimitedNext DEF TypedAndLimited
<1>2. CASE Start
  <2>1. Passed' = 0 /\ read' = <<>>
    BY <1>2 DEF Start, Begin, Passed
  <2>2. \A p \in Wanted' : p \in Nat \ {0}
    BY DEF Wanted
  <2> QED BY <2>1, <2>2 DEF ReadSoFar, Range
<1>3. CASE SkipPage \/ PageFails \/ SearchPage
  <2>1. /\ pagenum \in 1..Len(doc) /\ Passed = pagenum - 1 /\ Passed' = pagenum
        /\ Active /\ Wanted' = Wanted
    BY <1>3, PageStep, SameWanted DEF Active
  <2>2. /\ Range(read) = {p \in Wanted : p <= pagenum - 1}
        /\ \A i, j \in DOMAIN read : i < j => read[i] < read[j]
    BY <2>1 DEF ReadSoFar
  <2>3. \A p \in Wanted : p \in Nat
    BY DEF Wanted
  <2>4. CASE pagenum \notin Wanted
    <3>1. read' = read
      BY <1>3, <2>4, PageStep DEF SearchPage, ReadsRenderedPages
    <3>2. {p \in Wanted : p <= pagenum - 1} = {p \in Wanted : p <= pagenum}
      BY <2>1, <2>3, <2>4
    <3> QED BY <2>1, <2>2, <3>1, <3>2 DEF ReadSoFar
  <2>5. CASE pagenum \in Wanted
    <3>1. read' = Append(read, pagenum) /\ read \in Seq(Nat) /\ pagenum \in Nat
      BY <1>1, <1>3, <2>1, <2>5, PageStep DEF SearchPage, TypeOK
    <3>2. /\ Range(read') = Range(read) \cup {pagenum}
          /\ DOMAIN read' = 1..(Len(read) + 1) /\ DOMAIN read = 1..Len(read) /\ Len(read) \in Nat
          /\ \A i \in 1..Len(read) : read'[i] = read[i]
          /\ read'[Len(read) + 1] = pagenum
      BY <3>1, RangeAppend
    <3>3. {p \in Wanted : p <= pagenum} = {p \in Wanted : p <= pagenum - 1} \cup {pagenum}
      <4>1. \A p \in Wanted : p <= pagenum <=> p <= pagenum - 1 \/ p = pagenum
        BY <2>3, <3>1
      <4> QED BY <2>5, <4>1
    <3>4. \A i \in 1..Len(read) : read[i] < pagenum
      <4>1. \A i \in 1..Len(read) : read[i] \in Range(read)
        BY <3>2 DEF Range
      <4> QED BY <2>1, <2>2, <2>3, <4>1
    <3>5. ASSUME NEW i \in DOMAIN read', NEW j \in DOMAIN read', i < j
          PROVE  read'[i] < read'[j]
      <4>1. i \in 1..Len(read) /\ (j \in 1..Len(read) \/ j = Len(read) + 1)
        BY <3>2, <3>5
      <4> QED BY <2>2, <3>2, <3>4, <3>5, <4>1
    <3> QED BY <2>1, <2>2, <3>2, <3>3, <3>5 DEF ReadSoFar
  <2> QED BY <2>4, <2>5
<1>4. CASE UNCHANGED <<doc, opts, pagenum, read>> /\ Passed' = Passed /\ (Active' => Active)
  <2>1. Wanted' = Wanted /\ read' = read
    BY <1>4, SameWanted
  <2> QED BY <1>4, <2>1 DEF ReadSoFar, Range
<1>5. Finish => Passed' = Passed
  BY <1>1, InputTypes DEF Finish, Passed, TypeOK
<1>6. Evict \/ UNCHANGED vars => Passed' = Passed
  BY DEF Evict, Passed, vars
<1> QED
  BY <1>2, <1>3, <1>4, <1>5, <1>6
  DEF Next, Loop, LastRunDone, Evict, Finish, Active, vars

\* Behind a run, a page has been passed exactly if those before it did not decide.
LEMMA PassedIffUndecided ==
  ASSUME TypeOK, Progress, Returned
  PROVE  \A p \in 1..Len(doc) : p <= Passed <=> ~DecidedBy(p - 1)
<1>1. /\ Passed \in 0..Len(doc) /\ Len(doc) \in Nat
      /\ \A p \in 1..Passed : ~DecidedBy(p - 1)
      /\ Passed = Len(doc) \/ DecidedBy(Passed)
  BY InputTypes DEF Progress, Active, Returned
<1>2. ASSUME NEW p \in 1..Len(doc), ~(p <= Passed) PROVE DecidedBy(p - 1)
  <2>1. Passed \in Nat /\ p - 1 \in Nat /\ Passed <= p - 1 /\ DecidedBy(Passed)
    BY <1>1, <1>2
  <2> QED BY <2>1, DecidedStays
<1> QED BY <1>1, <1>2

LEMMA OnceEach ==
  ASSUME NEW s \in Seq(Nat), \A i, j \in DOMAIN s : i < j => s[i] < s[j]
  PROVE  Len(s) = Cardinality(Range(s))
<1>1. DOMAIN s = 1..Len(s) /\ Len(s) \in Nat /\ \A i \in 1..Len(s) : s[i] \in Nat
  OBVIOUS
<1>2. \A i, j \in 1..Len(s) : s[i] = s[j] => i = j
  BY <1>1
<1>3. s \in Bijection(1..Len(s), Range(s))
  BY <1>1, <1>2 DEF Bijection, Injection, Surjection, IsInjective, Range
<1>4. Len(s) \in Nat /\ ExistsBijection(1..Len(s), Range(s))
  BY <1>1, <1>3 DEF ExistsBijection
<1> QED BY <1>4, FS_CountingElements

LEMMA ReadIsNeeded ==
  ASSUME TypeOK, Progress, ReadSoFar
  PROVE  ReadsWhatIsNeeded
<1> SUFFICES ASSUME Returned
             PROVE  /\ Range(read) = {p \in Wanted : ~DecidedBy(p - 1)}
                    /\ Len(read) = Cardinality(Range(read))
  BY DEF ReadsWhatIsNeeded
<1>1. /\ Range(read) = {p \in Wanted : p <= Passed}
      /\ \A i, j \in DOMAIN read : i < j => read[i] < read[j]
  BY DEF ReadSoFar, Active, Returned
<1>2. \A p \in Wanted : p <= Passed <=> ~DecidedBy(p - 1)
  BY PassedIffUndecided DEF Wanted
<1>3. Len(read) = Cardinality(Range(read))
  BY <1>1, OnceEach DEF TypeOK
<1> QED BY <1>1, <1>2, <1>3

-----------------------------------------------------------------------------
\* The pages reported so far: those passed that do not render and were not found
\* in the cache.
ReportedPage(p) ==
  ~opts.quiet /\ ~doc[p].renders /\ Asked(p) /\ p <= Passed /\ p \notin Range(read)
Reported ==
  Active => /\ \A p \in 1..Len(doc) : PageError(p) \in Range(stderr) <=> ReportedPage(p)
            /\ \A p \in Range(read) : p <= Passed

LEMMA ReportedOnPage ==
  ASSUME TypedAndLimited, ReadsTheText, Reported, SkipPage \/ PageFails \/ SearchPage
  PROVE  Reported'
<1>1. /\ pagenum \in 1..Len(doc) /\ Len(doc) \in Nat
      /\ Passed = pagenum - 1 /\ Passed' = pagenum
      /\ Active /\ doc' = doc /\ opts' = opts /\ (InRange <=> Asked(pagenum))
      /\ \A p : Asked(p)' = Asked(p)
  BY PageStep, SameWanted DEF Active
<1>2. /\ stderr \in Seq(ItemType) /\ read \in Seq(Nat)
      /\ \A p \in Range(read) : p \in Nat
  BY DEF TypedAndLimited, TypeOK, Range
<1>3. /\ \A p \in 1..Len(doc) : PageError(p) \in Range(stderr) <=>
           ~opts.quiet /\ ~doc[p].renders /\ Asked(p) /\ p <= pagenum - 1 /\ p \notin Range(read)
      /\ \A p \in Range(read) : p <= pagenum - 1
  BY <1>1 DEF Reported, ReportedPage
<1>4. \A p, q \in 1..Len(doc) : PageError(p) = PageError(q) => p = q
  BY DEF PageError, Item
<1>5. \A p \in 1..Len(doc) : p <= pagenum <=> p <= pagenum - 1 \/ p = pagenum
  BY <1>1
<1>6. pagenum \notin Range(read)
  BY <1>1, <1>3
<1>7. CASE SearchPage
  <2>1. read' = Append(read, pagenum) /\ stderr' = stderr
    BY <1>7 DEF SearchPage
  <2>2. Range(read') = Range(read) \cup {pagenum}
    BY <1>1, <1>2, <2>1, RangeAppend
  <2>3. \A p \in 1..Len(doc) : PageError(p) \in Range(stderr') <=>
          ~opts.quiet /\ ~doc[p].renders /\ Asked(p) /\ p <= pagenum /\ p \notin Range(read')
    BY <1>3, <1>5, <2>1, <2>2
  <2>4. \A p \in Range(read') : p <= pagenum
    BY <1>1, <1>2, <1>3, <2>2
  <2> QED BY <1>1, <2>3, <2>4 DEF Reported, ReportedPage
<1>8. CASE SkipPage \/ PageFails
  <2>1. read' = read
    BY <1>8, PageStep
  <2>2. \A p \in Range(read') : p <= pagenum
    BY <1>1, <1>2, <1>3, <2>1
  <2>3. CASE PageFails /\ ~opts.quiet
    <3>1. stderr' = Append(stderr, PageError(pagenum)) /\ InRange /\ ~doc[pagenum].renders
      BY <2>3 DEF PageFails, WithPageError
    <3>2. PageError(pagenum) \in ItemType
      BY <1>1 DEF PageError, Item, ItemType
    <3>3. Range(stderr') = Range(stderr) \cup {PageError(pagenum)}
      BY <1>2, <3>1, <3>2, RangeAppend
    <3>4. \A p \in 1..Len(doc) : PageError(p) \in Range(stderr') <=>
            ~opts.quiet /\ ~doc[p].renders /\ Asked(p) /\ p <= pagenum /\ p \notin Range(read)
      BY <1>1, <1>3, <1>4, <1>5, <1>6, <2>3, <3>1, <3>3
    <3> QED BY <1>1, <2>1, <2>2, <3>4 DEF Reported, ReportedPage
  <2>4. CASE ~(PageFails /\ ~opts.quiet)
    <3>1. stderr' = stderr
      BY <1>8, <2>4 DEF SkipPage, PageFails, WithPageError
    <3>2. opts.quiet \/ ~Asked(pagenum)
      BY <1>1, <1>8, <2>4 DEF SkipPage
    <3>3. \A p \in 1..Len(doc) : PageError(p) \in Range(stderr') <=>
            ~opts.quiet /\ ~doc[p].renders /\ Asked(p) /\ p <= pagenum /\ p \notin Range(read)
      BY <1>1, <1>3, <1>5, <3>1, <3>2
    <3> QED BY <1>1, <2>1, <2>2, <3>3 DEF Reported, ReportedPage
  <2> QED BY <2>3, <2>4
<1> QED BY <1>7, <1>8

LEMMA ReportedNext ==
  ASSUME TypedAndLimited, ReadsTheText, Reported, [Next]_vars
  PROVE  Reported'
<1>1. TypeOK /\ TypeOK' /\ stderr \in Seq(ItemType)
  BY TypedAndLimitedNext DEF TypedAndLimited, TypeOK
<1>2. CASE Start
  <2>1. Passed' = 0 /\ Range(stderr') = {} /\ Range(read') = {}
    BY <1>2 DEF Start, Begin, Passed, Range
  <2> QED BY <2>1 DEF Reported, ReportedPage
<1>3. CASE SkipPage \/ PageFails \/ SearchPage
  BY <1>3, ReportedOnPage
<1>4. ASSUME UNCHANGED <<doc, opts, read>>, Passed' = Passed, Active' => Active,
             \A p \in 1..Len(doc) : PageError(p) \in Range(stderr') <=> PageError(p) \in Range(stderr)
      PROVE  Reported'
  <2>1. \A p : Asked(p)' = Asked(p)
    BY <1>4, SameWanted
  <2>2. Range(read') = Range(read)
    BY <1>4
  <2> QED BY <1>4, <2>1, <2>2 DEF Reported, ReportedPage
<1>5. CASE Finish
  <2>1. Passed' = Passed /\ Active
    BY <1>1, <1>5, InputTypes DEF Finish, Passed, TypeOK, Active
  <2>2. \A p \in 1..Len(doc) : PageError(p) # WarnEmpty
    BY DEF PageError, WarnEmpty, Item
  <2>3. WarnEmpty \in ItemType
    BY DEF WarnEmpty, Item, ItemType
  <2>4. stderr' = stderr \/ stderr' = Append(stderr, WarnEmpty)
    BY <1>5 DEF Finish
  <2>5. Range(Append(stderr, WarnEmpty)) = Range(stderr) \cup {WarnEmpty}
    BY <1>1, <2>3, RangeAppend
  <2> QED BY <1>4, <1>5, <2>1, <2>2, <2>4, <2>5 DEF Finish
<1>6. CASE Evict \/ UNCHANGED vars
  BY <1>4, <1>6 DEF Evict, Passed, vars, Active
<1> QED
  BY <1>2, <1>3, <1>5, <1>6 DEF Next, Loop, LastRunDone

\* A page that does not render and was searched all the same came from the cache,
\* where a page behind it has been rendered: the last page of a cache has.
EndsRendered(c) == c.pages # <<>> => doc[Len(c.pages)].renders
RoomForALaterPage ==
  /\ EndsRendered(stored) /\ EndsRendered(cache)
  /\ Active => \A p \in Range(read) : ~doc[p].renders =>
       opts.use_cache /\ \E q \in (p + 1)..Len(cache.pages) : doc[q].renders

LEMMA RoomOnPage ==
  ASSUME TypeOK, RoomForALaterPage, SearchPage
  PROVE  RoomForALaterPage'
<1>1. /\ AtPage /\ InRange /\ Active /\ doc' = doc /\ opts' = opts /\ stored' = stored
      /\ pagenum \in Nat \ {0} /\ cache \in CacheType /\ Len(cache.pages) \in Nat
      /\ read' = Append(read, pagenum) /\ read \in Seq(Nat)
      /\ CacheHit \/ doc[pagenum].renders
      /\ page_text \in Texts
  BY PageTextType DEF SearchPage, AtPage, TypeOK, CacheType, Active
<1>2. /\ Len(cache'.pages) \in Nat /\ Len(cache'.pages) >= Len(cache.pages)
      /\ EndsRendered(cache')
  <2>1. CASE cache' = cache
    BY <1>1, <2>1 DEF RoomForALaterPage, EndsRendered
  <2>2. CASE opts.use_cache /\ ~CacheHit
    <3>1. cache' = set_page(pagenum, page_text) /\ doc[pagenum].renders
      BY <1>1, <2>2 DEF SearchPage
    <3>2. /\ cache' \in CacheType
          /\ Len(cache'.pages) = IF pagenum > Len(cache.pages) THEN pagenum
                                 ELSE Len(cache.pages)
      BY <1>1, <3>1, SetPageType
    <3>3. cache.pages \in Seq(Texts)
      BY <1>1 DEF CacheType
    <3>4. ~(pagenum > Len(cache.pages)) => cache.pages # <<>>
      BY <1>1, <3>3
    <3> QED BY <1>1, <3>1, <3>2, <3>4 DEF RoomForALaterPage, EndsRendered
  <2> QED BY <2>1, <2>2 DEF SearchPage
<1>3. Range(read') = Range(read) \cup {pagenum} /\ \A p \in Range(read) : p \in Nat
  <2>1. \A p \in Range(read) : p \in Nat
    BY <1>1 DEF Range
  <2> QED BY <1>1, <2>1, RangeAppend
<1>4. ASSUME NEW p \in Range(read), ~doc[p].renders
      PROVE  opts.use_cache /\ \E q \in (p + 1)..Len(cache'.pages) : doc[q].renders
  <2>1. PICK q \in (p + 1)..Len(cache.pages) : doc[q].renders
    BY <1>1, <1>4 DEF RoomForALaterPage
  <2>2. q \in (p + 1)..Len(cache'.pages)
    BY <1>1, <1>2, <1>3, <2>1
  <2> QED BY <1>1, <1>4, <2>1, <2>2 DEF RoomForALaterPage
<1>5. ASSUME ~doc[pagenum].renders
      PROVE  opts.use_cache /\ \E q \in (pagenum + 1)..Len(cache'.pages) : doc[q].renders
  <2>1. CacheHit /\ opts.use_cache /\ pagenum <= Len(cache.pages) /\ cache' = cache
    BY <1>1, <1>5 DEF CacheHit, get_page, SearchPage
  <2>2. cache.pages # <<>> /\ doc[Len(cache.pages)].renders
    BY <1>1, <2>1 DEF RoomForALaterPage, EndsRendered
  <2>3. Len(cache.pages) \in (pagenum + 1)..Len(cache'.pages)
    BY <1>1, <1>5, <2>1, <2>2
  <2> QED BY <2>1, <2>2, <2>3
<1>6. EndsRendered(stored)' /\ EndsRendered(cache)'
  BY <1>1, <1>2 DEF RoomForALaterPage, EndsRendered
<1>7. \A p \in Range(read') : ~doc'[p].renders =>
        opts'.use_cache /\ \E q \in (p + 1)..Len(cache'.pages) : doc'[q].renders
  BY <1>1, <1>3, <1>4, <1>5
<1> QED BY <1>6, <1>7 DEF RoomForALaterPage

LEMMA RoomNext ==
  ASSUME TypeOK, RoomForALaterPage, [Next]_vars
  PROVE  RoomForALaterPage'
<1>1. CASE Start
  BY <1>1 DEF Start, Begin, NoCache, RoomForALaterPage, EndsRendered, Range
<1>2. CASE SearchPage
  BY <1>2, RoomOnPage
<1>3. CASE SkipPage \/ PageFails \/ UNCHANGED vars
  BY <1>3 DEF SkipPage, PageFails, AtPage, vars, RoomForALaterPage, EndsRendered, Active, Range
<1>4. CASE Finish
  <2>1. /\ doc' = doc /\ opts' = opts /\ cache' = cache /\ read' = read /\ Active
        /\ stored' = stored \/ stored'.pages = cache.pages
    BY <1>4 DEF Finish, Dumped, Active
  <2> QED BY <2>1 DEF RoomForALaterPage, EndsRendered, Range
<1>5. CASE Evict
  BY <1>5 DEF Evict, NoCache, RoomForALaterPage, EndsRendered, Active, Range
<1> QED
  BY <1>1, <1>2, <1>3, <1>4, <1>5 DEF Next, Loop, LastRunDone

LEMMA ReportedIsEnough ==
  ASSUME TypeOK, Progress, Reported, RoomForALaterPage
  PROVE  FailuresReported
<1> SUFFICES ASSUME Returned, NEW p \in 1..Len(doc)
             PROVE  /\ PageError(p) \in Range(stderr) <=>
                         /\ ~opts.quiet /\ ~doc[p].renders /\ Asked(p) /\ ~DecidedBy(p)
                         /\ p \notin Range(read)
                    /\ p \in Range(read) /\ ~doc[p].renders =>
                         opts.use_cache /\ \E q \in (p + 1)..Len(cache.pages) : doc[q].renders
  BY DEF FailuresReported
<1>1. PageError(p) \in Range(stderr) <=>
        ~opts.quiet /\ ~doc[p].renders /\ Asked(p) /\ ~DecidedBy(p - 1) /\ p \notin Range(read)
  BY PassedIffUndecided DEF Reported, ReportedPage, Active, Returned
<1>2. ~doc[p].renders => (DecidedBy(p) <=> DecidedBy(p - 1))
  <2>1. p \notin Wanted => MatchesUpTo(p) = MatchesUpTo(p - 1)
    <3>1. Len(doc) \in Nat
      BY InputTypes
    <3>2. p - 1 \in Nat /\ (p - 1) + 1 = p
      BY <3>1
    <3>3. /\ MatchesUpTo(p - 1) \in Nat
          /\ p \notin Wanted => MatchesUpTo(p) = MatchesUpTo(p - 1) + 0
      BY <3>2, MatchesStep
    <3> QED BY <3>3
  <2> QED BY <2>1 DEF Wanted, DecidedBy
<1>3. p \in Range(read) /\ ~doc[p].renders =>
        opts.use_cache /\ \E q \in (p + 1)..Len(cache.pages) : doc[q].renders
  BY DEF RoomForALaterPage, Active, Returned
<1> QED BY <1>1, <1>2, <1>3

\* Whether text has been seen, and the warning at the end.
Blank ==
  Active => /\ document_empty <=> \A i \in DOMAIN read : doc[read[i]].text = EmptyText
            /\ WarnEmpty \in Range(stderr) <=>
                 pc = "idle" /\ opts.warn_empty /\ document_empty

LEMMA BlankNext ==
  ASSUME TypedAndLimited, ReadsTheText, Blank, [Next]_vars
  PROVE  Blank'
<1>1. /\ TypeOK /\ stderr \in Seq(ItemType) /\ document_empty \in BOOLEAN
      /\ opts.warn_empty \in BOOLEAN
  BY InputTypes DEF TypedAndLimited, TypeOK, OptionType
<1>2. CASE Start
  <2>1. Range(stderr') = {} /\ read' = <<>> /\ document_empty' = TRUE /\ pc' = "page"
    BY <1>2 DEF Start, Begin, Range
  <2> QED BY <2>1 DEF Blank
<1>3. CASE SkipPage \/ PageFails \/ SearchPage
  <2>1. /\ pagenum \in 1..Len(doc) /\ Len(doc) \in Nat /\ pc = "page" /\ pc' # "idle"
        /\ Active /\ doc' = doc /\ opts' = opts
    BY <1>3, PageStep DEF Active
  <2>2. /\ document_empty <=> \A i \in DOMAIN read : doc[read[i]].text = EmptyText
        /\ WarnEmpty \notin Range(stderr)
    BY <2>1 DEF Blank
  <2>3. WarnEmpty \notin Range(stderr')
    <3>1. stderr' = stderr \/ stderr' = Append(stderr, PageError(pagenum))
      BY <1>3 DEF SkipPage, PageFails, SearchPage, WithPageError
    <3>2. PageError(pagenum) # WarnEmpty /\ PageError(pagenum) \in ItemType
      <4>1. pagenum \in Nat
        BY <1>1 DEF TypeOK
      <4> QED BY <4>1 DEF PageError, WarnEmpty, Item, ItemType
    <3>3. Range(Append(stderr, PageError(pagenum))) = Range(stderr) \cup {PageError(pagenum)}
      BY <1>1, <3>2, RangeAppend
    <3> QED BY <2>2, <3>1, <3>2, <3>3
  <2>4. document_empty' <=> \A i \in DOMAIN read' : doc[read'[i]].text = EmptyText
    <3>1. CASE SkipPage \/ PageFails
      <4>1. document_empty' = document_empty /\ read' = read
        BY <3>1, PageStep
      <4> QED BY <2>1, <2>2, <4>1
    <3>2. CASE SearchPage
      <4>1. /\ read' = Append(read, pagenum) /\ read \in Seq(Nat) /\ pagenum \in Nat
            /\ document_empty' = (document_empty /\ doc[pagenum].text = EmptyText)
        BY <1>1, <1>3, <2>1, <3>2, PageStep DEF SearchPage, TypeOK, StillBlank
      <4>2. /\ DOMAIN read' = 1..(Len(read) + 1) /\ DOMAIN read = 1..Len(read)
            /\ Len(read) \in Nat
            /\ \A i \in 1..Len(read) : read'[i] = read[i]
            /\ read'[Len(read) + 1] = pagenum
        BY <4>1, RangeAppend
      <4>3. (\A i \in DOMAIN read' : doc[read'[i]].text = EmptyText)
              <=> /\ \A i \in 1..Len(read) : doc[read'[i]].text = EmptyText
                  /\ doc[read'[Len(read) + 1]].text = EmptyText
        <5>1. 1..(Len(read) + 1) = 1..Len(read) \cup {Len(read) + 1}
          BY <4>2
        <5> QED BY <4>2, <5>1, Zenon
      <4>4. (\A i \in 1..Len(read) : doc[read'[i]].text = EmptyText)
              <=> \A i \in DOMAIN read : doc[read[i]].text = EmptyText
        BY <4>2
      <4> QED BY <2>2, <4>1, <4>2, <4>3, <4>4
    <3> QED BY <1>3, <3>1, <3>2
  <2> QED BY <2>1, <2>3, <2>4 DEF Blank
<1>4. CASE Finish
  <2>1. /\ doc' = doc /\ opts' = opts /\ read' = read /\ document_empty' = document_empty
        /\ pc' = "idle" /\ pc # "idle" /\ Active
        /\ stderr' = IF opts.warn_empty /\ document_empty THEN Append(stderr, WarnEmpty)
                     ELSE stderr
    BY <1>4 DEF Finish, Active
  <2>2. WarnEmpty \in ItemType
    BY DEF WarnEmpty, Item, ItemType
  <2>3. Range(Append(stderr, WarnEmpty)) = Range(stderr) \cup {WarnEmpty}
    BY <1>1, <2>2, RangeAppend
  <2> QED BY <2>1, <2>3 DEF Blank
<1>5. CASE Evict \/ UNCHANGED vars
  BY <1>5 DEF Evict, vars, Active, Blank
<1> QED
  BY <1>2, <1>3, <1>4, <1>5 DEF Next, Loop, LastRunDone

LEMMA BlankIsWarned ==
  ASSUME TypeOK, Blank
  PROVE  WarnsIfNoTextWasSeen
BY DEF Blank, Active, Returned, WarnsIfNoTextWasSeen

-----------------------------------------------------------------------------
\* When the name of the file has been printed.
Named ==
  Active =>
    /\ pc = "page" /\ OneMatchDecides => total_count = 0
    /\ opts.quiet \/ opts.only_filenames = "NOPE" => Filename \notin Range(stdout)
    /\ ~opts.quiet /\ opts.only_filenames = "WITH_MATCHES" =>
         stdout = IF total_count > 0 THEN <<Filename>> ELSE <<>>
    /\ ~opts.quiet /\ opts.only_filenames = "WITHOUT_MATCH" =>
         IF total_count > 0 THEN Filename \notin Range(stdout)
         ELSE stdout = IF pc = "idle" THEN <<Filename>> ELSE <<>>

LEMMA NamedNext ==
  ASSUME TypedAndLimited, Named, [Next]_vars
  PROVE  Named'
<1>1. /\ TypeOK /\ stdout \in Seq(ItemType) /\ total_count \in Nat /\ pagenum \in Nat
      /\ opts.only_filenames \in OnlyFilenames /\ opts.quiet \in BOOLEAN
  BY InputTypes DEF TypedAndLimited, TypeOK
<1>2. ASSUME NEW e \in ItemType, e # Filename, Filename \notin Range(stdout)
      PROVE  Filename \notin Range(stdout \o <<e>>)
  <2>1. stdout \o <<e>> = Append(stdout, e)
    BY <1>1, AppendAsConcat
  <2>2. Range(Append(stdout, e)) = Range(stdout) \cup {e}
    BY <1>1, RangeAppend
  <2> QED BY <1>2, <2>1, <2>2
<1>0. /\ <<>> \o <<Filename>> = <<Filename>> /\ <<>> \o <<>> = <<>>
      /\ <<>> \o <<Item("count", 0, total_count)>> = <<Item("count", 0, total_count)>>
  OBVIOUS
<1>3. CASE Start
  <2>1. Range(stdout') = {} /\ stdout' = <<>> /\ total_count' = 0 /\ pc' = "page"
    BY <1>3 DEF Start, Begin, Range
  <2> QED BY <2>1 DEF Named
<1>4. CASE SkipPage \/ PageFails \/ Evict \/ UNCHANGED vars
  BY <1>4 DEF SkipPage, PageFails, Evict, vars, Active, Named, Range, OneMatchDecides, AtPage
<1>5. CASE SearchPage
  <2>1. /\ pc = "page" /\ AtPage /\ Active /\ opts' = opts /\ pc' \in {"page", "break"}
        /\ total_count' = total_count + page_count
        /\ pc' = "page" => ~StopAfterPage
    BY <1>5 DEF SearchPage, AtPage, Active
  <2>a. PICK trailing : stdout' = stdout \o PageOutput(trailing)
    BY <1>5 DEF SearchPage
  <2> DEFINE Page == PageOutput(trailing)
  <2>2. page_count \in Nat
    BY <2>1, PageCountType DEF TypedAndLimited
  <2>3. /\ OneMatchDecides => total_count = 0
        /\ opts.quiet \/ opts.only_filenames = "NOPE" => Filename \notin Range(stdout)
        /\ ~opts.quiet /\ opts.only_filenames = "WITH_MATCHES" =>
             stdout = IF total_count > 0 THEN <<Filename>> ELSE <<>>
        /\ ~opts.quiet /\ opts.only_filenames = "WITHOUT_MATCH" =>
             Filename \notin Range(stdout) /\ (total_count = 0 => stdout = <<>>)
    <3>1. total_count = 0 \/ total_count > 0
      BY <1>1
    <3>2. stdout = <<>> => Filename \notin Range(stdout)
      BY DEF Range
    <3> QED BY <2>1, <3>1, <3>2 DEF Named
  <2>4. pc' = "page" /\ OneMatchDecides => total_count' = 0
    BY <1>1, <2>1, <2>2, <2>3 DEF StopAfterPage, OneMatchDecides
  <2>5. ASSUME opts.quiet \/ opts.only_filenames # "WITH_MATCHES", Filename \notin Range(stdout)
        PROVE  Filename \notin Range(stdout')
    <3>1. \/ Page = <<>> \/ Page = <<Item("page count", pagenum, page_count)>>
          \/ Page = <<Item("lines", pagenum, page_count)>>
          \/ Page = <<Item("context", pagenum, 0)>>
      BY <2>5 DEF PageOutput
    <3>2. /\ Item("page count", pagenum, page_count) \in ItemType
          /\ Item("lines", pagenum, page_count) \in ItemType
          /\ Item("context", pagenum, 0) \in ItemType
          /\ Item("page count", pagenum, page_count) # Filename
          /\ Item("lines", pagenum, page_count) # Filename
          /\ Item("context", pagenum, 0) # Filename
      BY <1>1, <2>2 DEF Item, ItemType, Filename
    <3>3. CASE Page = <<>>
      <4>1. stdout' = stdout
        BY <1>1, <2>a, <3>3
      <4> QED BY <2>5, <4>1 DEF Range
    <3> HIDE DEF Page
    <3>4. stdout' = stdout \o Page
      BY <2>a DEF Page
    <3> QED BY <1>2, <2>5, <3>1, <3>2, <3>3, <3>4
  <2>6. ~opts.quiet /\ opts.only_filenames = "WITH_MATCHES" =>
          stdout' = IF total_count' > 0 THEN <<Filename>> ELSE <<>>
    <3>1. ~opts.quiet /\ opts.only_filenames = "WITH_MATCHES" =>
            /\ stdout = <<>> /\ total_count = 0
            /\ Page = IF page_count > 0 THEN <<Filename>> ELSE <<>>
      BY <2>2, <2>3 DEF PageOutput, OneMatchDecides
    <3>2. total_count = 0 => total_count' = page_count
      BY <2>1, <2>2
    <3> QED BY <1>0, <2>a, <3>1, <3>2, Zenon
  <2>7. ~opts.quiet /\ opts.only_filenames = "WITHOUT_MATCH" =>
          /\ Filename \notin Range(stdout')
          /\ ~(total_count' > 0) => stdout' = <<>>
    <3> SUFFICES ASSUME ~opts.quiet, opts.only_filenames = "WITHOUT_MATCH",
                        ~(total_count' > 0)
                 PROVE  stdout' = <<>>
      BY <2>3, <2>5
    <3>1. page_count = 0 /\ total_count = 0
      BY <1>1, <2>1, <2>2
    <3>2. Page = <<>> /\ stdout = <<>>
      BY <2>3, <3>1 DEF PageOutput
    <3> QED BY <1>0, <2>a, <3>2
  <2>8. opts.quiet \/ opts.only_filenames = "NOPE" => Filename \notin Range(stdout')
    BY <2>3, <2>5
  <2> QED BY <2>1, <2>4, <2>6, <2>7, <2>8 DEF Named, OneMatchDecides
<1>6. CASE Finish
  <2>1. /\ pc # "idle" /\ pc' = "idle" /\ Active /\ opts' = opts
        /\ total_count' = total_count /\ stdout' = stdout \o ClosingOutput
    BY <1>6 DEF Finish, Active
  <2>2. /\ opts.quiet \/ opts.only_filenames = "NOPE" => Filename \notin Range(stdout)
        /\ ~opts.quiet /\ opts.only_filenames = "WITH_MATCHES" =>
             stdout = IF total_count > 0 THEN <<Filename>> ELSE <<>>
        /\ ~opts.quiet /\ opts.only_filenames = "WITHOUT_MATCH" =>
             IF total_count > 0 THEN Filename \notin Range(stdout) ELSE stdout = <<>>
    BY <2>1 DEF Named
  <2>3. ASSUME opts.quiet \/ opts.only_filenames = "NOPE"
        PROVE  Filename \notin Range(stdout')
    <3>1. ClosingOutput = <<>> \/ ClosingOutput = <<Item("count", 0, total_count)>>
      <4>1. ClosingOutput = <<>> \o (IF opts.count /\ opts.only_filenames = "NOPE" /\ ~opts.quiet
                                     THEN <<Item("count", 0, total_count)>> ELSE <<>>)
        BY <2>3 DEF ClosingOutput
      <4> QED BY <1>0, <4>1, Zenon
    <3>2. Item("count", 0, total_count) \in ItemType /\ Item("count", 0, total_count) # Filename
      BY <1>1 DEF Item, ItemType, Filename
    <3>3. CASE ClosingOutput = <<>>
      <4>1. stdout' = stdout
        BY <1>1, <2>1, <3>3
      <4> QED BY <2>2, <2>3, <4>1 DEF Range
    <3> QED BY <1>2, <2>1, <2>2, <2>3, <3>1, <3>2, <3>3
  <2>4. ~opts.quiet /\ opts.only_filenames = "WITH_MATCHES" =>
          stdout' = IF total_count > 0 THEN <<Filename>> ELSE <<>>
    <3>1. opts.only_filenames = "WITH_MATCHES" => ClosingOutput = <<>>
      BY DEF ClosingOutput
    <3> QED BY <1>1, <2>1, <2>2, <3>1
  <2>5. ~opts.quiet /\ opts.only_filenames = "WITHOUT_MATCH" =>
          IF total_count > 0 THEN Filename \notin Range(stdout') ELSE stdout' = <<Filename>>
    <3>1. ~opts.quiet /\ opts.only_filenames = "WITHOUT_MATCH" =>
            ClosingOutput = IF total_count = 0 THEN <<Filename>> ELSE <<>>
      BY <1>0 DEF ClosingOutput
    <3>2. (total_count > 0 <=> total_count # 0) /\ stdout \o <<>> = stdout
      BY <1>1
    <3> QED BY <1>0, <2>1, <2>2, <3>1, <3>2, Zenon
  <2> QED BY <2>1, <2>3, <2>4, <2>5 DEF Named
<1> QED
  BY <1>3, <1>4, <1>5, <1>6 DEF Next, Loop, LastRunDone

LEMMA NamedIsRight ==
  ASSUME TypeOK, Progress, Named
  PROVE  NamesTheFile
<1> DEFINE N == {i \in DOMAIN stdout : stdout[i] = Filename}
<1> SUFFICES ASSUME Returned PROVE Cardinality(N) = (IF MustBeNamed THEN 1 ELSE 0)
  BY DEF NamesTheFile
<1>1. /\ total_count = Cut(AllMatches) /\ AllMatches \in Nat /\ opts.max_count \in Nat
      /\ opts.only_filenames \in OnlyFilenames /\ opts.quiet \in BOOLEAN
  BY CountIsCut, InputTypes
<1>2. total_count \in Nat /\ (total_count = 0 <=> AllMatches = 0)
  BY <1>1 DEF Cut
<1>3. pc = "idle" /\ Active
  BY DEF Returned, Active
<1>4. CASE opts.quiet \/ opts.only_filenames = "NOPE"
  <2>1. N = {}
    BY <1>3, <1>4 DEF Named, Range
  <2>2. ~MustBeNamed
    BY <1>4 DEF MustBeNamed
  <2> QED BY <2>1, <2>2, FS_EmptySet
<1>5. CASE ~opts.quiet /\ opts.only_filenames # "NOPE"
  <2>1. IF MustBeNamed THEN stdout = <<Filename>> ELSE Filename \notin Range(stdout)
    <3>1. Filename \notin Range(<<>>)
      BY DEF Range
    <3> QED BY <1>1, <1>2, <1>3, <1>5, <3>1 DEF Named, MustBeNamed, OnlyFilenames
  <2>2. MustBeNamed => N = {1}
    <3> SUFFICES ASSUME MustBeNamed PROVE N = {1}
      OBVIOUS
    <3>1. DOMAIN stdout = {1} /\ stdout[1] = Filename
      BY <2>1
    <3> QED BY <3>1
  <2>3. ~MustBeNamed => N = {}
    BY <2>1 DEF Range
  <2>4. Cardinality({1}) = 1 /\ Cardinality({}) = 0
    BY FS_EmptySet, FS_Singleton
  <2> QED BY <2>2, <2>3, <2>4
<1> QED BY <1>4, <1>5

-----------------------------------------------------------------------------
\* The count lines of -p in an output, and their sum.
Counts(out) == {i \in DOMAIN out : out[i].kind = "page count"}
Numbered(out) == [i \in Counts(out) |-> out[i].number]
AddsUp(out) == MapThenSumSet(LAMBDA i : out[i].number, Counts(out))

LEMMA CountsFinite ==
  ASSUME NEW out \in Seq(ItemType)
  PROVE  /\ IsFiniteSet(Counts(out)) /\ Weight(Numbered(out), Counts(out))
         /\ \A i \in Counts(out) : i \in 1..Len(out) /\ out[i].number \in Nat /\ out[i].page \in Nat
<1>1. DOMAIN out = 1..Len(out) /\ Len(out) \in Nat /\ \A i \in 1..Len(out) : out[i] \in ItemType
  OBVIOUS
<1>2. Counts(out) \in SUBSET (1..Len(out))
  BY <1>1 DEF Counts
<1>3. IsFiniteSet(1..Len(out))
  <2>1. 1 \in Int /\ Len(out) \in Int
    BY <1>1
  <2> QED BY <2>1, FS_Interval
<1>4. \A i \in Counts(out) : i \in 1..Len(out) /\ out[i].number \in Nat /\ out[i].page \in Nat
  BY <1>1, <1>2 DEF ItemType
<1> QED BY <1>2, <1>3, <1>4, FS_Subset DEF Weight, Numbered

LEMMA AddsUpIsTotal ==
  ASSUME NEW out \in Seq(ItemType)
  PROVE  AddsUp(out) = Total(Numbered(out), Counts(out))
<1> DEFINE S == Counts(out)
           w == Numbered(out)
           iter == CHOOSE g : g = [s \in SUBSET S |->
                     IF s = {} THEN 0 ELSE out[CHOOSE x \in s : TRUE].number
                                           + g[s \ {CHOOSE x \in s : TRUE}]]
<1>1. AddsUp(out) = iter[S]
  BY Zenon DEF AddsUp, MapThenSumSet, MapThenFoldSet
<1>2. IsFiniteSet(S) /\ Weight(w, S)
  BY CountsFinite
<1>3. \A i \in S : w[i] = out[i].number
  BY DEF Numbered
<1>4. PICK g : SumsUp(g, w, S)
  BY <1>2, SumExists
<1> HIDE DEF w, S
<1>5. \A s \in SUBSET S : s # {} => (CHOOSE x \in s : TRUE) \in S
  OBVIOUS
<1>6. \A h : SumsUp(h, w, S) <=>
        h = [s \in SUBSET S |->
              IF s = {} THEN 0 ELSE out[CHOOSE x \in s : TRUE].number
                                    + h[s \ {CHOOSE x \in s : TRUE}]]
  BY <1>3, <1>5 DEF SumsUp, Chosen
<1>7. SumsUp(iter, w, S)
  <2>1. g = [s \in SUBSET S |->
              IF s = {} THEN 0 ELSE out[CHOOSE x \in s : TRUE].number
                                    + g[s \ {CHOOSE x \in s : TRUE}]]
    BY <1>4, <1>6, Zenon
  <2>2. \E h : h = [s \in SUBSET S |->
                     IF s = {} THEN 0 ELSE out[CHOOSE x \in s : TRUE].number
                                           + h[s \ {CHOOSE x \in s : TRUE}]]
    BY <2>1, Zenon
  <2>3. iter = [s \in SUBSET S |->
                 IF s = {} THEN 0 ELSE out[CHOOSE x \in s : TRUE].number
                                       + iter[s \ {CHOOSE x \in s : TRUE}]]
    BY <2>2, Zenon
  <2> QED BY <1>6, <2>3, Zenon
<1> HIDE DEF iter
<1>8. iter[S] = Total(w, S)
  BY <1>2, <1>7, TotalIs
<1> QED BY <1>1, <1>8 DEF w, S

\* One more item: a count line is added to the sum, anything else leaves it.
LEMMA AddsOneMore ==
  ASSUME NEW out \in Seq(ItemType), NEW e \in ItemType
  PROVE  LET more == Append(out, e) IN
         /\ \A i \in Counts(out) : more[i] = out[i]
         /\ e.kind # "page count" => Counts(more) = Counts(out) /\ AddsUp(more) = AddsUp(out)
         /\ e.kind = "page count" =>
              /\ Counts(more) = Counts(out) \cup {Len(out) + 1} /\ more[Len(out) + 1] = e
              /\ AddsUp(more) = AddsUp(out) + e.number
<1> DEFINE more == Append(out, e)
           n == Len(out) + 1
<1>1. /\ DOMAIN more = 1..n /\ DOMAIN out = 1..Len(out) /\ Len(out) \in Nat
      /\ \A i \in 1..Len(out) : more[i] = out[i]
      /\ more[n] = e /\ more \in Seq(ItemType)
  OBVIOUS
<1> HIDE DEF more
<1>2. 1..n = 1..Len(out) \cup {n} /\ n \notin 1..Len(out)
  BY <1>1
<1>3. \A i \in Counts(out) : more[i] = out[i] /\ i \in 1..Len(out)
  BY <1>1 DEF Counts
<1>4. Counts(more) = IF e.kind = "page count" THEN Counts(out) \cup {n} ELSE Counts(out)
  BY <1>1, <1>2 DEF Counts
<1>5. /\ AddsUp(out) = Total(Numbered(out), Counts(out))
      /\ AddsUp(more) = Total(Numbered(more), Counts(more))
  BY <1>1, AddsUpIsTotal
<1>6. e.kind # "page count" => Numbered(more) = Numbered(out)
  BY <1>3, <1>4 DEF Numbered
<1>7. ASSUME e.kind = "page count" PROVE AddsUp(more) = AddsUp(out) + e.number
  <2>1. /\ IsFiniteSet(Counts(more)) /\ n \in Counts(more)
        /\ Counts(out) = Counts(more) \ {n}
    BY <1>1, <1>2, <1>3, <1>4, <1>7, CountsFinite
  <2>2. Weight(Numbered(out), Counts(out)) /\ Weight(Numbered(more), Counts(more))
    BY <1>1, CountsFinite
  <2>3. AgreeOn(Counts(out), Numbered(out), Numbered(more)) /\ Numbered(more)[n] = e.number
    BY <1>1, <1>3, <1>4, <1>7 DEF AgreeOn, Numbered
  <2> HIDE DEF n
  <2>4. Total(Numbered(more), Counts(more))
          = Total(Numbered(out), Counts(out)) + Numbered(more)[n]
    BY <2>1, <2>2, <2>3, TotalAdd
  <2> QED BY <1>5, <2>3, <2>4
<1> QED BY <1>1, <1>3, <1>4, <1>5, <1>6, <1>7 DEF more

\* With -p, what has been printed adds up so far, and no page behind the current
\* one has been printed.
Tallied ==
  opts.pagecount /\ opts.only_filenames = "NOPE" /\ ~opts.quiet =>
    /\ AddsUp(stdout) = total_count
    /\ \A i, j \in Counts(stdout) : i < j => stdout[i].page < stdout[j].page
    /\ \A i \in Counts(stdout) :
         /\ stdout[i].number > 0
         /\ stdout[i].page < pagenum \/ (stdout[i].page = pagenum /\ pc # "page")

LEMMA NothingAddsUpToZero == AddsUp(<<>>) = 0 /\ Counts(<<>>) = {}
<1>1. Counts(<<>>) = {} /\ <<>> \in Seq(ItemType)
  BY DEF Counts
<1>2. AddsUp(<<>>) = Total(Numbered(<<>>), {}) /\ Weight(Numbered(<<>>), {})
  BY <1>1, AddsUpIsTotal, CountsFinite
<1> QED BY <1>1, <1>2, TotalEmpty

LEMMA TalliedNext ==
  ASSUME TypedAndLimited, Tallied, [Next]_vars
  PROVE  Tallied'
<1>1. /\ TypeOK /\ stdout \in Seq(ItemType) /\ total_count \in Nat /\ pagenum \in Nat \ {0}
      /\ Len(doc) \in Nat
  BY InputTypes DEF TypedAndLimited, TypeOK
<1>2. CASE Start
  BY <1>2, NothingAddsUpToZero DEF Start, Begin, Tallied
<1>3. CASE SkipPage \/ PageFails \/ Evict \/ UNCHANGED vars
  <2>1. UNCHANGED <<opts, stdout, total_count>>
    BY <1>3 DEF SkipPage, PageFails, Evict, vars
  <2>2. \/ pagenum' = pagenum /\ pc' = pc
        \/ pagenum' = pagenum + 1 /\ pc = "page" /\ pc' = "page"
    BY <1>3 DEF SkipPage, PageFails, Evict, vars, AtPage
  <2>3. \A i \in Counts(stdout) : stdout[i].page \in Nat
    BY <1>1, CountsFinite
  <2> QED BY <1>1, <2>1, <2>2, <2>3 DEF Tallied
<1>4. CASE SearchPage
  <2> SUFFICES ASSUME opts.pagecount, opts.only_filenames = "NOPE", ~opts.quiet
               PROVE  Tallied'
    BY <1>4 DEF SearchPage, Tallied
  <2>1. /\ pc = "page" /\ AtPage /\ opts' = opts
        /\ total_count' = total_count + page_count
        /\ pagenum' = pagenum + 1 \/ (pagenum' = pagenum /\ pc' # "page")
    BY <1>4 DEF SearchPage, AtPage
  <2>a. PICK trailing : stdout' = stdout \o PageOutput(trailing)
    BY <1>4 DEF SearchPage
  <2>2. page_count \in Nat
    BY <2>1, PageCountType DEF TypedAndLimited
  <2>3. /\ AddsUp(stdout) = total_count
        /\ \A i, j \in Counts(stdout) : i < j => stdout[i].page < stdout[j].page
        /\ \A i \in Counts(stdout) : stdout[i].number > 0 /\ stdout[i].page < pagenum
    BY <2>1 DEF Tallied
  <2>4. \A i \in Counts(stdout) : stdout[i].page \in Nat /\ i \in 1..Len(stdout)
    BY <1>1, CountsFinite
  <2> DEFINE e == Item("page count", pagenum, page_count)
             n == Len(stdout) + 1
  <2>5. /\ e \in ItemType /\ e.kind = "page count" /\ e.page = pagenum /\ e.number = page_count
    BY <1>1, <2>2 DEF Item, ItemType
  <2>6. CASE page_count = 0
    <3>1. stdout' = stdout
      BY <1>1, <2>a, <2>6 DEF PageOutput
    <3> QED BY <1>1, <2>1, <2>3, <2>4, <2>6, <3>1 DEF Tallied
  <2>7. CASE page_count > 0
    <3>1. stdout' = Append(stdout, e)
      <4>1. PageOutput(trailing) = <<e>>
        <5>1. page_count # 0
          BY <2>2, <2>7
        <5> QED BY <5>1, Zenon DEF PageOutput
      <4> HIDE DEF e
      <4> QED BY <1>1, <2>a, <2>5, <4>1, AppendAsConcat
    <3> HIDE DEF e
    <3>2. /\ \A i \in Counts(stdout) : stdout'[i] = stdout[i]
          /\ Counts(stdout') = Counts(stdout) \cup {n} /\ stdout'[n] = e
          /\ AddsUp(stdout') = AddsUp(stdout) + e.number
      BY <1>1, <2>5, <3>1, AddsOneMore
    <3>3. AddsUp(stdout') = total_count'
      BY <2>1, <2>3, <2>5, <3>2
    <3>4. ASSUME NEW i \in Counts(stdout'), NEW j \in Counts(stdout'), i < j
          PROVE  stdout'[i].page < stdout'[j].page
      <4>1. i \in Counts(stdout)
        BY <1>1, <2>4, <3>2, <3>4
      <4>2. CASE j \in Counts(stdout)
        BY <2>3, <3>2, <3>4, <4>1, <4>2
      <4>3. CASE j = n
        BY <2>3, <2>5, <3>2, <4>1, <4>3
      <4> QED BY <3>2, <4>2, <4>3
    <3>5. ASSUME NEW i \in Counts(stdout')
          PROVE  /\ stdout'[i].number > 0
                 /\ stdout'[i].page < pagenum' \/ (stdout'[i].page = pagenum' /\ pc' # "page")
      <4>1. CASE i \in Counts(stdout)
        BY <1>1, <2>1, <2>3, <2>4, <3>2, <4>1
      <4>2. CASE i = n
        <5>1. stdout'[i] = e
          BY <3>2, <4>2
        <5>2. e.number > 0
          BY <2>2, <2>5, <2>7
        <5>3. e.page < pagenum' \/ (e.page = pagenum' /\ pc' # "page")
          <6>1. pagenum' = pagenum + 1 \/ (pagenum' = pagenum /\ pc' # "page")
            BY <2>1
          <6>2. e.page = pagenum /\ pagenum \in Nat
            BY <1>1, <2>5
          <6>3. pagenum < pagenum' \/ (pagenum = pagenum' /\ pc' # "page")
            BY <6>1, <6>2
          <6> QED BY <6>2, <6>3
        <5> QED BY <5>1, <5>2, <5>3
      <4> QED BY <3>2, <4>1, <4>2
    <3> QED BY <3>3, <3>4, <3>5 DEF Tallied
  <2> QED BY <2>2, <2>6, <2>7
<1>5. CASE Finish
  <2> SUFFICES ASSUME opts.pagecount, opts.only_filenames = "NOPE", ~opts.quiet
               PROVE  Tallied'
    BY <1>5 DEF Finish, Tallied
  <2> DEFINE e == Item("count", 0, total_count)
  <2>1. /\ opts' = opts /\ total_count' = total_count /\ pagenum' = pagenum /\ pc' # "page"
        /\ stdout' = stdout \o ClosingOutput
    BY <1>5 DEF Finish
  <2>2. e \in ItemType /\ e.kind # "page count"
    BY <1>1 DEF Item, ItemType
  <2>3. stdout' = stdout \/ stdout' = Append(stdout, e)
    <3> HIDE DEF e
    <3>1. <<>> \o <<e>> = <<e>> /\ <<>> \o <<>> = <<>>
      OBVIOUS
    <3>2. ClosingOutput = <<>> \o (IF opts.count /\ opts.only_filenames = "NOPE" /\ ~opts.quiet
                                   THEN <<e>> ELSE <<>>)
      BY DEF ClosingOutput, e
    <3>3. ClosingOutput = <<>> \/ ClosingOutput = <<e>>
      BY <3>1, <3>2, Zenon
    <3> QED BY <1>1, <2>1, <2>2, <3>3, AppendAsConcat
  <2> HIDE DEF e
  <2>4. /\ \A i \in Counts(stdout) : stdout'[i] = stdout[i]
        /\ Counts(stdout') = Counts(stdout) /\ AddsUp(stdout') = AddsUp(stdout)
    <3>1. LET more == Append(stdout, e) IN
          /\ \A i \in Counts(stdout) : more[i] = stdout[i]
          /\ Counts(more) = Counts(stdout) /\ AddsUp(more) = AddsUp(stdout)
      BY <1>1, <2>2, AddsOneMore
    <3> QED BY <2>3, <3>1
  <2> QED BY <2>1, <2>4, ZenonT(30) DEF Tallied
<1> QED
  BY <1>2, <1>3, <1>4, <1>5 DEF Next, Loop, LastRunDone

LEMMA TalliedIsEnough == Tallied => PageCountsAddUp
<1> SUFFICES ASSUME Tallied, opts.pagecount, opts.only_filenames = "NOPE", ~opts.quiet
             PROVE  PageCountsAddUp
  BY DEF PageCountsAddUp
<1>1. MapThenSumSet(LAMBDA i : stdout[i].number,
                    {i \in DOMAIN stdout : stdout[i].kind = "page count"}) = total_count
  BY Zenon DEF Tallied, AddsUp, Counts
<1> QED BY <1>1 DEF Tallied, PageCountsAddUp, Counts

\* -p: the counts printed for the pages add up to the matches of the file, each
\* page at most once, in order, and none with the count 0; cache or no cache.
THEOREM PageCountsHold == Spec => []PageCountsAddUp
<1>1. Init => Tallied
  BY NothingAddsUpToZero DEF Init, Tallied
<1>2. TypedAndLimited /\ Tallied /\ [Next]_vars => Tallied'
  BY TalliedNext
<1> QED
  BY <1>1, <1>2, TypedAndLimitedInit, TypedAndLimitedNext, TalliedIsEnough, PTL DEF Spec

-----------------------------------------------------------------------------
\* Command lines and documents where the cache gives the text of the page: it has
\* no hole (CacheStaysFaithful), and no match on the empty page that a failed one
\* becomes in it; or it is not used, or there is no earlier run that could have
\* written it.  Without this, document_cached_range shows what happens.
NotCachedYet == (\A o \in OptionSet : ~o.use_cache) \/ MaxRuns <= 1
NoHoleInCache ==
  \/ NoPageLeftOut /\ (EveryPageRenders \/ NothingMatchesEmptyPages)
  \/ NotCachedYet
\* Those where, moreover, no page in the cache is one that failed.
OnlyRenderedInCache == (NoPageLeftOut /\ EveryPageRenders) \/ NotCachedYet

LEMMA NothingFromTheCache ==
  ASSUME NotCachedYet
  PROVE  Spec => []~(AtPage /\ CacheHit)
<1>1. CASE \A o \in OptionSet : ~o.use_cache
  <2>1. TypeOK => ~(AtPage /\ CacheHit)
    BY <1>1 DEF TypeOK, CacheHit
  <2> QED BY <2>1, TypeCorrect, PTL
<1>2. CASE MaxRuns <= 1
  <2> DEFINE Fresh == (pc # "idle" => ~cache.valid) /\ (runs = 0 => ~stored.valid)
  <2>1. Init => Fresh
    BY DEF Init, NoCache
  <2>2. TypeOK /\ Fresh /\ [Next]_vars => Fresh'
    <3> SUFFICES ASSUME TypeOK, Fresh, [Next]_vars PROVE Fresh'
      OBVIOUS
    <3>1. runs \in Nat /\ cache.valid \in BOOLEAN
      BY RunsAssumption DEF TypeOK, CacheType
    <3>2. CASE Start
      BY <1>2, <3>1, <3>2, RunsAssumption DEF Start, NoCache
    <3>3. CASE SearchPage
      <4>1. cache' = cache \/ cache'.valid = cache.valid
        BY <3>3 DEF SearchPage, set_page
      <4> QED BY <3>3, <4>1 DEF SearchPage, AtPage
    <3>4. CASE Finish
      BY <3>1, <3>4 DEF Finish
    <3> QED BY <3>2, <3>3, <3>4
      DEF Next, Loop, LastRunDone, SkipPage, PageFails, Evict, vars, NoCache
  <2>3. Fresh => ~(AtPage /\ CacheHit)
    BY DEF AtPage, CacheHit, get_page
  <2> HIDE DEF Fresh
  <2> QED BY <2>1, <2>2, <2>3, TypeCorrect, PTL DEF Spec
<1> QED BY <1>1, <1>2 DEF NotCachedYet

LEMMA CacheGivesTheText ==
  ASSUME NoHoleInCache
  PROVE  Spec => []ReadsTheText
<1>1. CASE NoPageLeftOut /\ (EveryPageRenders \/ NothingMatchesEmptyPages)
  <2>1. Spec => []CacheIsFaithful
    BY <1>1, CacheStaysFaithful
  <2>2. TypeOK /\ CacheIsFaithful => ReadsTheText
    <3> SUFFICES ASSUME TypeOK, CacheIsFaithful, AtPage, CacheHit
                 PROVE  /\ page_text = doc[pagenum].text
                        /\ ~doc[pagenum].renders => opts.pattern[EmptyText] = 0
      BY DEF ReadsTheText
    <3>1. pagenum \in 1..Len(cache.pages) /\ opts.use_cache
      BY DEF CacheHit, get_page, TypeOK, CacheType
    <3>2. pagenum <= Len(doc) /\ page_text = doc[pagenum].text
      BY <3>1 DEF CacheIsFaithful, CachedIsRendered, page_text
    <3>3. pagenum \in 1..Len(doc)
      BY <3>1, <3>2, InputTypes DEF TypeOK, CacheType
    <3>4. doc[pagenum].renders \/ opts.pattern[EmptyText] = 0
      BY <1>1, <3>1, <3>3 DEF TypeOK, EveryPageRenders, NothingMatchesEmptyPages
    <3> QED BY <3>2, <3>4
  <2> QED BY <2>1, <2>2, TypeCorrect, PTL
<1>2. CASE NotCachedYet
  <2>1. ~(AtPage /\ CacheHit) => ReadsTheText
    BY DEF ReadsTheText
  <2> QED BY <1>2, <2>1, NothingFromTheCache, PTL
<1> QED BY <1>1, <1>2 DEF NoHoleInCache

LEMMA CacheGivesRenderedPages ==
  ASSUME OnlyRenderedInCache
  PROVE  Spec => []ReadsRenderedPages
<1>1. CASE EveryPageRenders
  <2>1. TypeOK => ReadsRenderedPages
    <3> SUFFICES ASSUME TypeOK, AtPage PROVE doc[pagenum].renders
      BY DEF ReadsRenderedPages
    <3>1. pagenum \in 1..Len(doc)
      BY InputTypes DEF TypeOK, AtPage
    <3> QED BY <1>1, <3>1 DEF TypeOK, EveryPageRenders
  <2> QED BY <2>1, TypeCorrect, PTL
<1>2. CASE NotCachedYet
  <2>1. ~(AtPage /\ CacheHit) => ReadsRenderedPages
    BY DEF ReadsRenderedPages
  <2> QED BY <1>2, <2>1, NothingFromTheCache, PTL
<1> QED BY <1>1, <1>2 DEF OnlyRenderedInCache

LEMMA NothingHasHappened ==
  Init => Progress /\ ReadSoFar /\ Reported /\ RoomForALaterPage /\ Blank /\ Named
BY DEF Init, Active, Progress, ReadSoFar, Reported, RoomForALaterPage, EndsRendered,
       NoCache, Blank, Named

LEMMA ProgressHolds ==
  ASSUME NoHoleInCache
  PROVE  Spec => []Progress
<1>1. TypedAndLimited /\ ReadsTheText /\ Progress /\ [Next]_vars => Progress'
  BY ProgressNext
<1> QED
  BY <1>1, NothingHasHappened, TypedAndLimitedInit, TypedAndLimitedNext,
     CacheGivesTheText, PTL DEF Spec

\* The number behind -c and the exit status is that of the PDF, cut at -m, or 1
\* where one match decides: for every document, pattern, range and limit.
THEOREM CountIsRight ==
  ASSUME NoHoleInCache
  PROVE  Spec => []CountIsExact
<1>1. TypeOK /\ Progress => CountIsExact
  BY ProgressIsExact
<1> QED BY <1>1, TypeCorrect, ProgressHolds, PTL

\* -m, -q and -l: a page is searched if and only if it is wanted and the pages
\* before it have not decided the answer, and never twice.  (Pages that failed and
\* became empty pages of the cache would be searched in vain.)
THEOREM ReadsNoMoreNoLess ==
  ASSUME OnlyRenderedInCache
  PROVE  Spec => []ReadsWhatIsNeeded
<1>1. NoHoleInCache
  BY DEF OnlyRenderedInCache, NoHoleInCache
<1>2. TypedAndLimited /\ ReadsTheText /\ ReadsRenderedPages /\ ReadSoFar /\ [Next]_vars
        => ReadSoFar'
  BY ReadSoFarNext
<1>3. Spec => []ReadSoFar
  BY <1>1, <1>2, NothingHasHappened, TypedAndLimitedInit, TypedAndLimitedNext,
     CacheGivesTheText, CacheGivesRenderedPages, PTL DEF Spec
<1>4. TypeOK /\ Progress /\ ReadSoFar => ReadsWhatIsNeeded
  BY ReadIsNeeded
<1> QED BY <1>1, <1>3, <1>4, TypeCorrect, ProgressHolds, PTL

\* -l names the file once if it has a match, -L once if it has none, -q never.
THEOREM NameIsRight ==
  ASSUME NoHoleInCache
  PROVE  Spec => []NamesTheFile
<1>1. TypedAndLimited /\ Named /\ [Next]_vars => Named'
  BY NamedNext
<1>2. Spec => []Named
  BY <1>1, NothingHasHappened, TypedAndLimitedInit, TypedAndLimitedNext, PTL DEF Spec
<1>3. TypeOK /\ Progress /\ Named => NamesTheFile
  BY NamedIsRight
<1> QED BY <1>2, <1>3, TypeCorrect, ProgressHolds, PTL

\* Every page of the range that cannot be rendered is reported, up to the page
\* where the run stopped reading, and no other; with -q none.  Only where the cache
\* holds a later page that was rendered, such a page is silently searched as empty.
THEOREM FailuresAreReported ==
  ASSUME NoHoleInCache
  PROVE  Spec => []FailuresReported
<1>1. TypedAndLimited /\ ReadsTheText /\ Reported /\ [Next]_vars => Reported'
  BY ReportedNext
<1>2. Spec => []Reported
  BY <1>1, NothingHasHappened, TypedAndLimitedInit, TypedAndLimitedNext,
     CacheGivesTheText, PTL DEF Spec
<1>3. TypeOK /\ RoomForALaterPage /\ [Next]_vars => RoomForALaterPage'
  BY RoomNext
<1>4. Spec => []RoomForALaterPage
  BY <1>3, NothingHasHappened, TypeCorrect, PTL DEF Spec
<1>5. TypeOK /\ Progress /\ Reported /\ RoomForALaterPage => FailuresReported
  BY ReportedIsEnough
<1> QED BY <1>2, <1>4, <1>5, TypeCorrect, ProgressHolds, PTL

\* --warn-empty: the warning appears if and only if no searched page has text.
THEOREM EmptinessIsWarned ==
  ASSUME NoHoleInCache
  PROVE  Spec => []WarnsIfNoTextWasSeen
<1>1. TypedAndLimited /\ ReadsTheText /\ Blank /\ [Next]_vars => Blank'
  BY BlankNext
<1>2. Spec => []Blank
  BY <1>1, NothingHasHappened, TypedAndLimitedInit, TypedAndLimitedNext,
     CacheGivesTheText, PTL DEF Spec
<1>3. TypeOK /\ Blank => WarnsIfNoTextWasSeen
  BY BlankIsWarned
<1> QED BY <1>2, <1>3, TypeCorrect, PTL
=============================================================================
