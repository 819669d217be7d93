# A TLA+ verification of pdfgrep

pdfgrep searches PDF files for regular expressions. Its own logic, apart from
poppler (PDF), the regex libraries and libgcrypt (checksums), is a sequential
C++ program with a cache of rendered pages that several processes may share.
This directory holds TLA+ modules that model that logic, TLC configurations that
check them on small instances, and TLAPS proofs of theorems about them.
Paths such as `search.cc:218` refer to `src/src/`; the manual is
`src/doc/pdfgrep.asciidoc`.

## 1. Inventory

| component | state | operations | interacts with |
|---|---|---|---|
| page search (`search.cc:191-324`) | offset, match count, matches of the current line, last line printed | `search_page`, `handle_match`, `flush_line_matches` | calls the engine for each match and the output functions for each line; adds to the count of the document |
| output (`output.cc`) | none | `print_matches`, `print_only_match`, `print_context_before`, `_after`, `_between` | called per line; writes to stdout |
| engines (`regengine.cc`) | compiled patterns | `exec` of `PosixRegex`, `PCRERegex`, `FixedString`, `PatternList` | called by the page search with the page and an offset |
| document search (`search.cc:75-189`) | page number, total count, "document is empty" | `search_document` | renders pages through poppler, asks and fills the cache, calls the page search |
| cache object (`cache.cc:54-114`) | vector of pages, "valid" flag | constructor, `get_page`, `set_page`, `dump` | one per document and process; reads and rewrites the cache file |
| cache file | bytes of one file per checksum | read, truncate, write, mark complete, unlink | shared by all processes that search a PDF with this checksum |
| cache directory (`cache.cc:116-209`) | files with modification times | `find_cache_directory`, `limit_cachesize` | shared by all processes; unlinks cache files before a search begins |
| page ranges (`intervals.cc`) | list of intervals | parsing, `contains` | asked by the document search |
| file traversal (`pdfgrep.cc:276-412`, `788-850`) | next argument, open directories, error and match flags | file loop of `main`, `do_search_in_directory`, `do_search_in_document` | calls the document search per file; stat and readdir; exit status |
| include and exclude lists (`exclude.cc`) | list of globs | `is_excluded` | asked below directories |
| option parsing (`pdfgrep.cc:414-818`) | the options, patterns, colours, arguments left | `main` up to the file loop, `parse_int`, `read_pattern_file`, `read_colors_from_env` | produces the options all others read; calls `limit_cachesize` |

What makes each of them correct, and what is hard about it:

- **Page search and output.** The manual promises what grep prints: each
  matching line once, in order, with the context lines around it and `--`
  between groups that do not touch. The code works with offsets into one string:
  matches may be empty, lie on a newline or span several lines, the last line has
  no newline, the two context walks meet in the middle, and -m, -c, -p, -l, -L,
  -o and -q interact. The loop must end although matches may be empty.
- **Engines.** All of them are called with an offset again and again, which
  must neither invent matches (`^`) nor hide them.
- **Document search and cache object.** -m counts over pages; some pages fail to
  render, others come from the cache. A search must give the same answer whether
  pages are cached or not, whatever earlier runs did.
- **Cache file.** It is rewritten in place without locks. The first byte becomes
  `C` when everything else has been flushed. A process may die at any point, a
  write may fail, other processes may read, rewrite or unlink the file.
- **Traversal.** Files disappear between readdir, stat and open; links form
  cycles; errors at any depth must neither stop the search nor be forgotten.
- **Options.** Some thirty options write some twenty variables, several of them the
  same one. Numbers pass through `strtoul`, `long` and `int`, or through `stoi`, which
  throws. Lists of patterns may be empty. What is checked early may be overwritten later.
- **Cache directory.** `limit_cachesize` counts two variables down in one condition; files
  appear and disappear between the reading, the sorting and the unlinking.

`PROJECT.json` lists these as hazards with the line each of them bites at.

## 2. Modules

| module | models | instances | proofs |
|---|---|---|---|
| `Output` | the printing functions, on the line structure of a page | (used by `PageSearch`) | |
| `PageSearch` | `search_page` with an engine that may find any match | `MCPageSearch` | `PageSearchProofs` |
| `Regengine` | the four engines | (used by `PatternSearch`) | |
| `PatternSearch` | `PageSearch` with one of these engines | `MCPatternSearch` | `PatternSearchProofs` |
| `SearchDocument` | `search_document` and the cache object, over several runs | `MCSearchDocument` | `SearchDocumentProofs` |
| `AtomicCache` | what the cache file promises: an atomic register | (used by `CacheFile`) | `CacheFileProofs` |
| `CacheFile` | the cache file byte by byte, with several processes | `MCCacheFile` | `CacheFileProofs` |
| `Traversal` | file loop, directories, links, passwords, exit status | `MCTraversal` | `TraversalProofs` |
| `Numbers` | `parse_int`, `strtoul`, `stoi` and the conversions, at any width | (used by the next three) | |
| `OptionParsing` | `main` up to the file loop | (used by `Startup`) | `OptionParsingProofs` |
| `CacheLimit` | `limit_cachesize` in several processes | (used by `Startup`) | `StartupProofs` |
| `Startup` | composition: `main` calls `limit_cachesize` while other processes do the same | `MCStartup` | `StartupProofs` |
| `DataLemmas` | lemmas about data that several proofs use; models nothing | (used by the proofs of `SearchDocument`, `OptionParsing`, `CacheFile`, `Traversal` and `PageSearch`) | itself |

A definition marked `(mutant)` is a wrong variant of the definition behind it, the
kind of slip a change to the code could introduce. Nothing refers to it. Each
property of each run has been seen to fail with one of them in place.

### Output and PageSearch

A page text is `[size, newlines]`; nothing in the loop looks at other characters.
A text never ends in a newline because `search_document` cuts trailing whitespace
off. An output line is the list of the indices copied from the page, so "printed
twice", "left out" and "outside of the string" can all be told apart. `Substr`
keeps that `struct substr` iterates with `!=`: a negative or overlong range leaves
the string, which appears as the index `size`.

One iteration of the `while` loop is one action, chosen by the branch it takes:
`NoMatch` (the engine has no more), `MatchDecides` (-q, -l), `LastMatch` (-m is
used up) and `OneMatch` (all others, with the end of the page as its two
outcomes). `lines` holds the two vectors of the code and what has been printed.
`MatchKinds` says what the engine may find: matches inside a line, empty matches
at a newline, and matches over a newline.

`PrintsLikeGrep` has three parts: line output is `GrepOutput`, which is written from the
manual line by line, without offsets; with -o the output is the matched parts; in the
modes that suppress the normal output there is none.

### Regengine and PatternSearch

The libraries are external. A pattern is an alternation of words, perhaps with `^`:
enough to distinguish leftmost-longest (POSIX) from first alternative (PCRE) and
leftmost-first string (fixed), anchored from free, empty from non-empty, and one
pattern from several. `PatternSearch` replaces "any match" of `PageSearch` by the
`exec` of the engine; `ImplementsPageSearch` says that this is a restriction.

A page is a sequence of bytes in UTF-8 here. The calls of the libraries can fail, which
`exec` reports like no match (`GivesUp`): where a search uses up the limits of the library
(`exceeds`, any set of offsets of a pattern), and with PCRE at an offset inside a character, to
which the loop comes as it goes on one byte, not one character, behind an empty match.
`FirstPatternIsFound` therefore says what the code guarantees: a line of the first pattern
is found or lies behind an offset the engine was asked for and gave up at (`LostBehindError`).

### SearchDocument

Up to `MaxRuns` invocations of pdfgrep search the same PDF one after the other,
each with its own command line. A page is a text and whether poppler can render
it; a pattern is the number of matches it has in each text, and the value of
`search_page` (`page_count`) is that number cut at -m or at the first match. The
actions are the start of a run (cache constructor included), the three ways
through the body of the loop (page not in the range, page that fails, page that
is searched), and what follows the loop (`Finish`, with `dump`). `Evict` unlinks
the cache file at any time.

What a page prints is one item per kind of output (its lines, its count, the name). With -A
or -C a page may have lines behind its last match: these are printed even with -L
(`PageOutput`), so `SuppressedOutput` says that with -L there is the name of a file without
matches or else nothing but such context. A page that does not render is not cached, but
becomes an empty page of the cache when a page behind it is (`set_page`): from then on it is
searched in silence instead of reported. `FailuresReported` says in which runs a failure is
reported, and that this is the only way one is not.

### AtomicCache and CacheFile

`CacheFile` has one action per system call: open, read of a chunk, end of file,
open with truncation, write of a chunk, write of the indicator. Chunks have
any length from `BufSize` on; with `BufSize = 1` these are all short reads and writes.
Processes may stop at any point (`Stop`: killed, or a write failed, after which
the stream ignores everything including the `C`). Unlinking keeps the inode of
a process that has it open. `Load` is the constructor's parser: it follows
`std::getline` at the end of a file that was cut.

`IsAtomic` is the refinement: the register is what a new process would load, and a
process that is still reading already has what it will load. Saving is the
instant the `C` is written; opening for writing is a loss of the register.

The proofs need two assumptions of the module: texts and labels have no NUL in them
(the separator of the records), and the files of other versions that may lie in the directory
at first are not loaded. `cache_file_alone` evaluates both.

### Traversal

The tree is a constant: every name is in one directory and no directory below itself
(`ForestAssumption`; hard links to directories do not exist, and a name is not a file, so
hard links to files are covered). Links have targets, which may form cycles, directories may
be unreadable, nodes of `Removable` disappear at any time. These are no links to directories
(`PathsAssumption`, a bound): the program looks nodes up by the path it came along, and all
that it has reached through a link would disappear with it. `do_search_in_directory`
recurses; its frames are `stack`, each with the entries not yet read, in any order. The
chain of symbolic links on the way to a directory counts against the kernel's limit
(`MaxLinks`), the one thing that ends the recursion with -R on a cycle. `complaints`
remembers at which depth an error was reported. If no argument is left, -r and -R search the
working directory; without them nothing is searched (an empty file of patterns can bring
main there, see section 5).

### Numbers and OptionParsing

A situation is a command line, a terminal or none, and an environment. getopt is external:
it has moved the options to the front. One action per group of `case` labels takes the
option `next`; after the loop one action per stage of `main`: usage (`CheckUsage`), the
choice of patterns and engine (`MakeEngine`), GREP_COLORS pair by pair (`ReadPair`,
`ColorsDone`), what options mean for each other (`Settle`), and the set-up of the cache
(`NoCache`, `FindCache`, `CacheLimited`). `Fails` is exit(2), `Aborts` an exception that
nobody catches.

A number is what the parsers tell apart: whether there are digits, a sign, how large it
is, whether something follows. `IntMax` and `LongMax` are constants, `strtoul` wraps
around as it does.

The properties do not follow the loop but look at the command line as a whole: which options
stand in it, which is the last of those that contradict each other. `RejectsWhatIsWrong`
says exactly when a search begins and with which status the others end. What is wrong
(`NumberIsWrong`, `TokenIsWrong`, `ItemIsWrong`, `LineIsWrong`) is written after the manual
and the grammar `int | int '-' int` of `intervals.h:59-62`, not after the code. Where the
code reads an argument in another way (`ReadOtherwise`, `EmptyList`) the property does not
hold; it names these arguments, section 5 describes them, and for all others it has no
exceptions, uncaught C++ exceptions included. `OptionParsingProofs` has the conditions as
the code reads them (`ItemNotRead`, `Uncaught`) and proves that the two agree
(`DocumentedLine`). Further, `LaterOptionsWin` with which settings; `EveryArgumentCounts`
that no argument gets lost between patterns and files; `HandsOver` is what the other modules
assume of a command line.

### CacheLimit and Startup

`limit_cachesize` for any number of processes: one action for the call, for each `stat()` of
`agefilter`, for the sort, for each round of the loop (`Keep` or `Unlink`) and for the
return. A process that has returned searches and may write a cache file (`Dump`). `agesort`
looks at the times anew at every comparison and returns their difference as an int, so the
sort has any order as its outcome unless the times are steady (`TimesAreSteady`): no listed
file has disappeared, no other process is at work, and an int holds the differences (`Now <=
IntMax`). Below INT_MIN the counter is undefined: it may wrap around or stay below zero, and
properties are about processes that do not get there (`Finished`).

`Startup` composes the two: the `main` of one process with its call of
`limit_cachesize`, and other processes in the same directory. It is a refinement of
both modules by themselves.

## 3. Runs

All constants of a run are in its `.cfg`.

| run | question | bounds |
|---|---|---|
| `page_output` | Is the output what grep would print, in every mode? Is printing inside the page, does the offset move? | pages up to 5 characters with newlines anywhere (up to 5 lines, some empty); -A and -B up to 2 separately; -m up to 2; 0 or 1 earlier matches; all combinations of -q -l -L -c -p, and -o; all kinds of matches |
| `pattern_engines` | Do real engines fit the loop, do they find only matches and (for the first pattern, but for errors) all matching lines, does the loop end? | all pages up to 3 characters over a, b, newline and a character of two bytes; all engines with one or two of 5 words; regexes with which a search at offset 1 exceeds the library; lists of two patterns of one library |
| `pattern_list` | the same for all patterns of a list: violated | pages up to 3 characters |
| `document_fresh` | Is one search exact, does it read what is needed, what does it print? | one run without a cache; documents up to 3 pages, each of 3 texts (0 to 2 matches) or broken; 4 page ranges; -m up to 2, which is met inside a page, between two, or not at all; 4 patterns; all modes, -A with -L and -q |
| `document_cached` | Does every cached page have the text of the PDF, is nothing forgotten, is every failure reported that is not cached? | 3 runs over up to 3 pages, each of 3 texts or broken; with and without the cache, -m, -l, -L, ranges without a hole; unlinks at any time |
| `document_cached_range` | Is the count the same from a cache after a range that leaves a hole? violated | 2 runs, 2 pages |
| `cache_file_alone` | Is the file an atomic register for one process at a time? | 3 process starts, 3 pages with and without label and text, reads and writes of every length, old files of another version |
| `cache_file_two_writers` | the same with two processes: violated | 2 starts, 2 pages |
| `files` | Are the right files searched, once; what about -q, the status and the end? | a tree of 9 nodes with two links (one a cycle) and an unreadable directory; one of two nodes may disappear, a file or a link; files, links, directories, one file twice or nothing as arguments; -q with files, and with -r and -R |
| `startup` | Do exactly the right command lines lead to a search, with the options as written? Does the directory keep to its limit? | IntMax 3 and LongMax 7, numbers from -16 to 16 and texts that are none; up to 3 options that contradict each other, 2 of any; 5 files of patterns, GREP_COLORS with up to 4 items; two processes, up to 5 entries of ages 1 to 3, one of them hidden, one that cannot be unlinked; limits -3, 0, 1, 2 (the default) and 3, and 1 for the other process |
| `files_recursive_status` | Does the status tell of every error? violated | the same tree |
| `files_passwords` | Are all passwords tried? violated | a file with no, the first or the second of up to two passwords |

Why the bounds are enough: the page loop relates two neighbouring lines with matches, the
gap between them and the page's ends. Five characters allow two such lines with up to three
(empty) lines between and beyond them: with contexts up to 2 groups overlap, touch and
separate, and the walks of both sides meet at every place. Three pages allow a limit to be
reached in front of, on and behind a page, and a cached page on both sides of one that is
not; with two matches in a text and -m 2 or 1 the limit is met by the first or the second
match of a page or left over for the next page. Three runs let a cache be made, extended by
a shorter or a longer run, and used; a page that fails lies in front of a cached one, behind
it, or between two. Pages of three characters, one of which may have two bytes, let an empty
match stand in front of such a character with a line behind it. With -R one link may be
followed on a path: that is once round the cycle, which then ends at the limit of the kernel
(40 in reality) as any number of rounds does. With LongMax above IntMax there are numbers in
every range that the conversions treat differently: up to INT_MAX, above it, above UINT_MAX,
above LONG_MAX, above ULONG_MAX, and the same below zero. Two options show which one wins, a
third one that nothing in between or behind changes that. With two processes each of them
may find any file gone, new or old.

`CHECK_DEADLOCK FALSE` is used for `CacheFile` only: with `MaxStarts` used up
nothing remains to be done. The other modules stutter explicitly in their final
states.

**Fairness.** pdfgrep is sequential: as long as it is not killed, it executes its next
statement. That is weak fairness of the program's own step: `PatternNext` in `PatternSearch`
(there is nothing else; a match is not chosen but what the engine finds), `Loop` in
`SearchDocument` (a run that has started; nobody has to start another one), `Step` in
`Traversal`. Unlinking and disappearing files are not fair. Nothing is assumed of
`CacheFile`, whose processes may be killed, and of `Startup`, where other processes may stop
main's unlinking at any point; they have safety properties only.

## 4. Proofs

The proofs hold for all values of the constants that satisfy the ASSUMEs of the
modules: pages of any length and number, any options, engines, documents and
number of runs; any tree, command line, integer width, and number of processes and files in
the cache directory; any length of reads and writes.

An induction over data (the pages of a file, the options of a command line, the characters of a
text) is made with sets, as no backend instantiates a theorem over predicates: the
set of the numbers for which the claim holds contains 0 and is closed under +1 (`Induction` in
`DataLemmas`, from `NatLessThanWellFounded`). That a function defined by recursion exists is proved
once (`RecursionExists`); what `MapThenSumSet` and `FlattenSeq` give for one more element
(`TotalAdd`, `FlattenAppend`) follows from the recursions they are defined by.

- **PageSearch: `TypeCorrect`, `LimitHolds`.** `TypeOK` is inductive given that a
  match of the engine is a pair of numbers, and that flushing only moves matches
  (`FlushMoves`, `HandleCases`, `FinishMoves`). `MaxCountRespected` is inductive: a
  step that adds a match either keeps the total under the limit or leaves the
  loop.
- **`LoopAdvances`** is an action property: a step that stays in the loop is
  `OneMatch`, and `NextIndex` exceeds the old offset because a match never begins in
  front of it and is stepped over if it is empty.
- **`GroupsLieOnOneLine`.** As long as the engine has found no match over a newline
  (`NoneSpans`). A newline between the start of a group and the end of the match added to it
  would lie at or behind the end of the group's last match, so `Find` (by `FindIsFirst`, the
  least element of a set of naturals) returns it or one before it, and `SameLineAs` is
  false: the group would have been flushed. Together with `TypeOK` the invariant is
  inductive as it stands; flushing only moves a group from `current` to `last_line`.
- **`PrintsInsideThePage`**, for matches over newlines and empty ones on a newline too.
  `AllInside`: the matches in both vectors end inside the page and do not run backwards, and
  all that was printed are indices of the page. Each printing function keeps it
  (`MatchesInside`, `ContextBeforeInside`, `ContextAfterInside`, `ContextBetweenInside`):
  `find` and `rfind` return npos or a newline on their side (`FindType`, `RFindType`), so
  both ends of each substring are in order; in front of a match that is what `Gap` checks.
  The lines of context are recursive functions; each has an operator of its own for one more
  line (`BeforeOne`, `AfterOne`, `RightOne`, `LeftOne`).
- **`OnlyMatchesArePrinted`, `SummariesPrintNoLines`, `GrepLinesArePrinted`** are the three parts of
  `PrintsLikeGrep`. With -o, what is printed and what the current group would print are the matches
  found so far (`OnlySoFar`), provided that there is no context, as `Settle` sees to. With -q
  and -l no match gets into a group, with -c and -p nothing is printed per line; -L alone does print
  context (section 5), so the theorem is about -L without context or with one of the others.
- **`GrepLinesArePrinted`**, for every text, amount of context and sequence of matches
  inside lines, relates the offsets the code works with to the lines of the reference
  `GrepOutput`, in three layers.
  - *Offsets and lines.* The newlines number the lines, and `find` and `rfind` return the
    end of a line or of the one before it. The recursions that print context therefore print
    intervals of lines: `BeforeLines`, `AfterLines`, and for the two walks of
    `print_context_between` `RightLines` and `LeftLines`; `BetweenPrints` puts the walks
    together, with the separator between them or none. `MatchPrints`: what `print_matches`
    prints of a group joins to its whole line.
  - *The reference grows at its end.* `GrepUpTo(M, k)` is what grep prints up to line `k` if
    the lines in `M` match. Another matched line behind the last one changes nothing up to
    that one (`AroundMore`, `Prefix`); it adds the context between the two, or a separator,
    and itself (`NextLine`, and `FirstLine` and `LastLines` for the two ends of the page).
  - *The loop.* `LinesInv`: in the loop the current group is one matched line `c`, all other
    matched lines are in front of it, and what is printed is `GrepUpTo` of the matched lines
    up to the last line flushed (`Printing`); at the end it is all of `GrepUpTo`
    (`Printed`). It is inductive with `TypeOK`: a match is added to the group if it is on
    its line (`GroupGrows`), or else the group is flushed (`FlushPrints`, by `NextLine`),
    and `finish` prints what follows the last line (`FinishPrints`).
- **`PrintsAsGrepDoes`** puts the three parts together: `PrintsLikeGrep` whenever -o and -L
  alone come without context.
- **PatternSearch: `EnginesImplement`.** With all kinds of matches allowed,
  every execution with a real engine is one of `PageSearch`: what `exec` returns is
  behind the offset and inside the page (`ExecBehind`, from the lemmas on the
  choice of a word). `LimitHoldsWithEngines` then follows by refinement alone.
- **`OnlyOccurrencesFound`, `FirstPatternFound`**, for every page, with characters of any
  number of bytes, every list of patterns and every set of offsets at which the libraries
  fail. What each engine's `exec` returns is an occurrence of a word of a pattern, and,
  unless the library gives up, the first one at or behind the offset of the first pattern.
  The second theorem needs an invariant of the loop, `NoneOverlooked`: an occurrence of the
  first pattern in front of the offset lies on a line that has a match already, or behind an
  offset at which the library gave up. It is kept because what a step passes by lies between
  the start of the match and its end, or one byte behind an empty one (`SteppedOver`).
  For the other patterns of a list it is false (`pattern_list`). `NothingLostWithoutErrors`
  follows: where no call fails no line of the first pattern is lost.
- **SearchDocument: `TypeCorrect`, `LimitHolds`.** They need each other: the rest of
  the limit is subtracted from a natural number, so the type of the count depends on
  the limit. The invariant is their conjunction.
- **`SuppressionHolds`**: -q, -l and -L, for all combinations of options, context included.
  The invariant `Suppressed` speaks of the items printed: with -L nothing is printed in the
  loop as long as there is no match, so the name and context lines exclude each other.
- **`CacheStaysFaithful`.** Assumes that no page range leaves out a page in front of one it
  contains (`document_cached_range` shows that this is needed); pages may fail to render.
  The strengthening `NoHole`: in the loop the cache has every page in front of `pagenum` up
  to those at its end that do not render, unless `pagenum` is behind the range already; so
  what `set_page` fills up is pages without a text.
- **`PageCountsHold`**, for every document and cache, even a wrong one: the pages whose counts
  have been printed are in front of `pagenum`, in order and positive, and their sum is the total
  (`Tallied`).
- **`CountIsRight`, `NameIsRight`, `FailuresAreReported`, `EmptinessIsWarned`,
  `ReadsNoMoreNoLess`** compare a whole run with the document, wherever its texts come from.
  The hypothesis of the first four is `NoHoleInCache`: no range leaves a hole, and either
  every page renders or no pattern matches the empty text, as a page that failed is an empty
  page in the cache; or there is no earlier run or none uses the cache. Without it a page
  may be empty in the cache that is not empty in the PDF (`document_cached_range`), or a
  failed page may have a match. `ReadsNoMoreNoLess` needs that every page renders (or no
  earlier run), as a failed page is read once it is cached. That such a page is cached only
  in front of one that rendered is `RoomForALaterPage`. The invariant has one part per
  variable of the history: the total is the sum over the pages passed, cut at -m
  (`Progress`); the pages read are those of the range among them (`ReadSoFar`); the errors
  are for those that do not render (`Reported`); `document_empty` tells if one of them had
  text (`Blank`); the name is printed when the answer is known and not before (`Named`). At
  the end "passed" becomes "in the document", or "up to the page that decided", which is
  what the properties say.
- **`CacheOnlyGrows`**, without these assumptions: what is in the file when it is
  rewritten is still a prefix of what is in memory, as runs follow one another.
- **Traversal: `TraversalTypeCorrect`.** Entries of an open directory are nodes, and no way
  to it has more links than the kernel allows: `stat()` ends at a node that exists
  (`StatType`) and there is only one (`StatUnique`). Unless -q ends the
  program inside, all directories are closed at the end.
- **`QuietStops`, `StatusTellsOfArguments`.** `Tally` relates the two flags of `main` to the
  history: `found_something` is true if and only if a match is among the searches, `error`
  if and only if an argument itself failed; with -q a match means that the program has ended
  with 0. It is inductive with the types; one lemma (`SearchCounts`) treats
  `do_search_in_document` for its two callers.
- **`EveryFileOnce`.** `WalksOnce` says that what has been searched (`Once`: no node twice)
  and what the open frames still hold do not meet: `Covers(D)`, for some set `D` that has
  the searched nodes in it and, with any node, the directory the node is in, the first open
  one excepted; each frame holds entries of its own directory outside of `D`, and each
  directory but the first is an entry of the one before. An entry that is read goes into
  `D`. It cannot be one that comes up again, as a name is in one directory only and no
  directory below itself (`ForestAssumption`).
- **`NothingElseIsSearched`, `RightFilesAreSearched`.** `DirsUnder`, which the property
  defines by counting up to the number of nodes, is the least set that has the given
  directories and those in its members (`DirsUnderIsLeast`; a set that grows at each of so
  many steps has more members than there are nodes). The upper bound needs that it is
  closed: `NothingElse`, every open directory is in it. The lower bound needs that it is the
  least: `NothingLost`, there is a set `E` of opened directories of whose entries each has
  disappeared, is still held by a frame or was dealt with; when nothing is held any more `E`
  is closed, so it contains all the directories there are. The lower bound is for runs
  without -R. With -R the kernel's bound on links (`MaxLinks`) is met on a cycle, and which
  directories are out of reach then depends on the way that led to them.
- **OptionParsing: `HandsOverWorkingOptions`.** `ParsingInv`: types, natural numbers and
  positive page ranges at any time (`InRange`), an engine with patterns once it is made
  (`EngineMade`), and what `Settle` has reconciled stays so (`Settled`). One lemma per
  action; `AcceptedType` is about the comparison before the conversion to int.
- **`RejectsIfAndOnlyIfWrong`, `LastOneWins`, `NothingIsLost`**, for any sequence of options
  (the first one for those that the code reads as documented: `DocumentedLine`, by
  `DocumentedNumber` for each number). The invariants say of the options read so far what
  the properties say of all: `Known`, that each variable is as the last of the options read
  that write it says (`Taken` is what one more option does to each of them);
  `SettledAsSaid`, what becomes of them behind the loop; `ColorsKnown`, the same for the
  pairs of GREP_COLORS read; `ArgumentsCount`, that the engine gets what `-e` and `-f` gave
  or else the first argument, and the rest are files; `Judged`, that no option read so far
  ends the program, and that main ends at the stage and with the status that the first one
  says.
- **CacheLimit: `LimitIsKept`, `YoungFilesStay`.** `LoopCounts`: `entries` is the limit less
  the rounds so far, and what was unlinked is the part of the list already passed behind the
  entries to skip. `KeptAreNotListed`: a file that was hidden or young is on no list and still
  there. `RemovedAreGone`: a file that was unlinked is gone or young (rewritten), and every file
  taken is on the list. Then at most the last entries of the list are left, and their
  number is the limit (`ImageOfInterval`). Unlinking by others and new files only make
  the remaining set smaller.
- **`KeepsTheOldest`**: the list is sorted by age if no other process disturbs the sort and
  the times are such that an int holds their differences (the hypothesis `Now <= IntMax`),
  and what a process unlinks is a prefix of it, so whatever it kept of the list is at least
  as old.
- **Startup: `StartupParses`, `StartupLimits`** are refinements: every step of the
  composition is a step or a stutter of each part; the second needs `ParsingInv`, since the
  limit has to be an int. The promises of both parts follow (`StartupKeepsItsPromises`).
  **`LimitReachesTheDirectory`** needs more than either part: that the limit passed on is
  the one in the environment (`Passed`) and that the sorted list has every file once
  (`Sorted`). It assumes that the directory has at most INT_MAX entries, as `Finished` does.
- **CacheFile: `TypeCorrect`**, for any number of processes that read, write, unlink and die.
- **`MarkedFilesAreComplete`, `FileIsAtomic`**, for processes that follow one another
  (`OneProcess`; with two both are false, `cache_file_two_writers`) and for every PDF, every
  length of reads and writes, every point at which a process is killed or a write fails. The
  inductive invariant `FileInv` describes each inode: `AllSound`, that it is loaded as a
  valid cache only if it is `FileOf(Indicator, pages)` for first pages of the PDF;
  `Rendered`, that pages in memory are pages of the PDF; `ReadSoFar`, that what a process
  has read is the beginning of the file up to its offset; `WrittenSoFar`, that the file
  being written is the beginning of `FileOf(NUL, pages)`, all of it when the indicator is to
  be written. It needs a statement about the parser: `DumpLoads`, that loading what `dump`
  writes gives the pages that were dumped. That is an induction over the pages
  (`DumpParses`, with `OneFieldMore` for each of the two fields of a page), on the fact that
  the k-th NUL of the file ends the k-th field (`EndIs`, `EveryFieldEnds`). A file whose
  first byte is not yet `C` is not loaded, however much of it is there
  (`WritingIsUnmarked`). `StepsAreAtomic` then shows for each action that it saves, loses or
  loads the register, or leaves it alone.
- **`ReadersSeeRenderedPages`**: whoever uses an atomic register only ever sees
  the first pages of the PDF as they were rendered, several processes at once included. With
  `FileIsAtomic` this is what pdfgrep needs of its cache files.

What stays with TLC: liveness (`Terminates`, `RunReturns`), which tlapm cannot treat, and that with
-R nothing is left out, for which `files` searches a tree with a cycle.

## 5. Where the code differs from what is said of it

Shown by runs:

1. `pattern_list`: `PatternList::exec` (`regengine.cc:42`) returns the first
   *pattern* that matches, not the first *match*; with `-e a -e b` the page `b`
   newline `a` loses the line `b`. `regengine.h:48` and NEWS promise the union.
2. `document_cached_range`: `set_page` (`cache.cc:80`) fills skipped pages with empty
   ones. `--cache --page-range 2` makes page 1 empty for later searches.
3. `cache_file_two_writers`: two processes that rewrite a cache file at once can leave
   a broken file that is marked complete (`cache.cc:96-113`).
4. `files_recursive_status`: errors below a directory are dropped
   (`pdfgrep.cc:404`, `406`, `840`); the manual wants exit status 2.
5. `files_passwords`: only the last password counts (`pdfgrep.cc:337`); the manual
   says all are tried.

Met while modelling. The passing runs have these cases too, and their properties say what
happens in them:

- With -P an empty match in front of a character of several bytes ends the search of the
  page: the loop goes on one byte behind it (`search.cc:241`), pcre2_match reports the error
  PCRE2_ERROR_BADUTFOFFSET, and `exec` takes every error for no match (`regengine.cc:147`).
  `-P 'a*'` finds nothing behind the first umlaut, and says nothing. The same goes for a
  search that exceeds the library's limits (`FirstPatternIsFound`).
- -L with -A or -C prints the context behind the last match of a page (`search.cc:252-256`),
  although the manual has it suppress the normal output (`SuppressedOutput`; `page_output`
  has no context with -L alone).
- A page that failed to render is silently an empty page once it is cached, so that later
  runs do not report it; a pattern that matches the empty text then has a match on it
  (`cache.cc:80`, `FailuresReported`).

Excluded from the passing runs, by their options or by a condition of the property:

- -o with -A0 prints `--` (`pdfgrep.cc:780-786` resets the context mode only for a
  context greater than 0; the manual says context has no effect with -o).
- A match over a newline is handed to `print_matches` although `output.h:47-48`
  forbids it (`PrintsLikeGrep` speaks of line output only for matches inside lines).
- An empty match on a newline prints an empty line that is not on the page
  (`output.cc:151`).
- `--warn-empty` with a page range warns about a document with text on other pages
  (`search.cc:179`; `WarnsIfNoTextWasSeen` is therefore about the pages searched).
- A process that reads a cache file while another one rewrites it may load pages
  that were cut (`cache.cc:62-75`).
- An empty file for -f leaves no pattern although patterns were specified: the first
  argument becomes the pattern (`pdfgrep.cc:745`), while the manual says "An empty pattern list
  matches nothing" (`pdfgrep.asciidoc:51`). With -r and no argument the string is made
  of a null pointer (`Aborts`).
- A number in `--page-range` that does not fit an int ends in an exception nobody catches,
  where the manual promises status 2 for an error; what follows the digits of a number is
  ignored ("1x-3"), unlike in the grammar of `intervals.h` (`intervals.cc:62`).
  `ReadOtherwise` names both.
- -A, -B and -C take an empty argument for 0, and numbers far below zero come round to
  positive ones in `strtoul` and are accepted, also by -m (`pdfgrep.cc:419`).
  `ReadOtherwise` names these; `ReadAs` says which number it becomes.
- Behind an empty item in GREP_COLORS ("mt=1::fn=2:se=3") all but one pair are lost: the
  index is advanced by the length of the token, not past the delimiters `strtok` skipped
  (`pdfgrep.cc:186-189`). `ColorsLikeGrep` is about lists without empty items; bound: no two
  of them in a row.
- `PDFGREP_CACHE_LIMIT` from 2^31 to 2^32-1 becomes a negative int and counts as 0, larger
  ones wrap around, and a text that is no number empties the cache (`pdfgrep.cc:815`).
- `limit_cachesize` sorts the newest entries to the front and unlinks from there: the
  oldest are kept (`OldestAreKept`, `cache.cc:161`). The manual does not say which ones.
- An old entry that another process has just rewritten may be unlinked: the age is that
  of the listing (`cache.cc:167`). No document is lost by this, its cache is.

## 6. Not modelled

- The cache file between the death of the operating system and its restart:
  what is not synced may be lost in any order. The model ends at `write(2)`.
- Compilation of patterns, case folding, libunac, poppler's text extraction: external,
  they only produce the matches and texts that are arbitrary here.
- Escape sequences, the prefixes of lines (file name, page number), help and version:
  formatting. Which colours are set is modelled.
- getopt: abbreviated options, the order of options and arguments. The model begins with
  what `getopt_long` returns.
- Builds without PCRE or libunac, in which two options fail.
- The checksum: that equal checksums mean equal files is taken for granted.
- The page text with NUL characters, which break the records of the cache file.

## 7. Plan

The order followed the weight of the behaviour: page search, cache, traversal, then what
surrounds them: options, the cache directory, and the composition of the two. What
is left, in the order of its weight:

1. `DocumentFiles`, a composition of `Traversal`'s document step with `SearchDocument`: the
   checksum is computed from one opening of the file and the document is loaded by
   another (`pdfgrep.cc:315-342`); a file replaced in between is cached under the wrong name.
2. Page texts with NUL characters.
