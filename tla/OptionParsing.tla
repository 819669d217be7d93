---------------------------- MODULE OptionParsing -----------------------------
(***************************************************************************)
(* main() of src/pdfgrep.cc up to its file loop: the options one after the *)
(* other, the choice of the patterns and of the engine, what options mean  *)
(* for each other, the colours, and the set-up of the cache.               *)
(*                                                                         *)
(* getopt_long() is external: it has moved the options in front of the     *)
(* other arguments, resolved long names, and yields "?" for what it does   *)
(* not know.  The build has PCRE and libunac.                              *)
(***************************************************************************)
EXTENDS Numbers, Sequences, SequencesExt, FiniteSetsExt

CONSTANTS
  Situations,   \* how pdfgrep is started: [options, args, tty, colors, env]
  Directories,  \* the arguments that are directories
  PatternFiles, \* the files for -f: functions to [opens, bad, lines]
  Malformed,    \* strings that are not regular expressions
  DefaultLimit  \* of cache entries: 200

\* Strings, those that main() contains itself named for the provers.
Strings ==
  STRING \cup {"", ":", "*.[Pp][Dd][Ff]", "35", "32", "01;31", "36",
              "$XDG_CACHE_HOME/pdfgrep/", "$HOME/.cache/pdfgrep/", "~/.cache/pdfgrep/"}

\* The argument of an option as a word, as a number and as a list of tokens
\* between commas, each of them one number, or two, in front of the first minus
\* and behind it: "-2" is a range that begins with the empty string.
TokenType ==
  {t \in [range: BOOLEAN, from: NumberText, to: NumberText] : ~t.from.negative}
OptionNames ==
  {"help", "V", "?", "i", "c", "n", "q", "o", "Z", "debug", "unac", "cache",
   "warn_empty", "p", "page_number", "page_number_type", "r", "R", "l", "L", "h", "H",
   "color", "exclude", "include", "password", "prefix_sep", "P", "F", "m", "A", "B", "C", "page_range",
   "e", "f"}
ItemType ==
  [opt: OptionNames, word: Strings, number: NumberText, tokens: Seq(TokenType)]
\* A pair "name=value" of GREP_COLORS, or nothing between two colons.
ColorType == [empty: BOOLEAN, name: Strings, value: Strings]
\* What the set-up of the cache meets: the two variables, the entry in the
\* password file, the results of the two mkdir(), and PDFGREP_CACHE_LIMIT.
EnvType ==
  [xdg: BOOLEAN, home: BOOLEAN, passwd: BOOLEAN,
   mkdir: [1..2 -> {"made", "exists", "fails"}], limited: BOOLEAN, limit: NumberText]

ASSUME SituationsAssumption ==
  \A s \in Situations :
    /\ s.options \in Seq(ItemType) /\ s.args \in Seq(Strings) /\ s.tty \in BOOLEAN
    /\ s.colors \in Seq(ColorType) /\ s.env \in EnvType
    /\ \A i \in DOMAIN s.options :
         s.options[i].opt = "f" => s.options[i].word \in DOMAIN PatternFiles
    \* bound: no two empty items of GREP_COLORS in a row
    /\ \A i \in 2..Len(s.colors) : ~(s.colors[i - 1].empty /\ s.colors[i].empty)
ASSUME LimitAssumption == DefaultLimit \in 0..IntMax
ASSUME FilesAssumption ==
  \A f \in DOMAIN PatternFiles :
    /\ PatternFiles[f].opens \in BOOLEAN /\ PatternFiles[f].bad \in BOOLEAN
    /\ PatternFiles[f].lines \in Seq(Strings)

VARIABLES
  start,                    \* the situation
  next,                     \* the next option, then the next pair of GREP_COLORS
  options, colors,
  patterns, patterns_specified, re_engine, use_colors, explicit_filename_option,
  args,                     \* argv from optind on
  re,                       \* the engine: [engine, patterns, ignore_case]
  cache_directory, limit,   \* of the cache, once it is set up
  pc,                       \* where main() is; "exited" and "aborted" are ends
  status

vars == <<start, next, options, colors, patterns, patterns_specified, re_engine,
          use_colors, explicit_filename_option, args, re, cache_directory, limit,
          pc, status>>

-----------------------------------------------------------------------------
DefaultOptions ==
  [ignore_case |-> FALSE, recursive |-> "NONE", count |-> FALSE, pagecount |-> FALSE,
   quiet |-> FALSE, passwords |-> <<>>, max_count |-> 0, debug |-> FALSE,
   warn_empty |-> FALSE, use_unac |-> FALSE, excludes |-> <<>>, includes |-> <<>>,
   use_cache |-> FALSE, page_range |-> <<>>, only_filenames |-> "NOPE",
   filename |-> FALSE, pagenum |-> FALSE, pagenum_type |-> "INDEX", color |-> FALSE,
   only_matching |-> FALSE, null_byte_sep |-> FALSE, prefix_sep |-> ":",
   context_mode |-> FALSE, context_before |-> 0, context_after |-> 0]
DefaultColors ==
  [filename |-> "35", pagenum |-> "32", highlight |-> "01;31", separator |-> "36"]

Init ==
  /\ start \in Situations
  /\ next = 1 /\ options = DefaultOptions /\ colors = DefaultColors
  /\ patterns = <<>> /\ patterns_specified = FALSE
  /\ re_engine = {} /\ use_colors = "auto" /\ explicit_filename_option = FALSE
  /\ args = start.args
  /\ re = [engine |-> "POSIX", patterns |-> <<>>, ignore_case |-> FALSE]
  /\ cache_directory = "" /\ limit = 0
  /\ pc = "options" /\ status = 0

\* exit(), and an exception nobody catches.
Leaves(how, code) ==
  /\ pc' = how /\ status' = code
  /\ UNCHANGED <<start, next, options, colors, patterns, patterns_specified, re_engine,
                 use_colors, explicit_filename_option, args, re, cache_directory, limit>>
Fails == Leaves("exited", 2)
Aborts == Leaves("aborted", 0)

-----------------------------------------------------------------------------
\* The option loop.
Item == start.options[next]
AtOption(names) ==
  pc = "options" /\ next <= Len(start.options) /\ Item.opt \in names

\* What all options but a few leave alone.
Took ==
  /\ next' = next + 1
  /\ UNCHANGED <<start, colors, args, re, cache_directory, limit, pc, status>>
Others == <<patterns, patterns_specified, re_engine, use_colors, explicit_filename_option>>

HelpOrVersion == AtOption({"help", "V"}) /\ Leaves("exited", 0)

\* getopt has printed a message.
Unknown == AtOption({"?"}) /\ Fails

FlagOf ==
  [i |-> "ignore_case", c |-> "count", n |-> "pagenum", q |-> "quiet",
   o |-> "only_matching", Z |-> "null_byte_sep", debug |-> "debug",
   unac |-> "use_unac", cache |-> "use_cache", warn_empty |-> "warn_empty"]
Flag ==
  /\ AtOption(DOMAIN FlagOf)
  /\ options' = [options EXCEPT ![FlagOf[Item.opt]] = TRUE]
  /\ Took /\ UNCHANGED Others

PageCount ==
  /\ AtOption({"p"})
  /\ options' = [options EXCEPT !.pagecount = TRUE, !.pagenum = TRUE]
  /\ Took /\ UNCHANGED Others

\* --page-number, and --page-number= with an argument, which may be empty.
PageNumber ==
  LET type == IF Item.opt = "page_number" THEN "index" ELSE Item.word
  IN  /\ AtOption({"page_number", "page_number_type"})
      /\ \/ type \notin {"index", "label"} /\ Fails
         \/ /\ type \in {"index", "label"}
            /\ options' = [options EXCEPT
                 !.pagenum = TRUE,
                 !.pagenum_type = IF type = "label" THEN "LABEL" ELSE "INDEX"]
            /\ Took /\ UNCHANGED Others

\* (mutant) -R does not come back from -r.
RecursionOnce ==
  options' = [options EXCEPT !.recursive =
                IF Item.opt = "r" THEN "DONT_FOLLOW_SYMLINKS"
                ELSE IF @ = "NONE" THEN "FOLLOW_SYMLINKS" ELSE @]
SetRecursion ==
  options' = [options EXCEPT !.recursive =
                IF Item.opt = "r" THEN "DONT_FOLLOW_SYMLINKS" ELSE "FOLLOW_SYMLINKS"]
Recursive == AtOption({"r", "R"}) /\ SetRecursion /\ Took /\ UNCHANGED Others

OnlyFilenames ==
  /\ AtOption({"l", "L"})
  /\ options' = [options EXCEPT !.only_filenames =
                   IF Item.opt = "l" THEN "WITH_MATCHES" ELSE "WITHOUT_MATCH"]
  /\ Took /\ UNCHANGED Others

Filename ==
  /\ AtOption({"h", "H"})
  /\ options' = [options EXCEPT !.filename = (Item.opt = "H")]
  /\ explicit_filename_option' = TRUE
  /\ Took /\ UNCHANGED <<patterns, patterns_specified, re_engine, use_colors>>

Color ==
  /\ AtOption({"color"})
  /\ \/ Item.word \notin {"always", "never", "auto"} /\ Fails
     \/ /\ Item.word \in {"always", "never", "auto"}
        /\ use_colors' = Item.word
        /\ Took /\ UNCHANGED <<options, patterns, patterns_specified, re_engine,
                               explicit_filename_option>>

\* Lists of strings; exclude_add() adds in front.
Listed ==
  /\ AtOption({"exclude", "include", "password", "prefix_sep"})
  /\ options' = CASE Item.opt = "exclude"  -> [options EXCEPT !.excludes = <<Item.word>> \o @]
                  [] Item.opt = "include"  -> [options EXCEPT !.includes = <<Item.word>> \o @]
                  [] Item.opt = "password" -> [options EXCEPT !.passwords = Append(@, Item.word)]
                  [] OTHER                 -> [options EXCEPT !.prefix_sep = Item.word]
  /\ Took /\ UNCHANGED Others

Engine ==
  /\ AtOption({"P", "F"})
  /\ re_engine' = re_engine \cup {IF Item.opt = "P" THEN "PCRE" ELSE "FIXED"}
  /\ Took /\ UNCHANGED <<options, patterns, patterns_specified, use_colors,
                         explicit_filename_option>>

\* The least argument of -m, and of -A, -B and -C.
Least(opt) == IF opt = "m" THEN 1 ELSE 0
Accepted == {v \in parse_int(Item.number) : v >= Least(Item.opt)}

WithNumber(opt, v) ==
  CASE opt = "m" -> [options EXCEPT !.max_count = v]
    [] opt = "A" -> [options EXCEPT !.context_after = v, !.context_mode = TRUE]
    [] opt = "B" -> [options EXCEPT !.context_before = v, !.context_mode = TRUE]
    [] OTHER     -> [options EXCEPT !.context_after = v, !.context_before = v,
                                    !.context_mode = TRUE]
Number ==
  /\ AtOption({"m", "A", "B", "C"})
  /\ \/ Accepted = {} /\ Fails
     \/ \E v \in Accepted :
          options' = WithNumber(Item.opt, v) /\ Took /\ UNCHANGED Others

\* parse_interval(): an exception of stoi() other than invalid_argument is not caught.
Outcome(token) ==
  LET from == Stoi(token.from)
      to == IF token.range THEN Stoi(token.to) ELSE from
  IN  IF from.outcome # "number" THEN from.outcome
      ELSE IF to.outcome # "number" THEN to.outcome
      ELSE IF from.value <= 0 \/ to.value <= 0 THEN "not positive"
      ELSE "interval"
IntervalOf(token) ==
  [from |-> Stoi(token.from).value,
   to   |-> IF token.range THEN Stoi(token.to).value ELSE Stoi(token.from).value]
FromString(tokens) == [i \in DOMAIN tokens |-> IntervalOf(tokens[i])]
\* The first token that is no interval ends the program.
PageRange ==
  /\ AtOption({"page_range"})
  /\ LET bad == {i \in DOMAIN Item.tokens : Outcome(Item.tokens[i]) # "interval"}
     IN  \/ /\ bad # {}
            /\ IF Outcome(Item.tokens[Min(bad)]) = "out_of_range" THEN Aborts ELSE Fails
         \/ /\ bad = {}
            /\ options' = [options EXCEPT !.page_range = FromString(Item.tokens)]
            /\ Took /\ UNCHANGED Others

\* -e, and read_pattern_file() for -f.
Regexp ==
  /\ AtOption({"e"})
  /\ patterns' = Append(patterns, Item.word) /\ patterns_specified' = TRUE
  /\ Took /\ UNCHANGED <<options, re_engine, use_colors, explicit_filename_option>>
PatternFile ==
  /\ AtOption({"f"})
  /\ LET file == PatternFiles[Item.word]
     IN  \/ (~file.opens \/ file.bad) /\ Fails
         \/ /\ file.opens /\ ~file.bad
            /\ patterns' = patterns \o file.lines /\ patterns_specified' = TRUE
            /\ Took /\ UNCHANGED <<options, re_engine, use_colors, explicit_filename_option>>

OptionStep ==
  \/ HelpOrVersion \/ Unknown \/ Flag \/ PageCount \/ PageNumber \/ Recursive
  \/ OnlyFilenames \/ Filename \/ Color \/ Listed \/ Engine \/ Number
  \/ PageRange \/ Regexp \/ PatternFile

-----------------------------------------------------------------------------
\* Behind the loop: the arguments that are left, the engine and its patterns.
Required ==
  (IF patterns_specified THEN 0 ELSE 1) + (IF options.recursive = "NONE" THEN 1 ELSE 0)
EnginesClash == re_engine = {"PCRE", "FIXED"}

\* The common way out of a stage; each stage assigns what it changes.
Stage(from, to) ==
  /\ pc = from /\ pc' = to
  /\ UNCHANGED <<start, patterns, patterns_specified, re_engine, use_colors,
                 explicit_filename_option, status>>

CheckUsage ==
  /\ pc = "options" /\ next > Len(start.options)
  /\ \/ (Len(args) < Required \/ EnginesClash) /\ Fails
     \/ /\ Len(args) >= Required /\ ~EnginesClash
        /\ Stage("options", "patterns")
        /\ UNCHANGED <<next, options, colors, args, re, cache_directory, limit>>

TakesArgument == patterns = <<>>
\* (mutant) the pattern stays among the files.
ArgumentsKept == args
ArgumentsLeft == IF TakesArgument THEN Tail(args) ELSE args
EngineName ==
  IF re_engine = {"PCRE"} THEN "PCRE" ELSE IF re_engine = {"FIXED"} THEN "FIXED" ELSE "POSIX"
\* The constructors of the engines exit if the pattern cannot be compiled.  The
\* null pointer behind argv does not make a string.
MakeEngine ==
  LET chosen == IF TakesArgument THEN <<Head(args)>> ELSE patterns
      broken == EngineName # "FIXED" /\ Range(chosen) \cap Malformed # {}
  IN  /\ pc = "patterns"
      /\ \/ TakesArgument /\ args = <<>> /\ Aborts
         \/ /\ ~(TakesArgument /\ args = <<>>)
            /\ \/ broken /\ Fails
               \/ /\ ~broken
                  /\ re' = [engine |-> EngineName, patterns |-> chosen,
                           ignore_case |-> options.ignore_case]
                  /\ args' = ArgumentsLeft
                  /\ next' = 1
                  /\ Stage("patterns", "colors")
                  /\ UNCHANGED <<options, colors, cache_directory, limit>>

-----------------------------------------------------------------------------
\* read_colors_from_env().
ColorNames == {"mt", "ms", "mc", "fn", "ln", "se"}
ColorOf ==
  [mt |-> "highlight", ms |-> "highlight", mc |-> "highlight",
   fn |-> "filename", ln |-> "pagenum", se |-> "separator"]
Colored == use_colors = "always" \/ (use_colors = "auto" /\ start.tty)
Pairs == start.colors
MorePairs == Colored /\ \E j \in next..Len(Pairs) : ~Pairs[j].empty

\* strtok() passes over empty items, but the index into the string is advanced
\* by the length of the token only: it then points to the end of that token, and
\* the next call finds nothing.
NextPair(j) == IF j = next THEN j + 1 ELSE Len(Pairs) + 1
ReadPair ==
  /\ pc = "colors" /\ MorePairs
  /\ LET j == Min({j \in next..Len(Pairs) : ~Pairs[j].empty})
     IN  /\ colors' = IF Pairs[j].name \in ColorNames
                      THEN [colors EXCEPT ![ColorOf[Pairs[j].name]] = Pairs[j].value]
                      ELSE colors
         /\ next' = NextPair(j)
  /\ UNCHANGED <<start, options, patterns, patterns_specified, re_engine, use_colors,
                 explicit_filename_option, args, re, cache_directory, limit, pc, status>>

ColorsDone ==
  /\ ~MorePairs
  /\ options' = [options EXCEPT !.color = Colored]
  /\ Stage("colors", "settings")
  /\ UNCHANGED <<next, colors, args, re, cache_directory, limit>>

OneFile == Len(args) = 1 /\ Head(args) \notin Directories
\* (mutant) -o forgets about the lines behind a match.
ContextBeforeIgnored == options.only_matching /\ options.context_before > 0
ContextIgnored ==
  options.only_matching /\ (options.context_before > 0 \/ options.context_after > 0)

\* What options mean for each other, and the defaults.
Settle ==
  /\ options' = [options EXCEPT
       !.filename = IF explicit_filename_option THEN @ ELSE ~OneFile,
       !.context_mode = @ /\ ~ContextIgnored,
       !.pagenum = @ /\ ~options.count,
       !.includes = IF @ = <<>> THEN <<"*.[Pp][Dd][Ff]">> ELSE @,
       !.passwords = IF @ = <<>> THEN <<"">> ELSE @]
  /\ Stage("settings", "cache")
  /\ UNCHANGED <<next, colors, args, re, cache_directory, limit>>

-----------------------------------------------------------------------------
\* find_cache_directory(): the directory, or none.  The second mkdir() is not
\* reached if the first one fails, but what the first one made stays.
find_cache_directory(env) ==
  {d \in {IF env.xdg THEN "$XDG_CACHE_HOME/pdfgrep/"
          ELSE IF env.home THEN "$HOME/.cache/pdfgrep/" ELSE "~/.cache/pdfgrep/"} :
     (env.xdg \/ env.home \/ env.passwd) /\ \A i \in 1..2 : env.mkdir[i] # "fails"}

NoCache ==
  /\ ~options.use_cache \/ find_cache_directory(start.env) = {}
  /\ options' = [options EXCEPT !.use_cache = FALSE]
  /\ Stage("cache", "files")
  /\ UNCHANGED <<next, colors, args, re, cache_directory, limit>>

\* (mutant) a limit of 0 counts as none given.
LimitUnlessZero(env) ==
  IF env.limited /\ LimitOf(env.limit) # 0 THEN LimitOf(env.limit) ELSE DefaultLimit
CacheLimitOf(env) == IF env.limited THEN LimitOf(env.limit) ELSE DefaultLimit

FindCache ==
  /\ options.use_cache
  /\ cache_directory' \in find_cache_directory(start.env)
  /\ limit' = CacheLimitOf(start.env)
  /\ Stage("cache", "limit")
  /\ UNCHANGED <<next, options, colors, args, re>>

\* limit_cachesize() returns.
CacheLimited ==
  /\ Stage("limit", "files")
  /\ UNCHANGED <<next, options, colors, args, re, cache_directory, limit>>

\* Then the file loop begins (see Traversal), or the program is over.
Over == pc \in {"files", "exited", "aborted"} /\ UNCHANGED vars

Step == \/ OptionStep \/ CheckUsage \/ MakeEngine \/ ReadPair \/ ColorsDone \/ Settle
        \/ NoCache \/ FindCache \/ CacheLimited
Next == Step \/ Over

Spec == Init /\ [][Next]_vars

-----------------------------------------------------------------------------
Interval == [from: IntMin..IntMax, to: IntMin..IntMax]
OptionsType ==
  [ignore_case: BOOLEAN, recursive: {"NONE", "DONT_FOLLOW_SYMLINKS", "FOLLOW_SYMLINKS"},
   count: BOOLEAN, pagecount: BOOLEAN, quiet: BOOLEAN, passwords: Seq(Strings),
   max_count: IntMin..IntMax, debug: BOOLEAN, warn_empty: BOOLEAN, use_unac: BOOLEAN,
   excludes: Seq(Strings), includes: Seq(Strings), use_cache: BOOLEAN,
   page_range: Seq(Interval), only_filenames: {"NOPE", "WITH_MATCHES", "WITHOUT_MATCH"},
   filename: BOOLEAN, pagenum: BOOLEAN, pagenum_type: {"INDEX", "LABEL"},
   color: BOOLEAN, only_matching: BOOLEAN, null_byte_sep: BOOLEAN, prefix_sep: Strings,
   context_mode: BOOLEAN, context_before: IntMin..IntMax, context_after: IntMin..IntMax]
ParsingTypeOK ==
  /\ next \in Nat \ {0}
  /\ options \in OptionsType
  /\ colors \in [{"filename", "pagenum", "highlight", "separator"} -> Strings]
  /\ patterns \in Seq(Strings) /\ patterns_specified \in BOOLEAN
  /\ re_engine \subseteq {"PCRE", "FIXED"} /\ use_colors \in {"always", "never", "auto"}
  /\ explicit_filename_option \in BOOLEAN /\ args \in Seq(Strings)
  /\ re \in [engine: {"POSIX", "PCRE", "FIXED"}, patterns: Seq(Strings), ignore_case: BOOLEAN]
  /\ cache_directory \in Strings /\ limit \in IntMin..IntMax
  /\ pc \in {"options", "patterns", "colors", "settings", "cache", "limit", "files",
             "exited", "aborted"}
  /\ status \in {0, 2}

Searches == pc = "files"

\* What main() hands over to the search is what the search can work with (and
\* what the other modules assume of a command line): no negative number, page
\* ranges from 1 on, an engine with patterns it can compile, at least one password
\* and one glob, no context to print with -o, no page numbers with -c.
HandsOver ==
  Searches =>
    /\ {options.max_count, options.context_before, options.context_after} \subseteq Nat
    /\ \A i \in DOMAIN options.page_range :
         options.page_range[i].from > 0 /\ options.page_range[i].to > 0
    /\ re.patterns # <<>>
    /\ re.engine = "FIXED" \/ Range(re.patterns) \cap Malformed = {}
    /\ options.passwords # <<>> /\ options.includes # <<>>
    /\ (options.only_matching /\ options.context_mode) =>
         options.context_before = 0 /\ options.context_after = 0
    /\ ~(options.count /\ options.pagenum)

\* The options and arguments as they are written.
Line == start.options
Given(names) == {i \in DOMAIN Line : Line[i].opt \in names}
LastGiven(names) == Line[Max(Given(names))]

\* What is wrong according to the documents: the manual and, for pages, the grammar
\* of intervals.h, "int | int '-' int".
PagesOf(token) == IF token.range THEN <<token.from, token.to>> ELSE <<token.from>>
NumberIsWrong(item) ==
  \/ ~item.number.digits \/ item.number.junk
  \/ Written(item.number) \notin (IF item.opt = "m" THEN 1 ELSE 0)..IntMax
TokenIsWrong(token) ==
  \E i \in DOMAIN PagesOf(token) :
    LET page == PagesOf(token)[i]
    IN  ~page.digits \/ page.junk \/ Written(page) \notin 1..IntMax
ItemIsWrong(item) ==
  \/ item.opt = "?"
  \/ item.opt = "color" /\ item.word \notin {"always", "never", "auto"}
  \/ item.opt = "page_number_type" /\ item.word \notin {"index", "label"}
  \/ item.opt \in {"m", "A", "B", "C"} /\ NumberIsWrong(item)
  \/ item.opt = "page_range" /\ \E i \in DOMAIN item.tokens : TokenIsWrong(item.tokens[i])
  \/ item.opt = "f" /\ (PatternFiles[item.word].bad \/ ~PatternFiles[item.word].opens)
Informs(item) == item.opt \in {"help", "V"}
Decisive == {i \in DOMAIN Line : ItemIsWrong(Line[i]) \/ Informs(Line[i])}
GivenPatterns ==
  FlattenSeq([i \in DOMAIN Line |->
    IF Line[i].opt = "e" THEN <<Line[i].word>>
    ELSE IF Line[i].opt = "f" THEN PatternFiles[Line[i].word].lines ELSE <<>>])
LineIsWrong ==
  \/ Len(start.args) < (IF Given({"e", "f"}) = {} THEN 1 ELSE 0)
                      + (IF Given({"r", "R"}) = {} THEN 1 ELSE 0)
  \/ Given({"P"}) # {} /\ Given({"F"}) # {}
  \/ /\ Given({"F"}) = {}
     /\ \/ Range(GivenPatterns) \cap Malformed # {}
        \/ /\ Given({"e", "f"}) = {} /\ start.args # <<>>
           /\ Head(start.args) \in Malformed

\* What the code reads in another way than the documents.  A number of two's
\* complement is what is written, except for negative numbers so far down that
\* strtoul() has come round to the positive ones; an empty number is 0.
ReadAs(t) == IF t.negative /\ t.magnitude > LongMax + 1 THEN ULongMax + 1 - t.magnitude
             ELSE Written(t)
TooLarge(t) == t.digits /\ (Written(t) > IntMax \/ Written(t) < IntMin)
\* What stands behind the digits of a page is ignored, a page that is no int is an
\* exception that nobody catches.
ReadOtherwise(item) ==
  \/ item.opt \in {"A", "B", "C"} /\ ~item.number.digits /\ ~item.number.junk
  \/ /\ item.opt \in {"m", "A", "B", "C"}
     /\ item.number.negative /\ ReadAs(item.number) > 0
  \/ /\ item.opt = "page_range"
     /\ \E i \in DOMAIN item.tokens : \E j \in DOMAIN PagesOf(item.tokens[i]) :
          LET page == PagesOf(item.tokens[i])[j]
          IN  page.digits /\ (page.junk \/ TooLarge(page))
\* An empty list of patterns "matches nothing", but the first argument is taken.
EmptyList == Given({"e", "f"}) # {} /\ GivenPatterns = <<>>
ReadAsDocumented == ~EmptyList /\ \A i \in DOMAIN Line : ~ReadOtherwise(Line[i])

\* The manual on the exit status: a search takes place if and only if nothing on the
\* command line is wrong.  Otherwise the status is 2, unless help or the version is
\* asked for in front of the first mistake, and no exception ends the program.
\* Not so for the arguments that the code reads otherwise: "-A ''", "-m" with a
\* number around -2^64, "--page-range=1x-3" or 99999999999, "-f" with an empty file.
RejectsWhatIsWrong ==
  ReadAsDocumented =>
    LET end == IF Decisive = {} THEN (IF LineIsWrong THEN 2 ELSE 1)
               ELSE IF Informs(Line[Min(Decisive)]) THEN 0 ELSE 2
    IN  /\ Searches => end = 1
        /\ pc = "exited" => end = status
        /\ pc # "aborted"

\* Each of the options that contradict each other, whatever stands between and
\* around them.
OptionsWin ==
  Searches =>
    /\ options.recursive =
         IF Given({"r", "R"}) = {} THEN "NONE"
         ELSE IF LastGiven({"r", "R"}).opt = "r" THEN "DONT_FOLLOW_SYMLINKS"
         ELSE "FOLLOW_SYMLINKS"
    /\ options.only_filenames =
         IF Given({"l", "L"}) = {} THEN "NOPE"
         ELSE IF LastGiven({"l", "L"}).opt = "l" THEN "WITH_MATCHES" ELSE "WITHOUT_MATCH"
    /\ options.filename =
         IF Given({"h", "H"}) # {} THEN LastGiven({"h", "H"}).opt = "H"
         ELSE Len(args) # 1 \/ Head(args) \in Directories
    /\ options.max_count =
         IF Given({"m"}) = {} THEN 0 ELSE ReadAs(LastGiven({"m"}).number)
    /\ options.context_after =
         IF Given({"A", "C"}) = {} THEN 0 ELSE ReadAs(LastGiven({"A", "C"}).number)
    /\ options.context_before =
         IF Given({"B", "C"}) = {} THEN 0 ELSE ReadAs(LastGiven({"B", "C"}).number)
    /\ options.page_range =
         IF Given({"page_range"}) = {} THEN <<>>
         ELSE [i \in DOMAIN LastGiven({"page_range"}).tokens |->
                LET pages == PagesOf(LastGiven({"page_range"}).tokens[i])
                IN  [from |-> Written(Head(pages)), to |-> Written(Last(pages))]]
    /\ options.pagenum =
         (/\ Given({"n", "p", "page_number", "page_number_type"}) # {}
          /\ Given({"c"}) = {})
    /\ options.color =
         LET when == IF Given({"color"}) = {} THEN "auto" ELSE LastGiven({"color"}).word
         IN  when = "always" \/ (when = "auto" /\ start.tty)

\* No argument is lost: those of -e and the lines of the files of -f, in their
\* order, or else the first argument, are the patterns, the others are searched.
\* (If the files of -f are empty, the code differs from the manual, "An empty
\* pattern list matches nothing": the first argument becomes the pattern.)
EveryArgumentCounts ==
  (Searches /\ ~EmptyList) =>
    IF Given({"e", "f"}) # {}
    THEN re.patterns = GivenPatterns /\ args = start.args
    ELSE re.patterns \o args = start.args /\ Len(re.patterns) = 1

\* The manual on GREP_COLORS: "The syntax and values are like GREP_COLORS of grep",
\* so of several values for a part of the output the last one counts.  (Behind an
\* empty item, as in "mt=1::fn=2:se=3", all but one pair are lost.)
PairsFor(part) == {i \in DOMAIN Pairs : ~Pairs[i].empty /\ Pairs[i].name \in part}
NoneEmpty == \A i \in DOMAIN Pairs : ~Pairs[i].empty
ColorsLikeGrep ==
  (Searches /\ Colored /\ NoneEmpty) =>
    /\ PairsFor({"mt", "ms", "mc"}) # {} =>
         colors.highlight = Pairs[Max(PairsFor({"mt", "ms", "mc"}))].value
    /\ PairsFor({"fn"}) # {} => colors.filename = Pairs[Max(PairsFor({"fn"}))].value
    /\ PairsFor({"ln"}) # {} => colors.pagenum = Pairs[Max(PairsFor({"ln"}))].value
    /\ PairsFor({"se"}) # {} => colors.separator = Pairs[Max(PairsFor({"se"}))].value

\* Of options that contradict each other, and of colors for the same part of the
\* output, the last one counts.
LaterOptionsWin == OptionsWin /\ ColorsLikeGrep
=============================================================================
