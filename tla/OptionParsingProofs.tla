------------------------- MODULE OptionParsingProofs --------------------------
(***************************************************************************)
(* Proofs about main() up to its file loop, for every command line, every  *)
(* environment and integers of any width: types; that what is handed over  *)
(* to the search is what the search can work with, and what the command    *)
(* line says; and that it is handed over if and only if nothing on it is   *)
(* wrong.                                                                  *)
(***************************************************************************)
EXTENDS OptionParsing, DataLemmas

\* Numbers are in range and page ranges positive at any time.
InRange ==
  /\ {options.max_count, options.context_before, options.context_after} \subseteq Nat
  /\ \A i \in DOMAIN options.page_range :
       options.page_range[i].from > 0 /\ options.page_range[i].to > 0
EngineMade ==
  pc \in {"colors", "settings", "cache", "limit", "files"} =>
    re.patterns # <<>> /\ (re.engine = "FIXED" \/ Range(re.patterns) \cap Malformed = {})
Settled ==
  pc \in {"cache", "limit", "files"} =>
    /\ options.passwords # <<>> /\ options.includes # <<>>
    /\ (options.only_matching /\ options.context_mode) =>
         options.context_before = 0 /\ options.context_after = 0
    /\ ~(options.count /\ options.pagenum)
ParsingInv == start \in Situations /\ ParsingTypeOK /\ InRange /\ EngineMade /\ Settled

Flags == {"ignore_case", "count", "pagenum", "quiet", "only_matching", "null_byte_sep",
          "debug", "use_unac", "use_cache", "warn_empty"}

LEMMA WordsAreWide == IntMax \in Nat /\ IntMin \in Int /\ IntMin < 0 /\ LongMax \in Nat
BY WordsAssumption DEF IntMin

LEMMA Single == ASSUME NEW U, NEW s \in U PROVE <<s>> \in Seq(U)
OBVIOUS

LEMMA FourColors ==
  ASSUME NEW U, NEW a \in U, NEW b \in U, NEW c \in U, NEW d \in U
  PROVE  [filename |-> a, pagenum |-> b, highlight |-> c, separator |-> d]
           \in [{"filename", "pagenum", "highlight", "separator"} -> U]
OBVIOUS

LEMMA ItemTyped ==
  ASSUME ParsingInv, NEW names, AtOption(names)
  PROVE  /\ Item \in ItemType /\ Item.opt \in names
         /\ Item.opt = "f" => Item.word \in DOMAIN PatternFiles
<1>1. start.options \in Seq(ItemType) /\ next \in Nat \ {0} /\ next <= Len(start.options)
  BY SituationsAssumption DEF ParsingInv, ParsingTypeOK, AtOption
<1>2. next \in DOMAIN start.options
  BY <1>1
<1> QED BY <1>1, <1>2, SituationsAssumption DEF ParsingInv, AtOption, Item

\* An option that fails ends the program.
LEMMA LeavingKeeps ==
  ASSUME ParsingInv, NEW how \in {"exited", "aborted"}, NEW code \in {0, 2}, Leaves(how, code)
  PROVE  ParsingInv'
BY DEF ParsingInv, ParsingTypeOK, InRange, EngineMade, Settled, Leaves

\* One that is taken only needs to keep the types and the numbers in range.
LEMMA TakingKeeps ==
  ASSUME ParsingInv, NEW names, AtOption(names), Took,
         options' \in OptionsType, InRange',
         patterns' \in Seq(Strings), patterns_specified' \in BOOLEAN,
         re_engine' \subseteq {"PCRE", "FIXED"}, use_colors' \in {"always", "never", "auto"},
         explicit_filename_option' \in BOOLEAN
  PROVE  ParsingInv'
BY DEF ParsingInv, ParsingTypeOK, EngineMade, Settled, Took, AtOption

LEMMA TakingOptionsKeeps ==
  ASSUME ParsingInv, NEW names, AtOption(names), Took, UNCHANGED Others,
         options' \in OptionsType, InRange'
  PROVE  ParsingInv'
<1>1. UNCHANGED <<patterns, patterns_specified, re_engine, use_colors, explicit_filename_option>>
  BY DEF Others
<1> QED BY <1>1, TakingKeeps DEF ParsingInv, ParsingTypeOK

LEMMA SetFlagType ==
  ASSUME options \in OptionsType, NEW k \in Flags
  PROVE  LET o == [options EXCEPT ![k] = TRUE]
         IN  /\ o \in OptionsType /\ o.max_count = options.max_count
             /\ o.context_before = options.context_before
             /\ o.context_after = options.context_after
             /\ o.page_range = options.page_range
BY DEF OptionsType, Flags

-----------------------------------------------------------------------------
LEMMA FlagKeeps == ASSUME ParsingInv, Flag PROVE ParsingInv'
<1>1. Item.opt \in DOMAIN FlagOf
  BY ItemTyped DEF Flag
<1>2. FlagOf[Item.opt] \in Flags
  BY <1>1 DEF FlagOf, Flags
<1>3. options \in OptionsType
  BY DEF ParsingInv, ParsingTypeOK
<1>4. options' = [options EXCEPT ![FlagOf[Item.opt]] = TRUE]
  BY DEF Flag
<1>5. options' \in OptionsType
  BY <1>2, <1>3, <1>4, SetFlagType
<1>6. InRange'
  BY <1>2, <1>3, <1>4, SetFlagType DEF ParsingInv, InRange
<1> QED BY <1>5, <1>6, TakingOptionsKeeps DEF Flag

LEMMA PageCountKeeps == ASSUME ParsingInv, PageCount PROVE ParsingInv'
<1>1. options' \in OptionsType
  BY DEF ParsingInv, ParsingTypeOK, OptionsType, PageCount
<1>2. InRange'
  BY DEF ParsingInv, ParsingTypeOK, OptionsType, PageCount, InRange
<1> QED BY <1>1, <1>2, TakingOptionsKeeps DEF PageCount

LEMMA PageNumberKeeps == ASSUME ParsingInv, PageNumber PROVE ParsingInv'
<1>1. CASE Fails
  BY <1>1, LeavingKeeps DEF Fails
<1>2. CASE ~Fails
  <2>0. PICK k \in {"INDEX", "LABEL"} :
          options' = [options EXCEPT !.pagenum = TRUE, !.pagenum_type = k]
    BY <1>2 DEF PageNumber
  <2>1. options' \in OptionsType
    BY <2>0 DEF ParsingInv, ParsingTypeOK, OptionsType
  <2>2. InRange'
    BY <2>0 DEF ParsingInv, ParsingTypeOK, OptionsType, InRange
  <2> QED BY <1>2, <2>1, <2>2, TakingOptionsKeeps DEF PageNumber
<1> QED BY <1>1, <1>2

LEMMA RecursiveKeeps == ASSUME ParsingInv, Recursive PROVE ParsingInv'
<1>1. options' \in OptionsType
  BY DEF ParsingInv, ParsingTypeOK, OptionsType, Recursive, SetRecursion
<1>2. InRange'
  BY DEF ParsingInv, ParsingTypeOK, OptionsType, Recursive, SetRecursion, InRange
<1> QED BY <1>1, <1>2, TakingOptionsKeeps DEF Recursive

LEMMA OnlyFilenamesKeeps == ASSUME ParsingInv, OnlyFilenames PROVE ParsingInv'
<1>1. options' \in OptionsType
  BY DEF ParsingInv, ParsingTypeOK, OptionsType, OnlyFilenames
<1>2. InRange'
  BY DEF ParsingInv, ParsingTypeOK, OptionsType, OnlyFilenames, InRange
<1> QED BY <1>1, <1>2, TakingOptionsKeeps DEF OnlyFilenames

LEMMA FilenameKeeps == ASSUME ParsingInv, Filename PROVE ParsingInv'
<1>1. options' \in OptionsType
  BY ZenonT(30) DEF ParsingInv, ParsingTypeOK, OptionsType, Filename
<1>2. InRange'
  BY DEF ParsingInv, ParsingTypeOK, OptionsType, Filename, InRange
<1> QED BY <1>1, <1>2, TakingKeeps DEF Filename, ParsingInv, ParsingTypeOK

\* --color, -P, -F, -e and -f leave the options alone.
LEMMA SameOptions ==
  ASSUME ParsingInv, options' = options
  PROVE  options' \in OptionsType /\ InRange'
BY DEF ParsingInv, ParsingTypeOK, InRange

LEMMA ColorKeeps == ASSUME ParsingInv, Color PROVE ParsingInv'
<1>1. CASE Fails
  BY <1>1, LeavingKeeps DEF Fails
<1>2. CASE ~Fails
  BY <1>2, SameOptions, TakingKeeps DEF Color, ParsingInv, ParsingTypeOK
<1> QED BY <1>1, <1>2

LEMMA EngineKeeps == ASSUME ParsingInv, Engine PROVE ParsingInv'
BY SameOptions, TakingKeeps DEF Engine, ParsingInv, ParsingTypeOK

LEMMA RegexpKeeps == ASSUME ParsingInv, Regexp PROVE ParsingInv'
<1>1. Item.word \in Strings
  BY ItemTyped DEF Regexp, ItemType
<1>2. patterns' \in Seq(Strings)
  BY <1>1 DEF Regexp, ParsingInv, ParsingTypeOK
<1> QED BY <1>2, SameOptions, TakingKeeps DEF Regexp, ParsingInv, ParsingTypeOK

LEMMA PatternFileKeeps == ASSUME ParsingInv, PatternFile PROVE ParsingInv'
<1>1. CASE Fails
  BY <1>1, LeavingKeeps DEF Fails
<1>2. CASE ~Fails
  <2>1. Item.word \in DOMAIN PatternFiles
    BY ItemTyped DEF PatternFile
  <2>2. PatternFiles[Item.word].lines \in Seq(Strings)
    BY <2>1, FilesAssumption
  <2>3. /\ patterns' = patterns \o PatternFiles[Item.word].lines
        /\ patterns_specified' = TRUE /\ Took
        /\ UNCHANGED <<options, re_engine, use_colors, explicit_filename_option>>
    BY <1>2 DEF PatternFile
  <2>4. patterns' \in Seq(Strings)
    BY <2>2, <2>3 DEF ParsingInv, ParsingTypeOK
  <2> QED BY <2>3, <2>4, SameOptions, TakingKeeps DEF PatternFile, ParsingInv, ParsingTypeOK
<1> QED BY <1>1, <1>2

LEMMA ListedKeeps == ASSUME ParsingInv, Listed PROVE ParsingInv'
<1> DEFINE w == Item.word
<1>1. w \in Strings /\ <<w>> \in Seq(Strings)
  BY ItemTyped DEF Listed, ItemType
<1>2. /\ options \in OptionsType /\ options.excludes \in Seq(Strings)
      /\ options.includes \in Seq(Strings) /\ options.passwords \in Seq(Strings)
  BY DEF ParsingInv, ParsingTypeOK, OptionsType
<1>3. /\ <<w>> \o options.excludes \in Seq(Strings)
      /\ <<w>> \o options.includes \in Seq(Strings)
      /\ Append(options.passwords, w) \in Seq(Strings)
  BY <1>1, <1>2
<1>4. \/ options' = [options EXCEPT !.excludes = <<w>> \o options.excludes]
      \/ options' = [options EXCEPT !.includes = <<w>> \o options.includes]
      \/ options' = [options EXCEPT !.passwords = Append(options.passwords, w)]
      \/ options' = [options EXCEPT !.prefix_sep = w]
  BY DEF Listed
<1> HIDE DEF w
<1>4a. InRange
  BY DEF ParsingInv
<1>5. options' \in OptionsType /\ InRange'
  <2>1. CASE options' = [options EXCEPT !.excludes = <<w>> \o options.excludes]
    BY <1>2, <1>3, <1>4a, <2>1 DEF OptionsType, InRange
  <2>2. CASE options' = [options EXCEPT !.includes = <<w>> \o options.includes]
    BY <1>2, <1>3, <1>4a, <2>2 DEF OptionsType, InRange
  <2>3. CASE options' = [options EXCEPT !.passwords = Append(options.passwords, w)]
    BY <1>2, <1>3, <1>4a, <2>3 DEF OptionsType, InRange
  <2>4. CASE options' = [options EXCEPT !.prefix_sep = w]
    BY <1>1, <1>2, <1>4a, <2>4 DEF OptionsType, InRange
  <2> QED BY <1>4, <2>1, <2>2, <2>3, <2>4
<1> QED BY <1>5, TakingOptionsKeeps DEF Listed

\* A number that is accepted is a natural number, as strtoul's result is compared
\* before it is stored.
LEMMA AcceptedType ==
  ASSUME ParsingInv, NEW names, AtOption(names), NEW v \in Accepted
  PROVE  v \in 0..IntMax
<1>1. Item.number \in NumberText
  BY ItemTyped DEF ItemType
<1>2. Item.number.magnitude \in Nat
  BY <1>1 DEF NumberText
<1>3. Strtoul(Item.number) \in Int
  BY <1>2, WordsAreWide DEF Strtoul, ULongMax
<1>4. ToSigned(Strtoul(Item.number), LongMax) \in Int
  BY <1>3, WordsAreWide DEF ToSigned
<1>5. v \in Int /\ v <= IntMax /\ v >= Least(Item.opt)
  BY <1>4 DEF Accepted, parse_int
<1> QED BY <1>5, WordsAreWide DEF Least

LEMMA NumberKeeps == ASSUME ParsingInv, Number PROVE ParsingInv'
<1>1. CASE Fails
  BY <1>1, LeavingKeeps DEF Fails
<1>2. CASE ~Fails
  <2>1. PICK v \in Accepted : options' = WithNumber(Item.opt, v) /\ Took /\ UNCHANGED Others
    BY <1>2 DEF Number
  <2>2. v \in 0..IntMax /\ v \in IntMin..IntMax /\ v \in Nat
    BY <2>1, AcceptedType, WordsAreWide DEF Number
  <2>3. options \in OptionsType /\ InRange
    BY DEF ParsingInv, ParsingTypeOK
  <2>3a. \/ options' = [options EXCEPT !.max_count = v]
         \/ options' = [options EXCEPT !.context_after = v, !.context_mode = TRUE]
         \/ options' = [options EXCEPT !.context_before = v, !.context_mode = TRUE]
         \/ options' = [options EXCEPT !.context_after = v, !.context_before = v,
                                      !.context_mode = TRUE]
    BY <2>1 DEF WithNumber
  <2>4. options' \in OptionsType /\ InRange'
    <3>1. CASE options' = [options EXCEPT !.max_count = v]
      BY <2>2, <2>3, <3>1 DEF OptionsType, InRange
    <3>2. CASE options' = [options EXCEPT !.context_after = v, !.context_mode = TRUE]
      BY <2>2, <2>3, <3>2 DEF OptionsType, InRange
    <3>3. CASE options' = [options EXCEPT !.context_before = v, !.context_mode = TRUE]
      BY <2>2, <2>3, <3>3 DEF OptionsType, InRange
    <3>4. CASE options' = [options EXCEPT !.context_after = v, !.context_before = v,
                                          !.context_mode = TRUE]
      BY <2>2, <2>3, <3>4 DEF OptionsType, InRange
    <3> QED BY <2>3a, <3>1, <3>2, <3>3, <3>4
  <2> QED BY <2>1, <2>4, TakingOptionsKeeps DEF Number
<1> QED BY <1>1, <1>2

LEMMA StoiType ==
  ASSUME NEW t \in NumberText, Stoi(t).outcome = "number"
  PROVE  Stoi(t).value \in IntMin..IntMax
<1>1. Written(t) \in Int
  BY DEF Written, NumberText
<1> QED BY <1>1, WordsAreWide DEF Stoi

LEMMA IntervalType ==
  ASSUME NEW t \in TokenType, Outcome(t) = "interval"
  PROVE  IntervalOf(t) \in Interval /\ IntervalOf(t).from > 0 /\ IntervalOf(t).to > 0
<1>1. t.from \in NumberText /\ t.to \in NumberText
  BY DEF TokenType
<1>2. Stoi(t.from).outcome = "number" /\ (t.range => Stoi(t.to).outcome = "number")
  BY DEF Outcome, Stoi
<1>3. Stoi(t.from).value \in IntMin..IntMax /\ (t.range => Stoi(t.to).value \in IntMin..IntMax)
  BY <1>1, <1>2, StoiType
<1>4. /\ ~(Stoi(t.from).value <= 0)
      /\ t.range => ~(Stoi(t.to).value <= 0)
  BY <1>2 DEF Outcome
<1> QED BY <1>3, <1>4, WordsAreWide DEF IntervalOf, Interval

LEMMA PageRangeKeeps == ASSUME ParsingInv, PageRange PROVE ParsingInv'
<1>1. CASE Fails
  BY <1>1, LeavingKeeps DEF Fails
<1>2. CASE Aborts
  BY <1>2, LeavingKeeps DEF Aborts
<1>3. CASE ~Fails /\ ~Aborts
  <2> DEFINE T == Item.tokens
  <2>1. /\ \A i \in DOMAIN T : Outcome(T[i]) = "interval"
        /\ options' = [options EXCEPT !.page_range = FromString(T)]
        /\ Took /\ UNCHANGED Others
    BY <1>3 DEF PageRange
  <2>2. T \in Seq(TokenType)
    BY ItemTyped DEF PageRange, ItemType
  <2> HIDE DEF T
  <2>3. \A i \in 1..Len(T) : /\ IntervalOf(T[i]) \in Interval
                             /\ IntervalOf(T[i]).from > 0 /\ IntervalOf(T[i]).to > 0
    BY <2>1, <2>2, IntervalType
  <2>4. /\ FromString(T) \in Seq(Interval)
        /\ \A i \in DOMAIN FromString(T) : FromString(T)[i].from > 0 /\ FromString(T)[i].to > 0
    BY <2>2, <2>3 DEF FromString
  <2>5. options \in OptionsType
    BY DEF ParsingInv, ParsingTypeOK
  <2>6. options' \in OptionsType
    BY <2>1, <2>4, <2>5 DEF OptionsType
  <2>7. InRange'
    BY <2>1, <2>4, <2>5 DEF OptionsType, InRange, ParsingInv
  <2> QED BY <2>1, <2>6, <2>7, TakingOptionsKeeps DEF PageRange
<1> QED BY <1>1, <1>2, <1>3

-----------------------------------------------------------------------------
LEMMA OptionStepKeeps == ASSUME ParsingInv, OptionStep PROVE ParsingInv'
<1>1. CASE HelpOrVersion \/ Unknown
  BY <1>1, LeavingKeeps DEF HelpOrVersion, Unknown, Fails
<1> QED
  BY <1>1, FlagKeeps, PageCountKeeps, PageNumberKeeps, RecursiveKeeps, OnlyFilenamesKeeps,
     FilenameKeeps, ColorKeeps, ListedKeeps, EngineKeeps, NumberKeeps, PageRangeKeeps,
     RegexpKeeps, PatternFileKeeps DEF OptionStep

\* The stages behind the option loop leave the numbers and the page ranges alone.
LEMMA CheckUsageKeeps == ASSUME ParsingInv, CheckUsage PROVE ParsingInv'
<1>1. CASE Fails
  BY <1>1, LeavingKeeps DEF Fails
<1>2. CASE ~Fails
  BY <1>2 DEF CheckUsage, Stage, ParsingInv, ParsingTypeOK, InRange, EngineMade, Settled
<1> QED BY <1>1, <1>2

LEMMA MakeEngineKeeps == ASSUME ParsingInv, MakeEngine PROVE ParsingInv'
<1> DEFINE chosen == IF TakesArgument THEN <<Head(args)>> ELSE patterns
<1>1. CASE Fails \/ Aborts
  BY <1>1, LeavingKeeps DEF Fails, Aborts
<1>2. CASE ~Fails /\ ~Aborts
  <2>1. /\ ~(TakesArgument /\ args = <<>>)
        /\ EngineName = "FIXED" \/ Range(chosen) \cap Malformed = {}
        /\ re' = [engine |-> EngineName, patterns |-> chosen, ignore_case |-> options.ignore_case]
        /\ args' = ArgumentsLeft /\ next' = 1 /\ Stage("patterns", "colors")
        /\ UNCHANGED <<options, colors, cache_directory, limit>>
    BY <1>2 DEF MakeEngine
  <2>2. chosen \in Seq(Strings) /\ chosen # <<>> /\ args' \in Seq(Strings)
    <3>1. args \in Seq(Strings) /\ patterns \in Seq(Strings)
      BY DEF ParsingInv, ParsingTypeOK
    <3>2. CASE TakesArgument
      <4>1. args # <<>>
        BY <2>1, <3>2
      <4>2. Head(args) \in Strings /\ Tail(args) \in Seq(Strings)
        BY <3>1, <4>1
      <4>3. <<Head(args)>> \in Seq(Strings) /\ <<Head(args)>> # <<>>
        BY <4>2
      <4> QED BY <2>1, <3>2, <4>2, <4>3 DEF ArgumentsLeft
    <3>3. CASE ~TakesArgument
      BY <2>1, <3>1, <3>3 DEF TakesArgument, ArgumentsLeft
    <3> QED BY <3>2, <3>3
  <2>3. EngineName \in {"POSIX", "PCRE", "FIXED"} /\ options.ignore_case \in BOOLEAN
    BY DEF EngineName, ParsingInv, ParsingTypeOK, OptionsType
  <2> HIDE DEF chosen
  <2>4. re' \in [engine: {"POSIX", "PCRE", "FIXED"}, patterns: Seq(Strings), ignore_case: BOOLEAN]
    BY <2>1, <2>2, <2>3
  <2>5. ParsingTypeOK'
    BY <2>1, <2>2, <2>4 DEF ParsingInv, ParsingTypeOK, Stage
  <2>6. EngineMade'
    BY <2>1, <2>2 DEF EngineMade
  <2>7. Settled' /\ InRange' /\ start' \in Situations
    BY <2>1 DEF ParsingInv, Settled, InRange, Stage
  <2> QED BY <2>5, <2>6, <2>7 DEF ParsingInv
<1> QED BY <1>1, <1>2

LEMMA ReadPairKeeps == ASSUME ParsingInv, ReadPair PROVE ParsingInv'
<1> DEFINE J == {j \in next..Len(Pairs) : ~Pairs[j].empty}
           C == {"filename", "pagenum", "highlight", "separator"}
<1>0. Pairs \in Seq(ColorType) /\ Len(Pairs) \in Nat /\ next \in Nat \ {0}
  BY SituationsAssumption DEF ParsingInv, ParsingTypeOK, Pairs
<1>1. PICK j \in J : /\ next' = NextPair(j)
                      /\ colors' = IF Pairs[j].name \in ColorNames
                                   THEN [colors EXCEPT ![ColorOf[Pairs[j].name]] = Pairs[j].value]
                                   ELSE colors
  <2>1. J # {} /\ J \subseteq Nat
    BY <1>0 DEF ReadPair, MorePairs
  <2>2. PICK j \in J : \A k \in J : j <= k
    BY <2>1, LeastElement
  <2>3. Min(J) = j
    BY <2>1, <2>2 DEF Min
  <2> QED BY <2>2, <2>3 DEF ReadPair
<1>2. Pairs[j] \in ColorType
  BY <1>0
<1>3. next' \in Nat \ {0}
  BY <1>0, <1>1 DEF NextPair
<1>4. colors' \in [C -> Strings]
  <2>1. colors \in [C -> Strings]
    BY DEF ParsingInv, ParsingTypeOK
  <2>2. Pairs[j].value \in Strings
    BY <1>2 DEF ColorType
  <2>3. Pairs[j].name \in ColorNames => ColorOf[Pairs[j].name] \in C
    BY DEF ColorNames, ColorOf
  <2> QED BY <1>1, <2>1, <2>2, <2>3
<1> HIDE DEF J
<1>5. ParsingTypeOK'
  BY <1>3, <1>4 DEF ReadPair, ParsingInv, ParsingTypeOK
<1> QED BY <1>5 DEF ReadPair, ParsingInv, InRange, EngineMade, Settled

LEMMA ColorsDoneKeeps == ASSUME ParsingInv, ColorsDone PROVE ParsingInv'
<1>1. options \in OptionsType /\ Colored \in BOOLEAN
  BY DEF ParsingInv, ParsingTypeOK, Colored
<1>2. options' = [options EXCEPT !.color = Colored]
  BY DEF ColorsDone
<1>3. options' \in OptionsType /\ InRange'
  BY <1>1, <1>2 DEF OptionsType, InRange, ParsingInv
<1>4. ParsingTypeOK'
  BY <1>3 DEF ColorsDone, Stage, ParsingInv, ParsingTypeOK
<1> QED BY <1>3, <1>4 DEF ColorsDone, Stage, ParsingInv, EngineMade, Settled

LEMMA SettleKeeps == ASSUME ParsingInv, Settle PROVE ParsingInv'
<1> DEFINE f == IF explicit_filename_option THEN options.filename ELSE ~OneFile
           m == options.context_mode /\ ~ContextIgnored
           p == options.pagenum /\ ~options.count
           i == IF options.includes = <<>> THEN <<"*.[Pp][Dd][Ff]">> ELSE options.includes
           w == IF options.passwords = <<>> THEN <<"">> ELSE options.passwords
<1>1. options \in OptionsType
  BY DEF ParsingInv, ParsingTypeOK
<1>2. options' = [options EXCEPT !.filename = f, !.context_mode = m, !.pagenum = p,
                                 !.includes = i, !.passwords = w]
  BY DEF Settle
<1>3. f \in BOOLEAN /\ m \in BOOLEAN /\ p \in BOOLEAN
  BY <1>1 DEF OptionsType, OneFile, ContextIgnored
<1>4. i \in Seq(Strings) /\ w \in Seq(Strings) /\ i # <<>> /\ w # <<>>
  <2>1. options.includes \in Seq(Strings) /\ options.passwords \in Seq(Strings)
    BY <1>1 DEF OptionsType
  <2>2. <<"*.[Pp][Dd][Ff]">> \in Seq(Strings) /\ <<"">> \in Seq(Strings)
    <3>1. "*.[Pp][Dd][Ff]" \in Strings /\ "" \in Strings
      BY DEF Strings
    <3> QED BY <3>1, Single
  <2>3. <<"*.[Pp][Dd][Ff]">> # <<>> /\ <<"">> # <<>>
    OBVIOUS
  <2> QED BY <2>1, <2>2, <2>3
<1>5. p => ~options.count
  OBVIOUS
<1>6. (m /\ options.only_matching) => options.context_before = 0 /\ options.context_after = 0
  BY <1>1 DEF ContextIgnored, ParsingInv, InRange
<1> HIDE DEF f, m, p, i, w
<1>7. options' \in OptionsType /\ InRange'
  <2>1. InRange
    BY DEF ParsingInv
  <2>2. options' \in OptionsType
    <3> DEFINE o == [options EXCEPT !.filename = f, !.context_mode = m, !.pagenum = p]
    <3>1. o \in OptionsType
      BY <1>1, <1>3 DEF OptionsType
    <3>2. options' = [o EXCEPT !.includes = i, !.passwords = w]
      BY <1>1, <1>2 DEF OptionsType
    <3> HIDE DEF o
    <3> QED BY <3>1, <3>2, <1>4 DEF OptionsType
  <2>3. /\ options'.max_count = options.max_count
        /\ options'.context_before = options.context_before
        /\ options'.context_after = options.context_after
        /\ options'.page_range = options.page_range
    BY <1>1, <1>2 DEF OptionsType
  <2> QED BY <2>1, <2>2, <2>3 DEF InRange
<1>8. Settled'
  BY <1>1, <1>2, <1>4, <1>5, <1>6 DEF OptionsType, Settled
<1>9. ParsingTypeOK'
  BY <1>7 DEF Settle, Stage, ParsingInv, ParsingTypeOK
<1> QED BY <1>7, <1>8, <1>9 DEF Settle, Stage, ParsingInv, EngineMade

LEMMA NoCacheKeeps == ASSUME ParsingInv, NoCache PROVE ParsingInv'
<1>1. options \in OptionsType /\ options' = [options EXCEPT !.use_cache = FALSE]
  BY DEF ParsingInv, ParsingTypeOK, NoCache
<1>2. options' \in OptionsType /\ InRange'
  BY <1>1 DEF OptionsType, InRange, ParsingInv
<1>3. ParsingTypeOK'
  BY <1>2 DEF NoCache, Stage, ParsingInv, ParsingTypeOK
<1>4. Settled'
  BY <1>1 DEF OptionsType, Settled, NoCache, Stage, ParsingInv
<1> QED BY <1>2, <1>3, <1>4 DEF NoCache, Stage, ParsingInv, EngineMade

\* Whatever PDFGREP_CACHE_LIMIT holds, it becomes an int.
LEMMA LimitType ==
  ASSUME NEW env \in EnvType
  PROVE  CacheLimitOf(env) \in IntMin..IntMax
<1> DEFINE d == Strtoul(env.limit) % (UIntMax + 1)
<1>1. env.limit.magnitude \in Nat
  BY DEF EnvType, NumberText
<1>2. Strtoul(env.limit) \in Nat
  BY <1>1, WordsAreWide DEF Strtoul, ULongMax, Overflows
<1>3. d \in 0..UIntMax
  BY <1>2, WordsAreWide DEF UIntMax
<1> HIDE DEF d
<1>4. ToSigned(d, IntMax) \in IntMin..IntMax
  BY <1>3, WordsAreWide DEF ToSigned, UIntMax, IntMin
<1>5. LimitOf(env.limit) \in IntMin..IntMax
  BY <1>4 DEF LimitOf, d
<1> QED BY <1>5, LimitAssumption, WordsAreWide DEF CacheLimitOf

LEMMA FindCacheKeeps == ASSUME ParsingInv, FindCache PROVE ParsingInv'
<1>1. limit' \in IntMin..IntMax
  BY SituationsAssumption, LimitType DEF FindCache, ParsingInv
<1>2. cache_directory' \in Strings
  <2>1. cache_directory' \in {"$XDG_CACHE_HOME/pdfgrep/", "$HOME/.cache/pdfgrep/",
                              "~/.cache/pdfgrep/"}
    BY DEF FindCache, find_cache_directory
  <2> QED BY <2>1 DEF Strings
<1>3. ParsingTypeOK'
  BY <1>1, <1>2 DEF FindCache, Stage, ParsingInv, ParsingTypeOK
<1> QED BY <1>3 DEF FindCache, Stage, ParsingInv, EngineMade, Settled, InRange

LEMMA CacheLimitedKeeps == ASSUME ParsingInv, CacheLimited PROVE ParsingInv'
BY DEF CacheLimited, Stage, ParsingInv, ParsingTypeOK, EngineMade, Settled, InRange

LEMMA ParsingStep == ASSUME ParsingInv, [Next]_vars PROVE ParsingInv'
<1>1. CASE UNCHANGED vars
  BY <1>1 DEF vars, ParsingInv, ParsingTypeOK, EngineMade, Settled, InRange
<1>2. CASE Over
  BY <1>1, <1>2 DEF Over
<1> QED
  BY <1>1, <1>2, OptionStepKeeps, CheckUsageKeeps, MakeEngineKeeps, ReadPairKeeps,
     ColorsDoneKeeps, SettleKeeps, NoCacheKeeps, FindCacheKeeps, CacheLimitedKeeps
  DEF Next, Step

LEMMA ParsingInit == Init => ParsingInv
<1> SUFFICES ASSUME Init PROVE ParsingInv
  OBVIOUS
<1>1. options \in OptionsType /\ InRange
  <2>1. options = DefaultOptions
    BY DEF Init
  <2>2. 0 \in IntMin..IntMax /\ <<>> \in Seq(Strings) /\ <<>> \in Seq(Interval)
        /\ ":" \in Strings
    BY WordsAreWide DEF Strings
  <2>3. options \in OptionsType
    BY <2>1, <2>2, SMTT(60) DEF DefaultOptions, OptionsType
  <2>4. InRange
    BY <2>1 DEF DefaultOptions, InRange
  <2> QED BY <2>3, <2>4
<1>2. colors \in [{"filename", "pagenum", "highlight", "separator"} -> Strings]
  <2>1. "35" \in Strings /\ "32" \in Strings /\ "01;31" \in Strings /\ "36" \in Strings
    BY DEF Strings
  <2>2. DefaultColors \in [{"filename", "pagenum", "highlight", "separator"} -> Strings]
    BY <2>1, FourColors DEF DefaultColors
  <2> QED BY <2>2 DEF Init
<1>3. start \in Situations /\ args \in Seq(Strings)
  BY SituationsAssumption DEF Init
<1>4. ParsingTypeOK
  <2>1. /\ next = 1 /\ patterns = <<>> /\ patterns_specified = FALSE /\ re_engine = {}
        /\ use_colors = "auto" /\ explicit_filename_option = FALSE
        /\ cache_directory = "" /\ limit = 0 /\ pc = "options" /\ status = 0
        /\ re = [engine |-> "POSIX", patterns |-> <<>>, ignore_case |-> FALSE]
    BY DEF Init
  <2>2. <<>> \in Seq(Strings) /\ "" \in Strings /\ 0 \in IntMin..IntMax
    BY WordsAreWide DEF Strings
  <2>3. re \in [engine: {"POSIX", "PCRE", "FIXED"}, patterns: Seq(Strings), ignore_case: BOOLEAN]
    BY <2>1, <2>2
  <2>4. next \in Nat \ {0}
    <3>1. next = 1
      BY <2>1
    <3> QED BY <3>1
  <2>5. patterns \in Seq(Strings)
    BY <2>1, <2>2, Zenon
  <2>6. cache_directory \in Strings
    BY <2>1, <2>2, Zenon
  <2>7. /\ patterns_specified \in BOOLEAN /\ re_engine \subseteq {"PCRE", "FIXED"}
        /\ use_colors \in {"always", "never", "auto"} /\ explicit_filename_option \in BOOLEAN
        /\ limit \in IntMin..IntMax /\ status \in {0, 2}
        /\ pc \in {"options", "patterns", "colors", "settings", "cache", "limit", "files",
                   "exited", "aborted"}
    BY <2>1, <2>2
  <2> QED BY <1>1, <1>2, <1>3, <2>3, <2>4, <2>5, <2>6, <2>7 DEF ParsingTypeOK
<1> QED BY <1>1, <1>3, <1>4 DEF Init, ParsingInv, EngineMade, Settled

\* The state of main() is well typed, whatever is written on the command line and
\* in the environment; so no number leaves its integer type.
THEOREM ParsingTypeCorrect == Spec => []ParsingTypeOK
<1>1. ParsingInv => ParsingTypeOK
  BY DEF ParsingInv
<1> QED BY <1>1, ParsingInit, ParsingStep, PTL DEF Spec

\* A search only gets options it can work with: natural numbers, page ranges from 1
\* on, patterns that can be compiled, a password, a glob, no contradicting output
\* modes.
THEOREM HandsOverWorkingOptions == Spec => []HandsOver
<1>1. ParsingInv => HandsOver
  BY DEF ParsingInv, HandsOver, Searches, InRange, EngineMade, Settled
<1> QED BY <1>1, ParsingInit, ParsingStep, PTL DEF Spec

-----------------------------------------------------------------------------
\* The last one of some options in front of place k of the command line, and what it
\* says: the value v has for it, or d if there is none.
SeenIn(line, k, names) == {i \in DOMAIN line : i < k /\ line[i].opt \in names}
LastIn(line, k, names, d, v) ==
  IF SeenIn(line, k, names) = {} THEN d ELSE v[Max(SeenIn(line, k, names))]

LEMMA GreatestIs ==
  ASSUME NEW S \in SUBSET Nat, NEW m \in S, \A x \in S : x <= m
  PROVE  Max(S) = m
<1>1. \A x \in S : (\A y \in S : x >= y) => x = m
  OBVIOUS
<1>2. \A y \in S : m >= y
  OBVIOUS
<1> QED BY <1>1, <1>2 DEF Max

LEMMA TakeNext ==
  ASSUME NEW line, Len(line) \in Nat, DOMAIN line = 1..Len(line), NEW k \in 1..Len(line),
         NEW names
  PROVE  /\ SeenIn(line, k + 1, names) =
              IF line[k].opt \in names THEN SeenIn(line, k, names) \cup {k}
              ELSE SeenIn(line, k, names)
         /\ \A d, v : LastIn(line, k + 1, names, d, v) =
              IF line[k].opt \in names THEN v[k] ELSE LastIn(line, k, names, d, v)
<1>1. \A i \in DOMAIN line : i < k + 1 <=> i < k \/ i = k
  OBVIOUS
<1>2. SeenIn(line, k + 1, names) =
        IF line[k].opt \in names THEN SeenIn(line, k, names) \cup {k}
        ELSE SeenIn(line, k, names)
  BY <1>1 DEF SeenIn
<1>3. ASSUME line[k].opt \in names PROVE Max(SeenIn(line, k + 1, names)) = k
  <2>1. /\ SeenIn(line, k + 1, names) \in SUBSET Nat /\ k \in SeenIn(line, k + 1, names)
        /\ \A x \in SeenIn(line, k + 1, names) : x <= k
    BY <1>3 DEF SeenIn
  <2> QED BY <2>1, GreatestIs
<1> QED BY <1>2, <1>3 DEF LastIn

LEMMA NothingTaken ==
  ASSUME NEW line, Len(line) \in Nat, DOMAIN line = 1..Len(line), NEW names
  PROVE  SeenIn(line, 1, names) = {} /\ \A d, v : LastIn(line, 1, names, d, v) = d
<1>1. SeenIn(line, 1, names) = {}
  BY DEF SeenIn
<1> QED BY <1>1 DEF LastIn

LEMMA AllTaken ==
  ASSUME NEW line, Len(line) \in Nat, DOMAIN line = 1..Len(line), NEW names
  PROVE  SeenIn(line, Len(line) + 1, names) = {i \in DOMAIN line : line[i].opt \in names}
BY DEF SeenIn

-----------------------------------------------------------------------------
(* What main() does not read.  It is what is wrong, but for what is read otherwise *)
(* (see Documented below).                                                         *)
NumberNotRead(item) ==
  \/ item.number.junk \/ item.number.magnitude > ULongMax
  \/ ReadAs(item.number) < (IF item.opt = "m" THEN 1 ELSE 0)
  \/ ReadAs(item.number) > IntMax
TokenNotRead(token) ==
  \E i \in DOMAIN PagesOf(token) :
    ~PagesOf(token)[i].digits \/ Written(PagesOf(token)[i]) \notin 1..IntMax
ItemNotRead(item) ==
  \/ item.opt = "?"
  \/ item.opt = "color" /\ item.word \notin {"always", "never", "auto"}
  \/ item.opt = "page_number_type" /\ item.word \notin {"index", "label"}
  \/ item.opt \in {"m", "A", "B", "C"} /\ NumberNotRead(item)
  \/ item.opt = "page_range" /\ \E i \in DOMAIN item.tokens : TokenNotRead(item.tokens[i])
  \/ item.opt = "f" /\ (PatternFiles[item.word].bad \/ ~PatternFiles[item.word].opens)
Deciding == {i \in DOMAIN Line : ItemNotRead(Line[i]) \/ Informs(Line[i])}

-----------------------------------------------------------------------------
\* Numbers: what strtoul() and the conversions make of an argument that is accepted
\* is the number a reader of the command line expects, and the same holds for stoi().
LEMMA NumberIsRead ==
  ASSUME NEW t \in NumberText, NEW least \in Nat
  PROVE  LET taken == {v \in parse_int(t) : v >= least}
         IN  /\ \A v \in taken : v = ReadAs(t)
             /\ taken = {} <=> \/ t.junk \/ t.magnitude > ULongMax
                               \/ ReadAs(t) < least \/ ReadAs(t) > IntMax
<1> DEFINE m == t.magnitude
           x == ToSigned(Strtoul(t), LongMax)
<1>1. /\ m \in Nat /\ t.negative \in BOOLEAN /\ t.junk \in BOOLEAN /\ IntMax \in Nat
      /\ LongMax \in Nat /\ IntMax <= LongMax /\ IntMin \in Int /\ IntMin < 0
      /\ ULongMax = 2 * LongMax + 1
  BY WordsAssumption DEF NumberText, IntMin, ULongMax
<1>2. ReadAs(t) = IF t.negative THEN (IF m > LongMax + 1 THEN ULongMax + 1 - m ELSE -m) ELSE m
  BY DEF ReadAs, Written
<1>3. m <= ULongMax =>
        x = IF t.negative /\ m > 0
            THEN (IF ULongMax + 1 - m > LongMax THEN -m ELSE ULongMax + 1 - m)
            ELSE (IF m > LongMax THEN m - 2 * (LongMax + 1) ELSE m)
  BY <1>1 DEF Strtoul, Overflows, ToSigned
<1>4. m <= ULongMax => x \in Int /\ ReadAs(t) \in Int
  BY <1>1, <1>2, <1>3
<1>5. m <= ULongMax =>
        \/ x = ReadAs(t)
        \/ x < 0 /\ ReadAs(t) > IntMax
  BY <1>1, <1>2, <1>3
<1>6. \A v : v \in parse_int(t) <=>
               v = x /\ m <= ULongMax /\ ~t.junk /\ IntMin <= x /\ x <= IntMax
  BY <1>1 DEF parse_int, Overflows
<1> HIDE DEF x, m
<1>7. \A v : (v \in parse_int(t) /\ v >= least) => v = ReadAs(t)
  BY <1>1, <1>4, <1>5, <1>6
<1>8. (\A v : v \in parse_int(t) => ~(v >= least))
        <=> t.junk \/ m > ULongMax \/ ReadAs(t) < least \/ ReadAs(t) > IntMax
  <2>1. CASE m <= ULongMax
    <3>1. (\A v : v \in parse_int(t) => ~(v >= least))
            <=> ~(~t.junk /\ IntMin <= x /\ x <= IntMax /\ x >= least)
      BY <1>6, <2>1
    <3>2. x \in Int /\ ReadAs(t) \in Int /\ (x = ReadAs(t) \/ (x < 0 /\ ReadAs(t) > IntMax))
      BY <1>4, <1>5, <2>1
    <3>3. ~(IntMin <= x /\ x <= IntMax /\ x >= least)
            <=> ReadAs(t) < least \/ ReadAs(t) > IntMax
      BY <1>1, <3>2
    <3>4. ~(m > ULongMax)
      BY <1>1, <2>1
    <3> QED BY <3>1, <3>3, <3>4
  <2>2. CASE m > ULongMax
    BY <1>1, <1>6, <2>2
  <2> QED BY <1>1, <2>1, <2>2
<1> QED BY <1>7, <1>8 DEF m

LEMMA StoiReads ==
  ASSUME NEW t \in NumberText
  PROVE  /\ Stoi(t).outcome = "number" => Stoi(t).value = Written(t)
         /\ Stoi(t).outcome = "out_of_range" <=> TooLarge(t)
         /\ Stoi(t).outcome = "number" /\ ~(Stoi(t).value <= 0) <=>
              t.digits /\ Written(t) \in 1..IntMax
         /\ Stoi(t).outcome \in {"number", "out_of_range", "invalid_argument"}
<1>1. Written(t) \in Int /\ t.digits \in BOOLEAN /\ IntMin \in Int /\ IntMin < 0 /\ IntMax \in Nat
  BY WordsAreWide DEF Written, NumberText
<1> QED BY <1>1 DEF Stoi, TooLarge

LEMMA TokenIsRead ==
  ASSUME NEW t \in TokenType
  PROVE  /\ Outcome(t) = "interval" <=> ~TokenNotRead(t)
         /\ Outcome(t) = "interval" =>
              IntervalOf(t) = [from |-> Written(Head(PagesOf(t))), to |-> Written(Last(PagesOf(t)))]
         /\ Outcome(t) = "out_of_range" => \E k \in DOMAIN PagesOf(t) : TooLarge(PagesOf(t)[k])
<1>1. t.from \in NumberText /\ t.to \in NumberText /\ t.range \in BOOLEAN
  BY DEF TokenType
<1>2. CASE t.range
  <2>1. PagesOf(t) = <<t.from, t.to>>
    BY <1>2 DEF PagesOf
  <2>2. /\ DOMAIN PagesOf(t) = {1, 2} /\ PagesOf(t)[1] = t.from /\ PagesOf(t)[2] = t.to
        /\ Head(PagesOf(t)) = t.from /\ Last(PagesOf(t)) = t.to
    BY <2>1 DEF Last
  <2>3. TokenNotRead(t) <=> \/ ~(t.from.digits /\ Written(t.from) \in 1..IntMax)
                            \/ ~(t.to.digits /\ Written(t.to) \in 1..IntMax)
    BY <2>2 DEF TokenNotRead
  <2>4. /\ Outcome(t) = "interval" <=>
             /\ Stoi(t.from).outcome = "number" /\ ~(Stoi(t.from).value <= 0)
             /\ Stoi(t.to).outcome = "number" /\ ~(Stoi(t.to).value <= 0)
        /\ Outcome(t) = "out_of_range" => \/ Stoi(t.from).outcome = "out_of_range"
                                          \/ Stoi(t.to).outcome = "out_of_range"
    BY <1>1, <1>2, StoiReads DEF Outcome
  <2>5. Outcome(t) = "interval" =>
          IntervalOf(t) = [from |-> Written(t.from), to |-> Written(t.to)]
    BY <1>1, <1>2, <2>4, StoiReads DEF IntervalOf
  <2> QED BY <1>1, <2>2, <2>3, <2>4, <2>5, StoiReads
<1>3. CASE ~t.range
  <2>1. PagesOf(t) = <<t.from>>
    BY <1>3 DEF PagesOf
  <2>2. /\ DOMAIN PagesOf(t) = {1} /\ PagesOf(t)[1] = t.from
        /\ Head(PagesOf(t)) = t.from /\ Last(PagesOf(t)) = t.from
    BY <2>1 DEF Last
  <2>3. TokenNotRead(t) <=> ~(t.from.digits /\ Written(t.from) \in 1..IntMax)
    BY <2>2 DEF TokenNotRead
  <2>4. /\ Outcome(t) = "interval" <=>
             Stoi(t.from).outcome = "number" /\ ~(Stoi(t.from).value <= 0)
        /\ Outcome(t) = "out_of_range" => Stoi(t.from).outcome = "out_of_range"
    BY <1>1, <1>3, StoiReads DEF Outcome
  <2>5. Outcome(t) = "interval" =>
          IntervalOf(t) = [from |-> Written(t.from), to |-> Written(t.from)]
    BY <1>1, <1>3, <2>4, StoiReads DEF IntervalOf
  <2> QED BY <1>1, <2>2, <2>3, <2>4, <2>5, StoiReads
<1> QED BY <1>1, <1>2, <1>3

-----------------------------------------------------------------------------
(* What each option stands for, wherever it is on the command line, and how one   *)
(* that is taken changes what main() knows.                                       *)
Recursions ==
  [i \in DOMAIN Line |->
     IF Line[i].opt = "r" THEN "DONT_FOLLOW_SYMLINKS" ELSE "FOLLOW_SYMLINKS"]
Outputs ==
  [i \in DOMAIN Line |-> IF Line[i].opt = "l" THEN "WITH_MATCHES" ELSE "WITHOUT_MATCH"]
Namings == [i \in DOMAIN Line |-> Line[i].opt = "H"]
NumbersRead == [i \in DOMAIN Line |-> ReadAs(Line[i].number)]
Words == [i \in DOMAIN Line |-> Line[i].word]
TokensRead(tokens) ==
  [j \in DOMAIN tokens |-> [from |-> Written(Head(PagesOf(tokens[j]))),
                            to   |-> Written(Last(PagesOf(tokens[j])))]]
RangesRead == [i \in DOMAIN Line |-> TokensRead(Line[i].tokens)]
PatternsAt ==
  [i \in DOMAIN Line |->
    IF Line[i].opt = "e" THEN <<Line[i].word>>
    ELSE IF Line[i].opt = "f" THEN PatternFiles[Line[i].word].lines ELSE <<>>]

\* What is known of the options in front of place k.
ChoicesRead(k) ==
  /\ options.recursive = LastIn(Line, k, {"r", "R"}, "NONE", Recursions)
  /\ options.only_filenames = LastIn(Line, k, {"l", "L"}, "NOPE", Outputs)
  /\ use_colors = LastIn(Line, k, {"color"}, "auto", Words)
  /\ options.page_range = LastIn(Line, k, {"page_range"}, <<>>, RangesRead)
CountsRead(k) ==
  /\ options.max_count = LastIn(Line, k, {"m"}, 0, NumbersRead)
  /\ options.context_after = LastIn(Line, k, {"A", "C"}, 0, NumbersRead)
  /\ options.context_before = LastIn(Line, k, {"B", "C"}, 0, NumbersRead)
SwitchesRead(k) ==
  /\ options.count = (SeenIn(Line, k, {"c"}) # {})
  /\ patterns_specified = (SeenIn(Line, k, {"e", "f"}) # {})
  /\ explicit_filename_option = (SeenIn(Line, k, {"h", "H"}) # {})
  /\ "PCRE" \in re_engine <=> SeenIn(Line, k, {"P"}) # {}
  /\ "FIXED" \in re_engine <=> SeenIn(Line, k, {"F"}) # {}
PatternsRead(k) == patterns = FlattenSeq(SubSeq(PatternsAt, 1, k - 1))
PrefixRead(k) ==
  /\ options.filename = LastIn(Line, k, {"h", "H"}, FALSE, Namings)
  /\ options.pagenum = (SeenIn(Line, k, {"n", "p", "page_number", "page_number_type"}) # {})
OptionsRead(k) == ChoicesRead(k) /\ CountsRead(k) /\ SwitchesRead(k) /\ PatternsRead(k)

Moves ==
  /\ pc = "options" /\ pc' = "options" /\ next \in DOMAIN Line /\ next' = next + 1
  /\ UNCHANGED <<start, args, status>>
  /\ ~ItemNotRead(Item) /\ ~Informs(Item)
ChoiceTaken ==
  /\ options'.recursive =
       IF Item.opt \in {"r", "R"} THEN Recursions[next] ELSE options.recursive
  /\ options'.only_filenames =
       IF Item.opt \in {"l", "L"} THEN Outputs[next] ELSE options.only_filenames
  /\ use_colors' = IF Item.opt \in {"color"} THEN Words[next] ELSE use_colors
  /\ options'.page_range =
       IF Item.opt \in {"page_range"} THEN RangesRead[next] ELSE options.page_range
CountTaken ==
  /\ options'.max_count =
       IF Item.opt \in {"m"} THEN NumbersRead[next] ELSE options.max_count
  /\ options'.context_after =
       IF Item.opt \in {"A", "C"} THEN NumbersRead[next] ELSE options.context_after
  /\ options'.context_before =
       IF Item.opt \in {"B", "C"} THEN NumbersRead[next] ELSE options.context_before
SwitchTaken ==
  /\ options'.count = (options.count \/ Item.opt \in {"c"})
  /\ patterns_specified' = (patterns_specified \/ Item.opt \in {"e", "f"})
  /\ explicit_filename_option' = (explicit_filename_option \/ Item.opt \in {"h", "H"})
  /\ "PCRE" \in re_engine' <=> "PCRE" \in re_engine \/ Item.opt \in {"P"}
  /\ "FIXED" \in re_engine' <=> "FIXED" \in re_engine \/ Item.opt \in {"F"}
PatternsTaken == patterns' = patterns \o PatternsAt[next]
PrefixTaken ==
  /\ options'.filename =
       IF Item.opt \in {"h", "H"} THEN Namings[next] ELSE options.filename
  /\ options'.pagenum =
       (options.pagenum \/ Item.opt \in {"n", "p", "page_number", "page_number_type"})
Taken ==
  Moves /\ ChoiceTaken /\ CountTaken /\ SwitchTaken /\ PatternsTaken /\ PrefixTaken

LEMMA LineTyped ==
  ASSUME ParsingInv
  PROVE  /\ Line \in Seq(ItemType) /\ Len(Line) \in Nat /\ DOMAIN Line = 1..Len(Line)
         /\ next \in Nat \ {0} /\ start.args \in Seq(Strings)
         /\ \A i \in DOMAIN Line : Line[i].opt = "f" => Line[i].word \in DOMAIN PatternFiles
<1>1. /\ Line \in Seq(ItemType) /\ start.args \in Seq(Strings) /\ next \in Nat \ {0}
      /\ \A i \in DOMAIN Line : Line[i].opt = "f" => Line[i].word \in DOMAIN PatternFiles
  BY SituationsAssumption DEF ParsingInv, ParsingTypeOK, Line
<1> QED BY <1>1

LEMMA AtNext ==
  ASSUME ParsingInv, NEW names, AtOption(names), Took
  PROVE  /\ next \in DOMAIN Line /\ Item = Line[next] /\ Item \in ItemType /\ Item.opt \in names
         /\ next' = next + 1 /\ pc = "options" /\ pc' = "options"
         /\ UNCHANGED <<start, args, status>>
BY LineTyped, ItemTyped DEF AtOption, Took, Line, Item

\* An option that says nothing about the patterns.
LEMMA NoPatterns ==
  ASSUME ParsingInv, next \in DOMAIN Line, Item = Line[next], Item.opt \notin {"e", "f"},
         UNCHANGED patterns
  PROVE  PatternsTaken
<1>1. PatternsAt[next] = <<>>
  BY DEF PatternsAt
<1>2. patterns \o <<>> = patterns
  BY DEF ParsingInv, ParsingTypeOK
<1> QED BY <1>1, <1>2 DEF PatternsTaken

LEMMA Switches ==
  ASSUME ParsingInv
  PROVE  /\ patterns_specified \in BOOLEAN /\ explicit_filename_option \in BOOLEAN
         /\ options.count \in BOOLEAN /\ options.pagenum \in BOOLEAN
BY DEF ParsingInv, ParsingTypeOK, OptionsType

LEMMA FlagTaken == ASSUME ParsingInv, Flag PROVE Taken
<1>1. /\ next \in DOMAIN Line /\ Item = Line[next] /\ Item.opt \in DOMAIN FlagOf
      /\ Took /\ UNCHANGED Others /\ options' = [options EXCEPT ![FlagOf[Item.opt]] = TRUE]
  BY AtNext DEF Flag
<1>2. Moves
  BY <1>1, AtNext DEF Flag, Moves, ItemNotRead, Informs, FlagOf
<1>3. options \in OptionsType
  BY DEF ParsingInv, ParsingTypeOK
<1>4. /\ FlagOf[Item.opt] \in Flags
      /\ FlagOf[Item.opt] = "count" <=> Item.opt = "c"
      /\ FlagOf[Item.opt] = "pagenum" <=> Item.opt = "n"
      /\ Item.opt \notin {"r", "R", "l", "L", "h", "H", "color", "page_range", "P", "F",
                          "m", "A", "B", "C", "e", "f", "p", "page_number", "page_number_type"}
  BY <1>1 DEF FlagOf, Flags
<1>5. /\ options'.recursive = options.recursive /\ options'.max_count = options.max_count
      /\ options'.only_filenames = options.only_filenames
      /\ options'.page_range = options.page_range /\ options'.filename = options.filename
      /\ options'.context_after = options.context_after
      /\ options'.context_before = options.context_before
      /\ options'.count = (options.count \/ FlagOf[Item.opt] = "count")
      /\ options'.pagenum = (options.pagenum \/ FlagOf[Item.opt] = "pagenum")
  <2> DEFINE k == FlagOf[Item.opt]
  <2>1. k \in Flags /\ options' = [options EXCEPT ![k] = TRUE]
    BY <1>1, <1>4
  <2> HIDE DEF k
  <2>2. /\ options'.recursive = options.recursive /\ options'.max_count = options.max_count
        /\ options'.only_filenames = options.only_filenames
        /\ options'.page_range = options.page_range /\ options'.filename = options.filename
        /\ options'.context_after = options.context_after
        /\ options'.context_before = options.context_before
    BY <1>3, <2>1 DEF OptionsType, Flags
  <2>3. options'.count = (options.count \/ k = "count")
    BY <1>3, <2>1 DEF OptionsType, Flags
  <2>4. options'.pagenum = (options.pagenum \/ k = "pagenum")
    BY <1>3, <2>1 DEF OptionsType, Flags
  <2> QED BY <2>2, <2>3, <2>4 DEF k
<1>6. ChoiceTaken /\ CountTaken
  BY <1>1, <1>4, <1>5 DEF ChoiceTaken, CountTaken, Others
<1>7. SwitchTaken /\ PrefixTaken
  <2>1. /\ patterns_specified' = patterns_specified /\ re_engine' = re_engine
        /\ explicit_filename_option' = explicit_filename_option
    BY <1>1 DEF Others
  <2>2. SwitchTaken
    BY <1>4, <1>5, <2>1, Switches DEF SwitchTaken
  <2> QED BY <1>4, <1>5, <2>2, Switches DEF PrefixTaken
<1>8. PatternsTaken
  BY <1>1, <1>4, NoPatterns DEF Others
<1> QED BY <1>2, <1>6, <1>7, <1>8 DEF Taken

LEMMA PageCountTaken == ASSUME ParsingInv, PageCount PROVE Taken
<1>1. /\ next \in DOMAIN Line /\ Item = Line[next] /\ Item.opt = "p"
      /\ Took /\ UNCHANGED Others
      /\ options' = [options EXCEPT !.pagecount = TRUE, !.pagenum = TRUE]
  BY AtNext DEF PageCount
<1>2. Moves
  BY <1>1, AtNext DEF PageCount, Moves, ItemNotRead, Informs
<1>3. options \in OptionsType
  BY DEF ParsingInv, ParsingTypeOK
<1>4. ChoiceTaken /\ CountTaken
  BY <1>1, <1>3 DEF ChoiceTaken, CountTaken, OptionsType, Others
<1>5. SwitchTaken /\ PrefixTaken
  BY <1>1, <1>3, Switches DEF SwitchTaken, PrefixTaken, OptionsType, Others
<1> QED BY <1>1, <1>2, <1>4, <1>5, NoPatterns DEF Taken, Others

LEMMA PageNumberTaken == ASSUME ParsingInv, PageNumber, pc' = "options" PROVE Taken
<1>1. /\ AtOption({"page_number", "page_number_type"})
      /\ Item.opt = "page_number" \/ Item.word \in {"index", "label"}
      /\ Took /\ UNCHANGED Others
  BY DEF PageNumber, Fails, Leaves
<1>2. /\ next \in DOMAIN Line /\ Item = Line[next] /\ Moves
      /\ Item.opt \in {"page_number", "page_number_type"}
  <2>1. /\ next \in DOMAIN Line /\ Item = Line[next]
        /\ Item.opt \in {"page_number", "page_number_type"}
        /\ next' = next + 1 /\ pc = "options" /\ pc' = "options"
        /\ UNCHANGED <<start, args, status>>
    BY <1>1, AtNext
  <2> QED BY <1>1, <2>1 DEF Moves, ItemNotRead, Informs
<1>3. PICK k \in {"INDEX", "LABEL"} :
        options' = [options EXCEPT !.pagenum = TRUE, !.pagenum_type = k]
  BY DEF PageNumber, Fails, Leaves
<1>4. options \in OptionsType
  BY DEF ParsingInv, ParsingTypeOK
<1>5. ChoiceTaken /\ CountTaken
  BY <1>1, <1>2, <1>3, <1>4 DEF ChoiceTaken, CountTaken, OptionsType, Others
<1>6. SwitchTaken /\ PrefixTaken
  BY <1>1, <1>2, <1>3, <1>4, Switches DEF SwitchTaken, PrefixTaken, OptionsType, Others
<1> QED BY <1>1, <1>2, <1>5, <1>6, NoPatterns DEF Taken, Others

LEMMA RecursiveTaken == ASSUME ParsingInv, Recursive PROVE Taken
<1>1. /\ next \in DOMAIN Line /\ Item = Line[next] /\ Item.opt \in {"r", "R"}
      /\ Took /\ UNCHANGED Others
      /\ options' = [options EXCEPT !.recursive =
           IF Item.opt = "r" THEN "DONT_FOLLOW_SYMLINKS" ELSE "FOLLOW_SYMLINKS"]
  BY AtNext DEF Recursive, SetRecursion
<1>2. Moves
  BY <1>1, AtNext DEF Recursive, Moves, ItemNotRead, Informs
<1>3. options \in OptionsType
  BY DEF ParsingInv, ParsingTypeOK
<1>4. ChoiceTaken
  <2>1. options'.recursive = Recursions[next]
    BY <1>1, <1>3 DEF OptionsType, Recursions
  <2> QED BY <1>1, <1>3, <2>1 DEF ChoiceTaken, OptionsType, Others
<1>5. CountTaken
  BY <1>1, <1>3 DEF CountTaken, OptionsType
<1>6. SwitchTaken /\ PrefixTaken
  BY <1>1, <1>3, Switches DEF SwitchTaken, PrefixTaken, OptionsType, Others
<1> QED BY <1>1, <1>2, <1>4, <1>5, <1>6, NoPatterns DEF Taken, Others

LEMMA OnlyFilenamesTaken == ASSUME ParsingInv, OnlyFilenames PROVE Taken
<1>1. /\ next \in DOMAIN Line /\ Item = Line[next] /\ Item.opt \in {"l", "L"}
      /\ Took /\ UNCHANGED Others
      /\ options' = [options EXCEPT !.only_filenames =
           IF Item.opt = "l" THEN "WITH_MATCHES" ELSE "WITHOUT_MATCH"]
  BY AtNext DEF OnlyFilenames
<1>2. Moves
  BY <1>1, AtNext DEF OnlyFilenames, Moves, ItemNotRead, Informs
<1>3. options \in OptionsType
  BY DEF ParsingInv, ParsingTypeOK
<1>4. ChoiceTaken
  <2>1. options'.only_filenames = Outputs[next]
    BY <1>1, <1>3 DEF OptionsType, Outputs
  <2> QED BY <1>1, <1>3, <2>1 DEF ChoiceTaken, OptionsType, Others
<1>5. CountTaken
  BY <1>1, <1>3 DEF CountTaken, OptionsType
<1>6. SwitchTaken /\ PrefixTaken
  BY <1>1, <1>3, Switches DEF SwitchTaken, PrefixTaken, OptionsType, Others
<1> QED BY <1>1, <1>2, <1>4, <1>5, <1>6, NoPatterns DEF Taken, Others

LEMMA FilenameTaken == ASSUME ParsingInv, Filename PROVE Taken
<1>1. /\ next \in DOMAIN Line /\ Item = Line[next] /\ Item.opt \in {"h", "H"} /\ Took
      /\ explicit_filename_option' = TRUE
      /\ UNCHANGED <<patterns, patterns_specified, re_engine, use_colors>>
      /\ options' = [options EXCEPT !.filename = (Item.opt = "H")]
  BY AtNext DEF Filename
<1>2. Moves
  BY <1>1, AtNext DEF Filename, Moves, ItemNotRead, Informs
<1>3. options \in OptionsType
  BY DEF ParsingInv, ParsingTypeOK
<1>4. ChoiceTaken /\ CountTaken
  BY <1>1, <1>3 DEF ChoiceTaken, CountTaken, OptionsType
<1>5. SwitchTaken
  BY <1>1, <1>3, Switches DEF SwitchTaken, OptionsType
<1>6. PrefixTaken
  <2>1. options'.filename = Namings[next]
    BY <1>1, <1>3 DEF OptionsType, Namings
  <2> QED BY <1>1, <1>3, <2>1, Switches DEF PrefixTaken, OptionsType
<1> QED BY <1>1, <1>2, <1>4, <1>5, <1>6, NoPatterns DEF Taken

LEMMA ColorTaken == ASSUME ParsingInv, Color, pc' = "options" PROVE Taken
<1>1. /\ AtOption({"color"}) /\ Item.word \in {"always", "never", "auto"}
      /\ Took /\ use_colors' = Item.word
      /\ UNCHANGED <<options, patterns, patterns_specified, re_engine,
                     explicit_filename_option>>
  BY DEF Color, Fails, Leaves
<1>2. /\ next \in DOMAIN Line /\ Item = Line[next] /\ Item.opt \in {"color"} /\ Moves
  <2>1. /\ next \in DOMAIN Line /\ Item = Line[next] /\ Item.opt \in {"color"}
        /\ next' = next + 1 /\ pc = "options" /\ pc' = "options"
        /\ UNCHANGED <<start, args, status>>
    BY <1>1, AtNext
  <2> QED BY <1>1, <2>1 DEF Moves, ItemNotRead, Informs
<1>3. Words[next] = Item.word
  BY <1>2 DEF Words
<1>4. ChoiceTaken /\ CountTaken
  BY <1>1, <1>2, <1>3 DEF ChoiceTaken, CountTaken
<1>5. SwitchTaken /\ PrefixTaken
  BY <1>1, <1>2, Switches DEF SwitchTaken, PrefixTaken
<1> QED BY <1>1, <1>2, <1>4, <1>5, NoPatterns DEF Taken

LEMMA EngineTaken == ASSUME ParsingInv, Engine PROVE Taken
<1>1. /\ next \in DOMAIN Line /\ Item = Line[next] /\ Item.opt \in {"P", "F"} /\ Took
      /\ re_engine' = re_engine \cup {IF Item.opt = "P" THEN "PCRE" ELSE "FIXED"}
      /\ UNCHANGED <<options, patterns, patterns_specified, use_colors,
                     explicit_filename_option>>
  BY AtNext DEF Engine
<1>2. Moves
  BY <1>1, AtNext DEF Engine, Moves, ItemNotRead, Informs
<1>3. ChoiceTaken /\ CountTaken
  BY <1>1 DEF ChoiceTaken, CountTaken
<1>4. SwitchTaken /\ PrefixTaken
  BY <1>1, Switches DEF SwitchTaken, PrefixTaken
<1> QED BY <1>1, <1>2, <1>3, <1>4, NoPatterns DEF Taken

LEMMA ListedTaken == ASSUME ParsingInv, Listed PROVE Taken
<1>1. /\ next \in DOMAIN Line /\ Item = Line[next] /\ Took /\ UNCHANGED Others
      /\ Item.opt \in {"exclude", "include", "password", "prefix_sep"}
  BY AtNext DEF Listed
<1>2. Moves
  BY <1>1, AtNext DEF Listed, Moves, ItemNotRead, Informs
<1>3. options \in OptionsType
  BY DEF ParsingInv, ParsingTypeOK
<1>4. \E k \in {"excludes", "includes", "passwords", "prefix_sep"} :
        \E v : options' = [options EXCEPT ![k] = v]
  <2>1. \/ options' = [options EXCEPT !["excludes"] = <<Item.word>> \o options.excludes]
        \/ options' = [options EXCEPT !["includes"] = <<Item.word>> \o options.includes]
        \/ options' = [options EXCEPT !["passwords"] = Append(options.passwords, Item.word)]
        \/ options' = [options EXCEPT !["prefix_sep"] = Item.word]
    BY DEF Listed
  <2> QED BY <2>1, Zenon
<1>5. /\ options'.recursive = options.recursive /\ options'.max_count = options.max_count
      /\ options'.only_filenames = options.only_filenames
      /\ options'.page_range = options.page_range /\ options'.filename = options.filename
      /\ options'.context_after = options.context_after
      /\ options'.context_before = options.context_before
      /\ options'.count = options.count /\ options'.pagenum = options.pagenum
  BY <1>3, <1>4 DEF OptionsType
<1>6. ChoiceTaken /\ CountTaken
  BY <1>1, <1>5 DEF ChoiceTaken, CountTaken, Others
<1>7. SwitchTaken /\ PrefixTaken
  BY <1>1, <1>5, Switches DEF SwitchTaken, PrefixTaken, Others
<1> QED BY <1>1, <1>2, <1>6, <1>7, NoPatterns DEF Taken, Others

LEMMA NumberTaken == ASSUME ParsingInv, Number, pc' = "options" PROVE Taken
<1>1. AtOption({"m", "A", "B", "C"}) /\ Took /\ UNCHANGED Others
  BY DEF Number, Fails, Leaves
<1>2. PICK v \in Accepted : options' = WithNumber(Item.opt, v)
  BY DEF Number, Fails, Leaves
<1>3. /\ next \in DOMAIN Line /\ Item = Line[next] /\ Item.opt \in {"m", "A", "B", "C"}
      /\ Item \in ItemType /\ next' = next + 1 /\ pc = "options" /\ pc' = "options"
      /\ UNCHANGED <<start, args, status>>
  BY <1>1, AtNext
<1>4. v = NumbersRead[next] /\ ~NumberNotRead(Item)
  <2>1. Item.number \in NumberText /\ Least(Item.opt) \in Nat
    BY <1>3 DEF ItemType, Least
  <2>2. v \in {w \in parse_int(Item.number) : w >= Least(Item.opt)}
    BY <1>2 DEF Accepted
  <2>3. /\ v = ReadAs(Item.number)
        /\ ~(\/ Item.number.junk \/ Item.number.magnitude > ULongMax
             \/ ReadAs(Item.number) < Least(Item.opt) \/ ReadAs(Item.number) > IntMax)
    BY <2>1, <2>2, NumberIsRead
  <2> QED BY <1>3, <2>3 DEF NumbersRead, NumberNotRead, Least
<1>5. Moves
  BY <1>3, <1>4 DEF Moves, ItemNotRead, Informs
<1>6. options \in OptionsType
  BY DEF ParsingInv, ParsingTypeOK
<1>7. ChoiceTaken
  BY <1>1, <1>2, <1>3, <1>6 DEF ChoiceTaken, OptionsType, Others, WithNumber
<1>8. CountTaken
  BY <1>2, <1>3, <1>4, <1>6 DEF CountTaken, OptionsType, WithNumber
<1>9. SwitchTaken /\ PrefixTaken
  <2>1. /\ options'.count = options.count /\ options'.pagenum = options.pagenum
        /\ options'.filename = options.filename
    BY <1>2, <1>6 DEF OptionsType, WithNumber
  <2> QED BY <1>1, <1>3, <2>1, Switches DEF SwitchTaken, PrefixTaken, Others
<1> QED BY <1>1, <1>3, <1>5, <1>7, <1>8, <1>9, NoPatterns DEF Taken, Others

LEMMA PageRangeTaken == ASSUME ParsingInv, PageRange, pc' = "options" PROVE Taken
<1> DEFINE bad == {i \in DOMAIN Item.tokens : Outcome(Item.tokens[i]) # "interval"}
<1>1. /\ AtOption({"page_range"}) /\ Took /\ UNCHANGED Others /\ bad = {}
      /\ options' = [options EXCEPT !.page_range = FromString(Item.tokens)]
  BY DEF PageRange, Fails, Aborts, Leaves
<1>2. /\ next \in DOMAIN Line /\ Item = Line[next] /\ Item.opt \in {"page_range"}
      /\ Item \in ItemType /\ next' = next + 1 /\ pc = "options" /\ pc' = "options"
      /\ UNCHANGED <<start, args, status>>
  BY <1>1, AtNext
<1>3. \A i \in DOMAIN Item.tokens : Item.tokens[i] \in TokenType
  BY <1>2 DEF ItemType
<1>4. \A i \in DOMAIN Item.tokens :
        /\ ~TokenNotRead(Item.tokens[i])
        /\ IntervalOf(Item.tokens[i]) = [from |-> Written(Head(PagesOf(Item.tokens[i]))),
                                         to   |-> Written(Last(PagesOf(Item.tokens[i])))]
  <2> TAKE i \in DOMAIN Item.tokens
  <2>1. Outcome(Item.tokens[i]) = "interval"
    BY <1>1
  <2>2. Item.tokens[i] \in TokenType
    BY <1>3
  <2> QED BY <2>1, <2>2, TokenIsRead
<1>5. Moves
  BY <1>2, <1>4 DEF Moves, ItemNotRead, Informs
<1>6. FromString(Item.tokens) = RangesRead[next]
  <2>1. RangesRead[next] = TokensRead(Item.tokens)
    BY <1>2 DEF RangesRead
  <2> QED BY <1>4, <2>1 DEF FromString, TokensRead
<1>7. options \in OptionsType
  BY DEF ParsingInv, ParsingTypeOK
<1> HIDE DEF bad
<1>8. ChoiceTaken /\ CountTaken
  BY <1>1, <1>2, <1>6, <1>7 DEF ChoiceTaken, CountTaken, OptionsType, Others
<1>9. SwitchTaken /\ PrefixTaken
  <2>1. /\ options'.count = options.count /\ options'.pagenum = options.pagenum
        /\ options'.filename = options.filename
    BY <1>1, <1>7 DEF OptionsType
  <2> QED BY <1>1, <1>2, <2>1, Switches DEF SwitchTaken, PrefixTaken, Others
<1> QED BY <1>1, <1>2, <1>5, <1>8, <1>9, NoPatterns DEF Taken, Others

LEMMA RegexpTaken == ASSUME ParsingInv, Regexp PROVE Taken
<1>1. /\ next \in DOMAIN Line /\ Item = Line[next] /\ Item.opt = "e" /\ Took
      /\ patterns' = Append(patterns, Item.word) /\ patterns_specified' = TRUE
      /\ UNCHANGED <<options, re_engine, use_colors, explicit_filename_option>>
  BY AtNext DEF Regexp
<1>2. Moves
  BY <1>1, AtNext DEF Regexp, Moves, ItemNotRead, Informs
<1>3. ChoiceTaken /\ CountTaken
  BY <1>1 DEF ChoiceTaken, CountTaken
<1>4. SwitchTaken /\ PrefixTaken
  BY <1>1, Switches DEF SwitchTaken, PrefixTaken
<1>5. PatternsTaken
  <2>1. PatternsAt[next] = <<Item.word>>
    BY <1>1 DEF PatternsAt
  <2>2. patterns' = patterns \o <<Item.word>>
    <3>1. patterns \in Seq(Strings) /\ Item.word \in Strings
      BY ItemTyped DEF ParsingInv, ParsingTypeOK, Regexp, ItemType
    <3>2. Append(patterns, Item.word) = patterns \o <<Item.word>>
      BY <3>1
    <3> QED BY <1>1, <3>2
  <2> QED BY <2>1, <2>2 DEF PatternsTaken
<1> QED BY <1>2, <1>3, <1>4, <1>5 DEF Taken

LEMMA PatternFileTaken == ASSUME ParsingInv, PatternFile, pc' = "options" PROVE Taken
<1>1. /\ AtOption({"f"}) /\ Took /\ patterns_specified' = TRUE
      /\ patterns' = patterns \o PatternFiles[Item.word].lines
      /\ PatternFiles[Item.word].opens /\ ~PatternFiles[Item.word].bad
      /\ UNCHANGED <<options, re_engine, use_colors, explicit_filename_option>>
  BY DEF PatternFile, Fails, Leaves
<1>2. /\ next \in DOMAIN Line /\ Item = Line[next] /\ Item.opt \in {"f"}
      /\ next' = next + 1 /\ pc = "options" /\ pc' = "options"
      /\ UNCHANGED <<start, args, status>>
  BY <1>1, AtNext
<1>3. Moves
  BY <1>1, <1>2 DEF Moves, ItemNotRead, Informs
<1>4. ChoiceTaken /\ CountTaken
  BY <1>1, <1>2 DEF ChoiceTaken, CountTaken
<1>5. SwitchTaken /\ PrefixTaken
  BY <1>1, <1>2, Switches DEF SwitchTaken, PrefixTaken
<1>6. PatternsTaken
  BY <1>1, <1>2 DEF PatternsTaken, PatternsAt
<1> QED BY <1>3, <1>4, <1>5, <1>6 DEF Taken

\* An option either is taken, and the loop goes on behind it, or it ends the program.
LEMMA OptionTaken == ASSUME ParsingInv, OptionStep, pc' = "options" PROVE Taken
<1>1. ~HelpOrVersion /\ ~Unknown
  BY DEF HelpOrVersion, Unknown, Fails, Leaves
<1> QED
  BY <1>1, FlagTaken, PageCountTaken, PageNumberTaken, RecursiveTaken, OnlyFilenamesTaken,
     FilenameTaken, ColorTaken, ListedTaken, EngineTaken, NumberTaken, PageRangeTaken,
     RegexpTaken, PatternFileTaken DEF OptionStep

LEMMA SmallestIsOne ==
  ASSUME NEW S \in SUBSET Nat, S # {}
  PROVE  Min(S) \in S /\ \A x \in S : Min(S) <= x
<1>1. PICK m \in S : \A x \in S : m <= x
  BY LeastElement
<1>2. \A x \in S : (\A y \in S : x <= y) => x = m
  BY <1>1
<1> QED BY <1>1, <1>2 DEF Min

\* The first number of a list of pages that is too large for an int.
TooLargeIn(item) ==
  /\ item.opt = "page_range"
  /\ \E j \in DOMAIN item.tokens :
       \E k \in DOMAIN PagesOf(item.tokens[j]) : TooLarge(PagesOf(item.tokens[j])[k])
Ends ==
  /\ next \in DOMAIN Line /\ Item = Line[next] /\ UNCHANGED start /\ pc = "options"
  /\ \/ pc' = "exited" /\ status' = 0 /\ Informs(Item) /\ ~ItemNotRead(Item)
     \/ pc' = "exited" /\ status' = 2 /\ ItemNotRead(Item) /\ ~Informs(Item)
     \/ pc' = "aborted" /\ TooLargeIn(Item)

LEMMA AtOptionIs ==
  ASSUME ParsingInv, NEW names, AtOption(names)
  PROVE  /\ next \in DOMAIN Line /\ Item = Line[next] /\ Item \in ItemType /\ Item.opt \in names
         /\ pc = "options"
BY LineTyped, ItemTyped DEF AtOption, Line, Item

LEMMA FailingEnds ==
  ASSUME ParsingInv, NEW names, AtOption(names), Fails, ItemNotRead(Item),
         "help" \notin names, "V" \notin names
  PROVE  Ends
BY AtOptionIs DEF Ends, Fails, Leaves, Informs

LEMMA NumberEnds == ASSUME ParsingInv, Number, pc' # "options" PROVE Ends
<1>1. AtOption({"m", "A", "B", "C"}) /\ Accepted = {} /\ Fails
  BY DEF Number, Took, AtOption
<1>2. Item \in ItemType /\ Item.opt \in {"m", "A", "B", "C"}
  BY <1>1, AtOptionIs
<1>3. Item.number \in NumberText /\ Least(Item.opt) \in Nat
  BY <1>2 DEF ItemType, Least
<1>4. {v \in parse_int(Item.number) : v >= Least(Item.opt)} = {}
  BY <1>1 DEF Accepted
<1>5. \/ Item.number.junk \/ Item.number.magnitude > ULongMax
      \/ ReadAs(Item.number) < Least(Item.opt) \/ ReadAs(Item.number) > IntMax
  BY <1>3, <1>4, NumberIsRead
<1>6. ItemNotRead(Item)
  BY <1>2, <1>5 DEF ItemNotRead, NumberNotRead, Least
<1> QED BY <1>1, <1>6, FailingEnds

LEMMA PageRangeEnds == ASSUME ParsingInv, PageRange, pc' # "options" PROVE Ends
<1> DEFINE bad == {i \in DOMAIN Item.tokens : Outcome(Item.tokens[i]) # "interval"}
<1>1. /\ AtOption({"page_range"}) /\ bad # {}
      /\ IF Outcome(Item.tokens[Min(bad)]) = "out_of_range" THEN Aborts ELSE Fails
  BY DEF PageRange, Took, AtOption
<1>2. Item \in ItemType /\ Item.opt \in {"page_range"}
  BY <1>1, AtOptionIs
<1>3. Item.tokens \in Seq(TokenType)
  BY <1>2 DEF ItemType
<1>4. bad \in SUBSET Nat /\ \A i \in bad : i \in DOMAIN Item.tokens
  BY <1>3
<1>5. PICK i \in DOMAIN Item.tokens : i = Min(bad) /\ Outcome(Item.tokens[i]) # "interval"
  <2>1. Min(bad) \in bad
    <3> HIDE DEF bad
    <3> QED BY <1>1, <1>4, SmallestIsOne
  <2> QED BY <2>1
<1>6. Item.tokens[i] \in TokenType
  BY <1>3
<1> HIDE DEF bad
<1>7. CASE Outcome(Item.tokens[i]) = "out_of_range"
  <2>1. TooLargeIn(Item)
    <3>1. \E k \in DOMAIN PagesOf(Item.tokens[i]) : TooLarge(PagesOf(Item.tokens[i])[k])
      BY <1>6, <1>7, TokenIsRead
    <3> QED BY <1>2, <3>1 DEF TooLargeIn
  <2> QED BY <1>1, <1>5, <1>7, <2>1, AtOptionIs DEF Ends, Aborts, Leaves
<1>8. CASE Outcome(Item.tokens[i]) # "out_of_range"
  <2>1. TokenNotRead(Item.tokens[i])
    BY <1>5, <1>6, TokenIsRead
  <2>2. ItemNotRead(Item)
    BY <1>2, <2>1 DEF ItemNotRead
  <2>3. Fails
    BY <1>1, <1>5, <1>8
  <2> QED BY <1>1, <2>2, <2>3, FailingEnds
<1> QED BY <1>7, <1>8

LEMMA OptionEnds == ASSUME ParsingInv, OptionStep, pc' # "options" PROVE Ends
<1>1. CASE HelpOrVersion
  <2>1. AtOption({"help", "V"}) /\ Leaves("exited", 0)
    BY <1>1 DEF HelpOrVersion
  <2>2. /\ next \in DOMAIN Line /\ Item = Line[next] /\ pc = "options"
        /\ Item.opt \in {"help", "V"}
    BY <2>1, AtOptionIs
  <2> QED BY <2>1, <2>2 DEF Ends, Leaves, Informs, ItemNotRead
<1>2. CASE Unknown
  <2>1. AtOption({"?"}) /\ Fails
    BY <1>2 DEF Unknown
  <2>2. Item.opt \in {"?"}
    BY <2>1, AtOptionIs
  <2>3. ItemNotRead(Item)
    BY <2>2 DEF ItemNotRead
  <2> QED BY <2>1, <2>3, FailingEnds
<1>3. CASE PageNumber
  <2>1. /\ AtOption({"page_number", "page_number_type"}) /\ Fails
        /\ Item.opt # "page_number" /\ Item.word \notin {"index", "label"}
    BY <1>3 DEF PageNumber, Took, AtOption
  <2>0. Item.opt \in {"page_number", "page_number_type"}
    BY <2>1, AtOptionIs
  <2>2. ItemNotRead(Item)
    BY <2>0, <2>1 DEF ItemNotRead
  <2> QED BY <2>1, <2>2, FailingEnds
<1>4. CASE Color
  <2>1. AtOption({"color"}) /\ Fails /\ Item.word \notin {"always", "never", "auto"}
    BY <1>4 DEF Color, Took, AtOption
  <2>0. Item.opt \in {"color"}
    BY <2>1, AtOptionIs
  <2>2. ItemNotRead(Item)
    BY <2>0, <2>1 DEF ItemNotRead
  <2> QED BY <2>1, <2>2, FailingEnds
<1>5. CASE PatternFile
  <2>1. /\ AtOption({"f"}) /\ Fails
        /\ ~PatternFiles[Item.word].opens \/ PatternFiles[Item.word].bad
    BY <1>5 DEF PatternFile, Took, AtOption
  <2>0. Item.opt \in {"f"}
    BY <2>1, AtOptionIs
  <2>2. ItemNotRead(Item)
    BY <2>0, <2>1 DEF ItemNotRead
  <2> QED BY <2>1, <2>2, FailingEnds
<1>6. \A names : AtOption(names) => pc = "options"
  BY DEF AtOption
<1>7. ~Flag /\ ~PageCount /\ ~Recursive /\ ~OnlyFilenames /\ ~Filename /\ ~Listed /\ ~Engine
      /\ ~Regexp
  BY <1>6 DEF Flag, PageCount, Recursive, OnlyFilenames, Filename, Listed, Engine, Regexp, Took
<1> QED BY <1>1, <1>2, <1>3, <1>4, <1>5, <1>7, NumberEnds, PageRangeEnds DEF OptionStep

-----------------------------------------------------------------------------
\* At any time main() knows what the options it has read say, and no more.
Later == {"patterns", "colors", "settings", "cache", "limit", "files"}
Known ==
  /\ pc = "options" => /\ next \in 1..(Len(Line) + 1)
                       /\ OptionsRead(next) /\ PrefixRead(next)
  /\ pc \in Later => OptionsRead(Len(Line) + 1)
  /\ pc \in {"patterns", "colors", "settings"} => PrefixRead(Len(Line) + 1)

LEMMA ReadsOn ==
  ASSUME ParsingInv, OptionsRead(next), PrefixRead(next), Taken
  PROVE  (OptionsRead(next) /\ PrefixRead(next))'
<1>1. /\ Len(Line) \in Nat /\ DOMAIN Line = 1..Len(Line) /\ next \in 1..Len(Line)
      /\ Item = Line[next] /\ next' = next + 1 /\ start' = start
  BY LineTyped DEF Taken, Moves, Item, Line
<1>2. /\ Line' = Line /\ Recursions' = Recursions /\ Outputs' = Outputs /\ Words' = Words
      /\ RangesRead' = RangesRead /\ NumbersRead' = NumbersRead /\ Namings' = Namings
      /\ PatternsAt' = PatternsAt
  BY <1>1 DEF Line, Recursions, Outputs, Words, RangesRead, NumbersRead, Namings, PatternsAt
<1>0. \A names : /\ SeenIn(Line, next + 1, names) =
                      IF Line[next].opt \in names THEN SeenIn(Line, next, names) \cup {next}
                      ELSE SeenIn(Line, next, names)
                 /\ \A d, v : LastIn(Line, next + 1, names, d, v) =
                      IF Line[next].opt \in names THEN v[next]
                      ELSE LastIn(Line, next, names, d, v)
  <2> HIDE DEF Line
  <2> QED BY <1>1, TakeNext
<1>3. \A names : SeenIn(Line, next + 1, names) =
        IF Item.opt \in names THEN SeenIn(Line, next, names) \cup {next}
        ELSE SeenIn(Line, next, names)
  <2> TAKE names
  <2>1. SeenIn(Line, next + 1, names) =
          IF Line[next].opt \in names THEN SeenIn(Line, next, names) \cup {next}
          ELSE SeenIn(Line, next, names)
    BY <1>0
  <2> QED BY <1>1, <2>1
<1>4. \A names : SeenIn(Line, next + 1, names) # {} <=>
        SeenIn(Line, next, names) # {} \/ Item.opt \in names
  BY <1>3
<1>5. \A names, d, v : LastIn(Line, next + 1, names, d, v) =
        IF Item.opt \in names THEN v[next] ELSE LastIn(Line, next, names, d, v)
  <2> TAKE names
  <2>1. \A d, v : LastIn(Line, next + 1, names, d, v) =
          IF Line[next].opt \in names THEN v[next] ELSE LastIn(Line, next, names, d, v)
    BY <1>0
  <2> QED BY <1>1, <2>1
<1>6. ChoicesRead(next)'
  <2>1. ChoiceTaken /\ ChoicesRead(next)
    BY DEF Taken, OptionsRead
  <2> QED BY <1>1, <1>2, <1>5, <2>1 DEF ChoiceTaken, ChoicesRead
<1>7. CountsRead(next)'
  <2>1. CountTaken /\ CountsRead(next)
    BY DEF Taken, OptionsRead
  <2> QED BY <1>1, <1>2, <1>5, <2>1 DEF CountTaken, CountsRead
<1>8. SwitchesRead(next)'
  <2>1. SwitchTaken /\ SwitchesRead(next)
    BY DEF Taken, OptionsRead
  <2> QED BY <1>1, <1>2, <1>4, <2>1 DEF SwitchTaken, SwitchesRead
<1>9. PrefixRead(next)'
  <2>1. PrefixTaken
    BY DEF Taken
  <2>2. options'.filename = LastIn(Line, next + 1, {"h", "H"}, FALSE, Namings)
    BY <1>5, <2>1, ZenonT(30) DEF PrefixTaken, PrefixRead
  <2>3. options'.pagenum =
          (SeenIn(Line, next + 1, {"n", "p", "page_number", "page_number_type"}) # {})
    BY <1>4, <2>1 DEF PrefixTaken, PrefixRead
  <2> QED BY <1>1, <1>2, <2>2, <2>3 DEF PrefixRead
<1>10. PatternsRead(next)'
  <2>1. PatternsTaken /\ PatternsRead(next)
    BY DEF Taken, OptionsRead
  <2>2. PatternsAt \in Seq(Seq(Strings)) /\ Len(PatternsAt) = Len(Line)
    <3>1. \A i \in 1..Len(Line) : PatternsAt[i] \in Seq(Strings)
      <4> TAKE i \in 1..Len(Line)
      <4>0. Line[i] \in ItemType
        <5>1. Line \in Seq(ItemType)
          BY LineTyped
        <5> QED BY <5>1
      <4>1. Line[i].word \in Strings
        BY <4>0 DEF ItemType
      <4>2. Line[i].opt = "f" => PatternFiles[Line[i].word].lines \in Seq(Strings)
        BY LineTyped, FilesAssumption
      <4> QED BY <1>1, <4>1, <4>2 DEF PatternsAt
    <3>2. PatternsAt = [i \in 1..Len(Line) |-> PatternsAt[i]]
      BY <1>1 DEF PatternsAt
    <3> QED BY <1>1, <3>1, <3>2
  <2>3. /\ SubSeq(PatternsAt, 1, next) = Append(SubSeq(PatternsAt, 1, next - 1), PatternsAt[next])
        /\ SubSeq(PatternsAt, 1, next - 1) \in Seq(Seq(Strings))
        /\ PatternsAt[next] \in Seq(Strings)
    BY <1>1, <2>2
  <2>4. FlattenSeq(SubSeq(PatternsAt, 1, next))
          = FlattenSeq(SubSeq(PatternsAt, 1, next - 1)) \o PatternsAt[next]
    BY <2>3, FlattenAppend
  <2>5. (next + 1) - 1 = next
    BY <1>1
  <2> QED BY <1>1, <1>2, <2>1, <2>4, <2>5 DEF PatternsTaken, PatternsRead
<1> QED BY <1>6, <1>7, <1>8, <1>9, <1>10 DEF OptionsRead

LEMMA KnownInit == Init /\ ParsingInv => Known
<1> SUFFICES ASSUME Init, ParsingInv PROVE Known
  OBVIOUS
<1>1. Len(Line) \in Nat /\ DOMAIN Line = 1..Len(Line)
  BY LineTyped
<1>2. /\ pc = "options" /\ next = 1 /\ patterns = <<>> /\ patterns_specified = FALSE
      /\ options = DefaultOptions
      /\ re_engine = {} /\ use_colors = "auto" /\ explicit_filename_option = FALSE
  BY DEF Init
<1>3. \A names : SeenIn(Line, 1, names) = {} /\ \A d, v : LastIn(Line, 1, names, d, v) = d
  BY <1>1, NothingTaken
<1>4. ChoicesRead(1) /\ CountsRead(1)
  BY <1>2, <1>3 DEF ChoicesRead, CountsRead, DefaultOptions
<1>5. SwitchesRead(1) /\ PrefixRead(1)
  BY <1>2, <1>3, ZenonT(30) DEF SwitchesRead, PrefixRead, DefaultOptions
<1>6. PatternsRead(1)
  <2>1. SubSeq(PatternsAt, 1, 1 - 1) = <<>>
    OBVIOUS
  <2>2. FlattenSeq(SubSeq(PatternsAt, 1, 1 - 1)) = <<>>
    BY <2>1, FlattenEmpty, Zenon
  <2> QED BY <1>2, <2>2 DEF PatternsRead
<1> QED BY <1>1, <1>2, <1>4, <1>5, <1>6 DEF Known, OptionsRead, Later

\* What comes behind the option loop leaves alone what the options have said.
Kept ==
  /\ UNCHANGED <<start, use_colors, patterns, patterns_specified, re_engine,
                 explicit_filename_option>>
  /\ options'.recursive = options.recursive /\ options'.max_count = options.max_count
  /\ options'.only_filenames = options.only_filenames
  /\ options'.page_range = options.page_range /\ options'.count = options.count
  /\ options'.context_after = options.context_after
  /\ options'.context_before = options.context_before
PrefixKept == options'.filename = options.filename /\ options'.pagenum = options.pagenum

LEMMA KeptReads ==
  ASSUME Kept
  PROVE  /\ Line' = Line
         /\ OptionsRead(Len(Line) + 1) => OptionsRead(Len(Line) + 1)'
         /\ PrefixKept /\ PrefixRead(Len(Line) + 1) => PrefixRead(Len(Line) + 1)'
<1>1. /\ Line' = Line /\ Recursions' = Recursions /\ Outputs' = Outputs /\ Words' = Words
      /\ RangesRead' = RangesRead /\ NumbersRead' = NumbersRead /\ Namings' = Namings
      /\ PatternsAt' = PatternsAt
  BY DEF Kept, Line, Recursions, Outputs, Words, RangesRead, NumbersRead, Namings, PatternsAt
<1>2. ASSUME OptionsRead(Len(Line) + 1) PROVE OptionsRead(Len(Line) + 1)'
  BY <1>1, <1>2 DEF Kept, OptionsRead, ChoicesRead, CountsRead, SwitchesRead, PatternsRead
<1>3. ASSUME PrefixKept, PrefixRead(Len(Line) + 1) PROVE PrefixRead(Len(Line) + 1)'
  BY <1>1, <1>3 DEF PrefixKept, PrefixRead
<1> QED BY <1>1, <1>2, <1>3

Stages ==
  CheckUsage \/ MakeEngine \/ ReadPair \/ ColorsDone \/ Settle \/ NoCache \/ FindCache
  \/ CacheLimited

LEMMA StagesKeep ==
  ASSUME ParsingInv, Stages, pc' \notin {"exited", "aborted"}
  PROVE  /\ Kept /\ pc' \in Later /\ (Settle \/ PrefixKept)
         /\ pc \in Later \/ (CheckUsage /\ pc = "options" /\ next > Len(Line))
         /\ pc' \in {"patterns", "colors", "settings"} => ~Settle
         /\ pc' \in {"colors", "settings"} => pc \in {"patterns", "colors"}
<1>1. options \in OptionsType
  BY DEF ParsingInv, ParsingTypeOK
<1>2. CASE CheckUsage
  BY <1>2 DEF CheckUsage, Fails, Leaves, Stage, Kept, PrefixKept, Later, Line, Settle
<1>3. CASE MakeEngine
  BY <1>3 DEF MakeEngine, Aborts, Fails, Leaves, Stage, Kept, PrefixKept, Later, Settle
<1>4. CASE ReadPair
  BY <1>4 DEF ReadPair, Kept, PrefixKept, Later, Settle, Stage
<1>5. CASE ColorsDone
  BY <1>1, <1>5 DEF ColorsDone, Stage, Kept, PrefixKept, Later, Settle, OptionsType
<1>6. CASE Settle
  BY <1>1, <1>6 DEF Settle, Stage, Kept, Later, OptionsType
<1>7. CASE NoCache
  BY <1>1, <1>7 DEF NoCache, Stage, Kept, PrefixKept, Later, Settle, OptionsType
<1>8. CASE FindCache \/ CacheLimited
  BY <1>8 DEF FindCache, CacheLimited, Stage, Kept, PrefixKept, Later, Settle
<1> QED BY <1>2, <1>3, <1>4, <1>5, <1>6, <1>7, <1>8 DEF Stages

LEMMA Idle == ASSUME Over \/ UNCHANGED vars PROVE UNCHANGED vars
BY DEF Over

LEMMA NextIs == Next <=> OptionStep \/ Stages \/ Over
BY DEF Next, Step, Stages

LEMMA KnownStep == ASSUME ParsingInv, Known, [Next]_vars PROVE Known'
<1>1. CASE OptionStep /\ pc' = "options"
  <2>1. Taken
    BY <1>1, OptionTaken
  <2>2. /\ pc = "options" /\ next \in 1..Len(Line) /\ Len(Line) \in Nat /\ next' = next + 1
        /\ Line' = Line
    BY <2>1, LineTyped DEF Taken, Moves, Line
  <2>3. OptionsRead(next) /\ PrefixRead(next)
    BY <2>2 DEF Known
  <2>4. (OptionsRead(next) /\ PrefixRead(next))'
    BY <2>1, <2>3, ReadsOn
  <2>5. next' \in 1..(Len(Line') + 1)
    BY <2>2
  <2> QED BY <1>1, <2>4, <2>5 DEF Known, Later
<1>2. CASE OptionStep /\ pc' # "options"
  BY <1>2, OptionEnds DEF Ends, Known, Later
<1>3. CASE Stages /\ pc' \in {"exited", "aborted"}
  BY <1>3 DEF Known, Later
<1>4. CASE Stages /\ pc' \notin {"exited", "aborted"}
  <2>1. /\ Kept /\ pc' \in Later /\ (Settle \/ PrefixKept)
        /\ pc \in Later \/ (CheckUsage /\ pc = "options" /\ next > Len(Line))
        /\ pc' \in {"patterns", "colors", "settings"} => ~Settle
        /\ pc' \in {"colors", "settings"} => pc \in {"patterns", "colors"}
    BY <1>4, StagesKeep
  <2>2. Len(Line) \in Nat /\ next \in Nat
    BY LineTyped
  <2>3. OptionsRead(Len(Line) + 1)
    BY <2>1, <2>2 DEF Known
  <2>4. pc' \in {"patterns", "colors", "settings"} => PrefixRead(Len(Line) + 1)
    <3>1. pc' = "patterns" => pc = "options"
      <4>1. pc' = "patterns" => CheckUsage
        BY <1>4 DEF Stages, MakeEngine, Fails, Aborts, Leaves, ReadPair, ColorsDone, Settle,
           NoCache, FindCache, CacheLimited, Stage
      <4> QED BY <4>1 DEF CheckUsage
    <3> QED BY <2>1, <2>2, <3>1 DEF Known, Later
  <2>5. Line' = Line /\ OptionsRead(Len(Line) + 1)'
    BY <2>1, <2>3, KeptReads
  <2>6. pc' \in {"patterns", "colors", "settings"} => PrefixRead(Len(Line) + 1)'
    BY <2>1, <2>4, KeptReads
  <2> QED BY <2>1, <2>5, <2>6 DEF Known, Later
<1>5. CASE UNCHANGED vars
  BY <1>5 DEF vars, Known, OptionsRead, ChoicesRead, CountsRead, SwitchesRead, PatternsRead,
     PrefixRead, Line, Recursions, Outputs, Words, RangesRead, NumbersRead, Namings, PatternsAt
<1> QED BY <1>1, <1>2, <1>3, <1>4, <1>5, Idle, NextIs

-----------------------------------------------------------------------------
\* What main() makes of it behind the options: colours, file names, page numbers.
SettledAsSaid ==
  /\ pc \in {"settings", "cache", "limit", "files"} => options.color = Colored
  /\ pc \in {"cache", "limit", "files"} =>
       /\ options.filename =
            IF explicit_filename_option
            THEN LastIn(Line, Len(Line) + 1, {"h", "H"}, FALSE, Namings) ELSE ~OneFile
       /\ options.pagenum =
            (/\ SeenIn(Line, Len(Line) + 1, {"n", "p", "page_number", "page_number_type"}) # {}
             /\ ~options.count)

LEMMA SettledStep ==
  ASSUME ParsingInv, Known, SettledAsSaid, [Next]_vars PROVE SettledAsSaid'
<1>0. options \in OptionsType
  BY DEF ParsingInv, ParsingTypeOK
<1>1. CASE OptionStep
  <2>1. pc' \in {"options", "exited", "aborted"}
    BY <1>1, OptionTaken, OptionEnds DEF Taken, Moves, Ends
  <2> QED BY <2>1 DEF SettledAsSaid
<1>2. CASE CheckUsage \/ MakeEngine \/ ReadPair
  <2>1. pc' \in {"patterns", "colors", "exited", "aborted"}
    BY <1>2 DEF CheckUsage, MakeEngine, ReadPair, Fails, Aborts, Leaves, Stage
  <2> QED BY <2>1 DEF SettledAsSaid
<1>3. CASE ColorsDone
  <2>1. pc' = "settings" /\ options'.color = Colored /\ UNCHANGED <<start, use_colors>>
    BY <1>0, <1>3 DEF ColorsDone, Stage, OptionsType
  <2> QED BY <2>1 DEF SettledAsSaid, Colored
<1>4. CASE Settle
  <2>1. /\ pc = "settings" /\ pc' = "cache" /\ UNCHANGED <<start, use_colors, args,
              explicit_filename_option>>
        /\ options'.color = options.color /\ options'.count = options.count
        /\ options'.pagenum = (options.pagenum /\ ~options.count)
        /\ options'.filename = IF explicit_filename_option THEN options.filename ELSE ~OneFile
    BY <1>0, <1>4 DEF Settle, Stage, OptionsType
  <2>2. options.color = Colored /\ PrefixRead(Len(Line) + 1)
    BY <2>1 DEF SettledAsSaid, Known
  <2>3. Line' = Line /\ Namings' = Namings /\ Colored' = Colored /\ OneFile' = OneFile
    BY <2>1 DEF Line, Namings, Colored, OneFile
  <2> QED BY <2>1, <2>2, <2>3 DEF SettledAsSaid, PrefixRead
<1>5. CASE NoCache \/ FindCache \/ CacheLimited
  <2>1. /\ pc \in {"cache", "limit"}
        /\ UNCHANGED <<start, use_colors, args, explicit_filename_option>>
        /\ options'.color = options.color /\ options'.count = options.count
        /\ options'.pagenum = options.pagenum /\ options'.filename = options.filename
    BY <1>0, <1>5 DEF NoCache, FindCache, CacheLimited, Stage, OptionsType
  <2>2. Line' = Line /\ Namings' = Namings /\ Colored' = Colored /\ OneFile' = OneFile
    BY <2>1 DEF Line, Namings, Colored, OneFile
  <2> QED BY <2>1, <2>2 DEF SettledAsSaid
<1>6. CASE UNCHANGED vars
  BY <1>6 DEF vars, SettledAsSaid, Line, Namings, Colored, OneFile
<1> QED BY <1>1, <1>2, <1>3, <1>4, <1>5, <1>6, Idle, NextIs DEF Stages

\* The colors so far: of several values for a part of the output the last one counts.
LastCounts(part, color, n) ==
  \A i \in PairsFor(part) :
    (i < n /\ \A j \in PairsFor(part) : j < n => j <= i) => colors[color] = Pairs[i].value
AllCount(n) ==
  /\ LastCounts({"mt", "ms", "mc"}, "highlight", n) /\ LastCounts({"fn"}, "filename", n)
  /\ LastCounts({"ln"}, "pagenum", n) /\ LastCounts({"se"}, "separator", n)
ColorsKnown ==
  NoneEmpty =>
    /\ pc = "colors" => AllCount(next)
    /\ (pc \in {"settings", "cache", "limit", "files"} /\ Colored) => AllCount(Len(Pairs) + 1)

LEMMA PairsTyped ==
  ASSUME ParsingInv
  PROVE  /\ Len(Pairs) \in Nat /\ DOMAIN Pairs = 1..Len(Pairs) /\ next \in Nat \ {0}
         /\ colors \in [{"filename", "pagenum", "highlight", "separator"} -> Strings]
<1>1. Pairs \in Seq(ColorType)
  BY SituationsAssumption DEF ParsingInv, Pairs
<1> QED BY <1>1 DEF ParsingInv, ParsingTypeOK

\* The next pair sets the color of its part, and no other.
LEMMA PairCounts ==
  ASSUME ParsingInv, NoneEmpty, ReadPair, NEW part \in SUBSET ColorNames,
         NEW color \in {"filename", "pagenum", "highlight", "separator"},
         \A name \in ColorNames : ColorOf[name] = color <=> name \in part,
         LastCounts(part, color, next)
  PROVE  LastCounts(part, color, next)'
<1>1. /\ Len(Pairs) \in Nat /\ DOMAIN Pairs = 1..Len(Pairs) /\ next \in Nat \ {0}
      /\ colors \in [{"filename", "pagenum", "highlight", "separator"} -> Strings]
  BY PairsTyped
<1> DEFINE open == {j \in next..Len(Pairs) : ~Pairs[j].empty}
<1>2. next \in DOMAIN Pairs /\ ~Pairs[next].empty
  <2>1. \E j \in next..Len(Pairs) : ~Pairs[j].empty
    BY DEF ReadPair, MorePairs
  <2> QED BY <1>1, <2>1 DEF NoneEmpty
<1>3. Min(open) = next
  <2>1. open \in SUBSET Nat /\ next \in open /\ \A j \in open : next <= j
    BY <1>1, <1>2
  <2> HIDE DEF open
  <2>2. Min(open) \in open /\ \A j \in open : Min(open) <= j
    BY <2>1, SmallestIsOne
  <2>3. Min(open) \in Nat /\ next \in Nat
    BY <2>1, <2>2
  <2>4. Min(open) <= next /\ next <= Min(open)
    BY <2>1, <2>2
  <2> QED BY <2>3, <2>4
<1>4. /\ colors' = IF Pairs[next].name \in ColorNames
                   THEN [colors EXCEPT ![ColorOf[Pairs[next].name]] = Pairs[next].value]
                   ELSE colors
      /\ next' = NextPair(next) /\ UNCHANGED start
  BY <1>3 DEF ReadPair
<1>5. next' = next + 1
  BY <1>4 DEF NextPair
<1>6. Pairs' = Pairs /\ PairsFor(part)' = PairsFor(part)
  BY <1>4 DEF Pairs, PairsFor
<1>7. PairsFor(part) \subseteq 1..Len(Pairs)
  BY <1>1 DEF PairsFor
<1> HIDE DEF open
<1>8. ASSUME Pairs[next].name \in part PROVE LastCounts(part, color, next)'
  <2>1. next \in PairsFor(part)
    BY <1>2, <1>8 DEF PairsFor
  <2>2. colors'[color] = Pairs[next].value
    BY <1>1, <1>4, <1>8
  <2>3. \A i \in PairsFor(part) :
          (i < next + 1 /\ \A j \in PairsFor(part) : j < next + 1 => j <= i) => i = next
    BY <1>1, <1>7, <2>1
  <2> QED BY <1>5, <1>6, <2>2, <2>3 DEF LastCounts
<1>9. ASSUME Pairs[next].name \notin part PROVE LastCounts(part, color, next)'
  <2>1. next \notin PairsFor(part)
    BY <1>9 DEF PairsFor
  <2>2. colors'[color] = colors[color]
    BY <1>1, <1>4, <1>9
  <2>3. \A i \in PairsFor(part) : i < next + 1 <=> i < next
    BY <1>1, <1>7, <2>1
  <2> QED BY <1>5, <1>6, <2>2, <2>3 DEF LastCounts
<1> QED BY <1>8, <1>9

LEMMA ColorsStep == ASSUME ParsingInv, ColorsKnown, [Next]_vars PROVE ColorsKnown'
<1>1. CASE OptionStep
  <2>1. pc' \in {"options", "exited", "aborted"}
    BY <1>1, OptionTaken, OptionEnds DEF Taken, Moves, Ends
  <2> QED BY <2>1 DEF ColorsKnown
<1>2. CASE CheckUsage
  <2>1. pc' \in {"patterns", "exited", "aborted"}
    BY <1>2 DEF CheckUsage, Fails, Aborts, Leaves, Stage
  <2> QED BY <2>1 DEF ColorsKnown
<1>3. CASE MakeEngine
  <2>1. pc' \in {"exited", "aborted"} \/ (pc' = "colors" /\ next' = 1 /\ UNCHANGED start)
    BY <1>3 DEF MakeEngine, Fails, Aborts, Leaves, Stage
  <2>2. CASE pc' \in {"exited", "aborted"}
    BY <2>2 DEF ColorsKnown
  <2>3. CASE pc' = "colors" /\ next' = 1 /\ UNCHANGED start
    <3>1. \A part : \A i \in PairsFor(part) : ~(i < 1)
      BY PairsTyped DEF PairsFor
    <3>2. \A part : PairsFor(part)' = PairsFor(part)
      BY <2>3 DEF PairsFor, Pairs
    <3>3. \A part, color : LastCounts(part, color, next)'
      BY <2>3, <3>1, <3>2 DEF LastCounts
    <3> QED BY <2>3, <3>3 DEF ColorsKnown, AllCount
  <2> QED BY <2>1, <2>2, <2>3
<1>4. CASE ReadPair
  <2>1. pc = "colors" /\ pc' = "colors" /\ (NoneEmpty' <=> NoneEmpty)
    BY <1>4 DEF ReadPair, NoneEmpty, Pairs
  <2>2. ASSUME NoneEmpty PROVE AllCount(next)'
    <3>1. AllCount(next)
      BY <2>1, <2>2 DEF ColorsKnown
    <3>2. /\ {"mt", "ms", "mc"} \in SUBSET ColorNames /\ {"fn"} \in SUBSET ColorNames
          /\ {"ln"} \in SUBSET ColorNames /\ {"se"} \in SUBSET ColorNames
      BY DEF ColorNames
    <3>3. \A name \in ColorNames :
            /\ ColorOf[name] = "highlight" <=> name \in {"mt", "ms", "mc"}
            /\ ColorOf[name] = "filename" <=> name \in {"fn"}
            /\ ColorOf[name] = "pagenum" <=> name \in {"ln"}
            /\ ColorOf[name] = "separator" <=> name \in {"se"}
      BY DEF ColorNames, ColorOf
    <3>4. LastCounts({"mt", "ms", "mc"}, "highlight", next)'
      BY <1>4, <2>2, <3>1, <3>2, <3>3, PairCounts DEF AllCount
    <3>5. LastCounts({"fn"}, "filename", next)'
      BY <1>4, <2>2, <3>1, <3>2, <3>3, PairCounts DEF AllCount
    <3>6. LastCounts({"ln"}, "pagenum", next)'
      BY <1>4, <2>2, <3>1, <3>2, <3>3, PairCounts DEF AllCount
    <3>7. LastCounts({"se"}, "separator", next)'
      BY <1>4, <2>2, <3>1, <3>2, <3>3, PairCounts DEF AllCount
    <3> QED BY <3>4, <3>5, <3>6, <3>7 DEF AllCount
  <2> QED BY <2>1, <2>2 DEF ColorsKnown
<1>5. CASE ColorsDone
  <2>1. /\ pc = "colors" /\ pc' = "settings" /\ ~MorePairs
        /\ UNCHANGED <<start, next, colors, use_colors>>
    BY <1>5 DEF ColorsDone, Stage
  <2>2. ASSUME NoneEmpty, Colored PROVE AllCount(Len(Pairs) + 1)
    <3>1. /\ Len(Pairs) \in Nat /\ DOMAIN Pairs = 1..Len(Pairs) /\ next \in Nat \ {0}
      BY PairsTyped
    <3>2. next > Len(Pairs)
      BY <2>1, <2>2, <3>1 DEF MorePairs, NoneEmpty
    <3>3. \A part : \A i \in PairsFor(part) : i < next /\ i < Len(Pairs) + 1
      BY <3>1, <3>2 DEF PairsFor
    <3>4. AllCount(next)
      BY <2>1, <2>2 DEF ColorsKnown
    <3>5. \A part, color : LastCounts(part, color, next) => LastCounts(part, color, Len(Pairs) + 1)
      BY <3>3 DEF LastCounts
    <3> QED BY <3>4, <3>5 DEF AllCount
  <2>3. /\ Pairs' = Pairs /\ NoneEmpty' = NoneEmpty /\ Colored' = Colored
        /\ AllCount(Len(Pairs) + 1) => AllCount(Len(Pairs) + 1)'
    BY <2>1 DEF Pairs, NoneEmpty, Colored, AllCount, LastCounts, PairsFor
  <2> QED BY <2>1, <2>2, <2>3 DEF ColorsKnown
<1>6. CASE Settle \/ NoCache \/ FindCache \/ CacheLimited
  <2>1. /\ pc \in {"settings", "cache", "limit"} /\ UNCHANGED <<start, colors, use_colors>>
        /\ pc' # "colors"
    BY <1>6 DEF Settle, NoCache, FindCache, CacheLimited, Stage
  <2>2. /\ NoneEmpty' = NoneEmpty /\ Colored' = Colored
        /\ AllCount(Len(Pairs) + 1) => AllCount(Len(Pairs) + 1)'
    BY <2>1 DEF Pairs, NoneEmpty, Colored, AllCount, LastCounts, PairsFor
  <2> QED BY <2>1, <2>2 DEF ColorsKnown
<1>7. CASE UNCHANGED vars
  BY <1>7 DEF vars, ColorsKnown, NoneEmpty, Colored, AllCount, LastCounts, PairsFor, Pairs
<1> QED BY <1>1, <1>2, <1>3, <1>4, <1>5, <1>6, <1>7, Idle, NextIs DEF Stages

ReadingInv == ParsingInv /\ Known /\ SettledAsSaid /\ ColorsKnown

LEMMA ReadingInit == Init => ReadingInv
<1>1. Init => SettledAsSaid /\ ColorsKnown
  BY DEF Init, SettledAsSaid, ColorsKnown
<1> QED BY <1>1, ParsingInit, KnownInit DEF ReadingInv

LEMMA ReadingStep == ReadingInv /\ [Next]_vars => ReadingInv'
BY ParsingStep, KnownStep, SettledStep, ColorsStep DEF ReadingInv

LEMMA GivenIsSeen ==
  ASSUME ParsingInv, NEW names
  PROVE  SeenIn(Line, Len(Line) + 1, names) = Given(names)
<1>1. Len(Line) \in Nat /\ DOMAIN Line = 1..Len(Line)
  BY LineTyped
<1>2. SeenIn(Line, Len(Line) + 1, names) = {i \in DOMAIN Line : Line[i].opt \in names}
  <2> HIDE DEF Line
  <2> QED BY <1>1, AllTaken
<1> QED BY <1>2 DEF Given

LEMMA GreatestOfMany ==
  ASSUME NEW n \in Nat, NEW S \in SUBSET (1..n), S # {}
  PROVE  Max(S) \in S /\ \A x \in S : x <= Max(S)
<1> DEFINE D == {d \in Nat : n - d \in S}
<1>1. \A x \in S : n - x \in D
  BY Zenon, SMT
<1>2. D \in SUBSET Nat /\ D # {}
  BY <1>1
<1>3. PICK d \in D : \A e \in D : d <= e
  <2> HIDE DEF D
  <2> QED BY <1>2, LeastElement
<1>4. n - d \in S /\ d \in Nat
  BY <1>3
<1>5. \A x \in S : x <= n - d
  BY <1>1, <1>3, <1>4
<1>6. Max(S) = n - d
  BY <1>4, <1>5, GreatestIs
<1> QED BY <1>4, <1>5, <1>6

LEMMA LastIsIn ==
  ASSUME ParsingInv, NEW names, Given(names) # {}
  PROVE  Max(Given(names)) \in DOMAIN Line /\ Line[Max(Given(names))].opt \in names
<1>1. Len(Line) \in Nat /\ DOMAIN Line = 1..Len(Line)
  BY LineTyped
<1>2. Given(names) \in SUBSET (1..Len(Line))
  BY <1>1 DEF Given
<1>3. Max(Given(names)) \in Given(names)
  BY <1>1, <1>2, GreatestOfMany
<1> QED BY <1>3 DEF Given

\* Of options that contradict each other, and of colors for the same part of the
\* output, the last one counts.
THEOREM LastOneWins == Spec => []LaterOptionsWin
<1>1. ReadingInv => LaterOptionsWin
  <2> SUFFICES ASSUME ReadingInv, pc = "files" PROVE LaterOptionsWin
    BY DEF LaterOptionsWin, OptionsWin, ColorsLikeGrep, Searches
  <2> DEFINE n == Len(Line) + 1
  <2>1. ParsingInv /\ OptionsRead(n) /\ SettledAsSaid /\ ColorsKnown
    BY DEF ReadingInv, Known, Later
  <2>2. \A names : SeenIn(Line, n, names) = Given(names)
    BY <2>1, GivenIsSeen
  <2> HIDE DEF n
  <2>3. \A names, d, v : LastIn(Line, n, names, d, v) =
          IF Given(names) = {} THEN d ELSE v[Max(Given(names))]
    BY <2>2 DEF LastIn
  <2>4. \A names : Given(names) # {} =>
          Max(Given(names)) \in DOMAIN Line /\ Line[Max(Given(names))].opt \in names
    BY <2>1, LastIsIn
  <2>5. /\ options.recursive =
             IF Given({"r", "R"}) = {} THEN "NONE"
             ELSE IF LastGiven({"r", "R"}).opt = "r" THEN "DONT_FOLLOW_SYMLINKS"
             ELSE "FOLLOW_SYMLINKS"
        /\ options.only_filenames =
             IF Given({"l", "L"}) = {} THEN "NOPE"
             ELSE IF LastGiven({"l", "L"}).opt = "l" THEN "WITH_MATCHES" ELSE "WITHOUT_MATCH"
    BY <2>1, <2>3, <2>4 DEF OptionsRead, ChoicesRead, Recursions, Outputs, LastGiven
  <2>6. options.filename =
             IF Given({"h", "H"}) # {} THEN LastGiven({"h", "H"}).opt = "H"
             ELSE Len(args) # 1 \/ Head(args) \in Directories
    <3>1. explicit_filename_option <=> Given({"h", "H"}) # {}
      BY <2>1, <2>2 DEF OptionsRead, SwitchesRead
    <3>2. options.filename = IF explicit_filename_option
                             THEN LastIn(Line, n, {"h", "H"}, FALSE, Namings) ELSE ~OneFile
      BY <2>1 DEF SettledAsSaid, n
    <3>3. CASE Given({"h", "H"}) # {}
      <4>1. LastIn(Line, n, {"h", "H"}, FALSE, Namings) = Namings[Max(Given({"h", "H"}))]
        BY <2>3, <3>3
      <4>2. Namings[Max(Given({"h", "H"}))] = (LastGiven({"h", "H"}).opt = "H")
        BY <2>4, <3>3 DEF Namings, LastGiven
      <4>3. options.filename = (LastGiven({"h", "H"}).opt = "H")
        BY <3>1, <3>2, <3>3, <4>1, <4>2
      <4> QED BY <3>3, <4>3
    <3>4. CASE Given({"h", "H"}) = {}
      BY <3>1, <3>2, <3>4 DEF OneFile
    <3> QED BY <3>3, <3>4
  <2>7. /\ options.max_count =
             IF Given({"m"}) = {} THEN 0 ELSE ReadAs(LastGiven({"m"}).number)
        /\ options.context_after =
             IF Given({"A", "C"}) = {} THEN 0 ELSE ReadAs(LastGiven({"A", "C"}).number)
        /\ options.context_before =
             IF Given({"B", "C"}) = {} THEN 0 ELSE ReadAs(LastGiven({"B", "C"}).number)
    BY <2>1, <2>3, <2>4 DEF OptionsRead, CountsRead, NumbersRead, LastGiven
  <2>8. options.page_range =
          IF Given({"page_range"}) = {} THEN <<>>
          ELSE [i \in DOMAIN LastGiven({"page_range"}).tokens |->
                 LET pages == PagesOf(LastGiven({"page_range"}).tokens[i])
                 IN  [from |-> Written(Head(pages)), to |-> Written(Last(pages))]]
    BY <2>1, <2>3, <2>4 DEF OptionsRead, ChoicesRead, RangesRead, TokensRead, LastGiven
  <2>9. options.pagenum =
          (Given({"n", "p", "page_number", "page_number_type"}) # {} /\ Given({"c"}) = {})
    <3>1. options.count <=> Given({"c"}) # {}
      BY <2>1, <2>2 DEF OptionsRead, SwitchesRead
    <3>2. options.pagenum =
            (/\ SeenIn(Line, n, {"n", "p", "page_number", "page_number_type"}) # {}
             /\ ~options.count)
      BY <2>1 DEF SettledAsSaid, n
    <3> QED BY <2>2, <3>1, <3>2
  <2>10. options.color =
           LET when == IF Given({"color"}) = {} THEN "auto" ELSE LastGiven({"color"}).word
           IN  when = "always" \/ (when = "auto" /\ start.tty)
    <3>1. use_colors = IF Given({"color"}) = {} THEN "auto" ELSE LastGiven({"color"}).word
      BY <2>1, <2>3, <2>4 DEF OptionsRead, ChoicesRead, Words, LastGiven
    <3> QED BY <2>1, <3>1 DEF SettledAsSaid, Colored
  <2>11. OptionsWin
    BY <2>5, <2>6, <2>7, <2>8, <2>9, <2>10 DEF OptionsWin
  <2>12. ColorsLikeGrep
    <3> SUFFICES ASSUME Colored, NoneEmpty PROVE ColorsLikeGrep
      BY DEF ColorsLikeGrep
    <3>1. AllCount(Len(Pairs) + 1)
      BY <2>1 DEF ColorsKnown
    <3>2. ASSUME NEW part, NEW color, PairsFor(part) # {},
                 LastCounts(part, color, Len(Pairs) + 1)
          PROVE  colors[color] = Pairs[Max(PairsFor(part))].value
      <4>1. Len(Pairs) \in Nat /\ DOMAIN Pairs = 1..Len(Pairs)
        BY <2>1, PairsTyped
      <4>2. PairsFor(part) \in SUBSET (1..Len(Pairs))
        BY <4>1 DEF PairsFor
      <4>3. /\ Max(PairsFor(part)) \in PairsFor(part)
            /\ \A j \in PairsFor(part) : j <= Max(PairsFor(part))
        BY <3>2, <4>1, <4>2, GreatestOfMany
      <4>4. Max(PairsFor(part)) < Len(Pairs) + 1
        BY <4>1, <4>2, <4>3
      <4> QED BY <3>2, <4>3, <4>4 DEF LastCounts
    <3> QED BY <3>1, <3>2 DEF AllCount, ColorsLikeGrep
  <2> QED BY <2>11, <2>12 DEF LaterOptionsWin
<1> QED BY <1>1, ReadingInit, ReadingStep, PTL DEF Spec

-----------------------------------------------------------------------------
LEMMA OptionLeaves ==
  ASSUME ParsingInv, OptionStep, pc' # "options"
  PROVE  \E how, code : Leaves(how, code)
<1>1. \A names : AtOption(names) => pc = "options"
  BY DEF AtOption
<1>2. Took => pc' = pc
  BY DEF Took
<1> QED
  BY <1>1, <1>2 DEF OptionStep, HelpOrVersion, Unknown, Flag, PageCount, PageNumber, Recursive,
     OnlyFilenames, Filename, Color, Listed, Engine, Number, PageRange, Regexp, PatternFile,
     Fails, Aborts

\* The arguments: the engine gets those of -e and -f or else the first one.
ArgumentsCount ==
  /\ ~patterns_specified => patterns = <<>>
  /\ pc \in {"options", "patterns"} => args = start.args
  /\ pc \in {"colors", "settings", "cache", "limit", "files"} =>
       IF patterns = <<>>
       THEN /\ start.args # <<>> /\ re.patterns = <<Head(start.args)>>
            /\ args = Tail(start.args)
       ELSE re.patterns = patterns /\ args = start.args

LEMMA ArgumentsStep == ASSUME ParsingInv, ArgumentsCount, [Next]_vars PROVE ArgumentsCount'
<1>1. CASE OptionStep
  <2>1. pc = "options" /\ pc' \in {"options", "exited", "aborted"}
    BY <1>1, OptionTaken, OptionEnds DEF Taken, Moves, Ends
  <2>2. pc' = "options" => UNCHANGED <<start, args>>
    BY <1>1, OptionTaken DEF Taken, Moves
  <2>3. CASE pc' = "options"
    <3>1. /\ next \in DOMAIN Line /\ Item = Line[next] /\ patterns' = patterns \o PatternsAt[next]
          /\ patterns_specified' = (patterns_specified \/ Item.opt \in {"e", "f"})
      BY <1>1, <2>3, OptionTaken DEF Taken, Moves, PatternsTaken, SwitchTaken, Item, Line
    <3>2. Item.opt \notin {"e", "f"} => PatternsAt[next] = <<>>
      BY <3>1 DEF PatternsAt
    <3>3. <<>> \o <<>> = <<>>
      OBVIOUS
    <3>4. ~patterns_specified' => patterns' = <<>>
      BY <3>1, <3>2, <3>3, Zenon DEF ArgumentsCount
    <3> QED BY <2>1, <2>2, <2>3, <3>4 DEF ArgumentsCount
  <2>4. CASE pc' # "options"
    <3>1. UNCHANGED <<patterns, patterns_specified>>
      BY <1>1, <2>4, OptionLeaves DEF Leaves
    <3> QED BY <2>1, <2>4, <3>1 DEF ArgumentsCount
  <2> QED BY <2>3, <2>4
<1>2. CASE CheckUsage
  <2>1. /\ pc = "options" /\ pc' \in {"patterns", "exited", "aborted"}
        /\ UNCHANGED <<start, args, patterns, patterns_specified>>
    BY <1>2 DEF CheckUsage, Fails, Leaves, Stage
  <2> QED BY <2>1 DEF ArgumentsCount
<1>3. CASE MakeEngine
  <2>1. /\ pc = "patterns" /\ args = start.args /\ args \in Seq(Strings)
    BY <1>3 DEF MakeEngine, ArgumentsCount, ParsingInv, ParsingTypeOK
  <2>2. \/ pc' \in {"exited", "aborted"}
        \/ /\ pc' = "colors" /\ UNCHANGED <<start, patterns>>
           /\ ~(patterns = <<>> /\ args = <<>>)
           /\ re' = [engine |-> EngineName, ignore_case |-> options.ignore_case,
                     patterns |-> IF patterns = <<>> THEN <<Head(args)>> ELSE patterns]
           /\ args' = IF patterns = <<>> THEN Tail(args) ELSE args
    BY <1>3 DEF MakeEngine, Aborts, Fails, Leaves, Stage, TakesArgument, ArgumentsLeft
  <2>3. pc' = "colors" =>
          re'.patterns = IF patterns = <<>> THEN <<Head(args)>> ELSE patterns
    BY <2>2
  <2>4. UNCHANGED <<patterns, patterns_specified>>
    BY <1>3 DEF MakeEngine, Aborts, Fails, Leaves, Stage
  <2> QED BY <2>1, <2>2, <2>3, <2>4 DEF ArgumentsCount
<1>4. CASE ReadPair \/ ColorsDone \/ Settle \/ NoCache \/ FindCache \/ CacheLimited
  <2>1. /\ pc \in {"colors", "settings", "cache", "limit"}
        /\ pc' \in {"colors", "settings", "cache", "limit", "files"}
        /\ UNCHANGED <<start, args, re, patterns, patterns_specified>>
    BY <1>4 DEF ReadPair, ColorsDone, Settle, NoCache, FindCache, CacheLimited, Stage
  <2> QED BY <2>1 DEF ArgumentsCount
<1>5. CASE UNCHANGED vars
  BY <1>5 DEF vars, ArgumentsCount
<1> QED BY <1>1, <1>2, <1>3, <1>4, <1>5, Idle, NextIs DEF Stages

LEMMA PatternsAreGiven ==
  ASSUME ParsingInv, PatternsRead(Len(Line) + 1)
  PROVE  patterns = GivenPatterns
<1>1. Len(Line) \in Nat /\ DOMAIN Line = 1..Len(Line)
  BY LineTyped
<1>2. SubSeq(PatternsAt, 1, (Len(Line) + 1) - 1) = PatternsAt
  <2>1. (Len(Line) + 1) - 1 = Len(Line)
    BY <1>1
  <2>2. PatternsAt = [i \in 1..Len(Line) |-> PatternsAt[i]]
    BY <1>1 DEF PatternsAt
  <2>3. SubSeq(PatternsAt, 1, Len(Line)) = PatternsAt
    BY <1>1, <2>2
  <2> QED BY <2>1, <2>3
<1> QED BY <1>2 DEF PatternsRead, PatternsAt, GivenPatterns

\* No argument is lost: those of -e and the lines of the files of -f, in their order,
\* or else the first argument, are the patterns, and the others are searched.
THEOREM NothingIsLost == Spec => []EveryArgumentCounts
<1>1. ReadingInv /\ ArgumentsCount => EveryArgumentCounts
  <2> SUFFICES ASSUME ReadingInv, ArgumentsCount, pc = "files", ~EmptyList
               PROVE  IF Given({"e", "f"}) # {}
                      THEN re.patterns = GivenPatterns /\ args = start.args
                      ELSE re.patterns \o args = start.args /\ Len(re.patterns) = 1
    BY DEF EveryArgumentCounts, Searches
  <2>1. ParsingInv /\ OptionsRead(Len(Line) + 1)
    BY DEF ReadingInv, Known, Later
  <2>2. patterns = GivenPatterns
    BY <2>1, PatternsAreGiven DEF OptionsRead
  <2>3. patterns_specified <=> Given({"e", "f"}) # {}
    BY <2>1, GivenIsSeen DEF OptionsRead, SwitchesRead
  <2>4. IF patterns = <<>>
        THEN start.args # <<>> /\ re.patterns = <<Head(start.args)>> /\ args = Tail(start.args)
        ELSE re.patterns = patterns /\ args = start.args
    BY DEF ArgumentsCount
  <2>5. CASE Given({"e", "f"}) # {}
    BY <2>2, <2>4, <2>5 DEF EmptyList
  <2>6. CASE Given({"e", "f"}) = {}
    <3>1. patterns = <<>>
      BY <2>3, <2>6 DEF ArgumentsCount
    <3>2. start.args # <<>> /\ re.patterns = <<Head(start.args)>> /\ args = Tail(start.args)
      BY <2>4, <3>1
    <3>3. start.args \in Seq(Strings)
      BY <2>1, LineTyped
    <3>4. <<Head(start.args)>> \o Tail(start.args) = start.args
      BY <3>2, <3>3
    <3> QED BY <2>6, <3>2, <3>4
  <2> QED BY <2>5, <2>6
<1>2. Init => ArgumentsCount
  BY DEF Init, ArgumentsCount
<1>3. ReadingInv /\ ArgumentsCount /\ [Next]_vars => (ReadingInv /\ ArgumentsCount)'
  BY ReadingStep, ArgumentsStep DEF ReadingInv
<1> QED BY <1>1, <1>2, <1>3, ReadingInit, PTL DEF Spec

-----------------------------------------------------------------------------
\* How far the judgement of the command line has come.
Uncaught ==
  \/ \E i \in Given({"page_range"}) : \E j \in DOMAIN Line[i].tokens :
       \E k \in DOMAIN PagesOf(Line[i].tokens[j]) : TooLarge(PagesOf(Line[i].tokens[j])[k])
  \/ EmptyList /\ start.args = <<>>
Clash == Given({"P"}) # {} /\ Given({"F"}) # {}
Missing ==
  Len(start.args) < (IF Given({"e", "f"}) = {} THEN 1 ELSE 0)
                    + (IF Given({"r", "R"}) = {} THEN 1 ELSE 0)
Unusable ==
  /\ Given({"F"}) = {}
  /\ \/ Range(GivenPatterns) \cap Malformed # {}
     \/ /\ Given({"e", "f"}) = {} \/ GivenPatterns = <<>>
        /\ start.args # <<>> /\ Head(start.args) \in Malformed
LineNotRead == Missing \/ Clash \/ Unusable
Verdict ==
  IF Deciding = {} THEN (IF LineNotRead THEN 2 ELSE 1)
  ELSE IF Informs(Line[Min(Deciding)]) THEN 0 ELSE 2
Judged ==
  /\ pc = "options" => \A i \in Deciding : i >= next
  /\ pc \in Later => Deciding = {}
  /\ pc = "patterns" => ~Missing /\ ~Clash
  /\ pc \in {"colors", "settings", "cache", "limit", "files"} => ~LineNotRead
  /\ pc = "exited" => status = Verdict
  /\ pc = "aborted" => Uncaught

LEMMA SameVerdict ==
  ASSUME UNCHANGED start
  PROVE  /\ Line' = Line /\ Deciding' = Deciding /\ Verdict' = Verdict /\ Missing' = Missing
         /\ Clash' = Clash /\ LineNotRead' = LineNotRead /\ Uncaught' = Uncaught
<1>1. /\ Line' = Line /\ Deciding' = Deciding /\ GivenPatterns' = GivenPatterns
      /\ \A names : Given(names)' = Given(names)
  BY DEF Line, Deciding, GivenPatterns, Given
<1>2. /\ Missing' = Missing /\ Clash' = Clash /\ LineNotRead' = LineNotRead
      /\ Uncaught' = Uncaught
  BY <1>1 DEF Missing, Clash, Unusable, LineNotRead, Uncaught, EmptyList
<1> QED BY <1>1, <1>2 DEF Verdict

LEMMA OptionJudged == ASSUME ParsingInv, Judged, OptionStep PROVE Judged'
<1>1. CASE pc' = "options"
  <2>1. /\ pc = "options" /\ next \in 1..Len(Line) /\ next' = next + 1 /\ UNCHANGED start
        /\ ~ItemNotRead(Line[next]) /\ ~Informs(Line[next])
    BY <1>1, OptionTaken, LineTyped DEF Taken, Moves, Item, Line
  <2>2. Len(Line) \in Nat /\ DOMAIN Line = 1..Len(Line)
    BY LineTyped
  <2>3. \A i \in Deciding : i \in 1..Len(Line) /\ i # next /\ i >= next
    BY <2>1, <2>2 DEF Judged, Deciding
  <2>4. \A i \in Deciding : i >= next + 1
    BY <2>1, <2>2, <2>3
  <2>5. Deciding' = Deciding
    BY <2>1, SameVerdict
  <2> QED BY <1>1, <2>1, <2>4, <2>5 DEF Judged, Later
<1>2. CASE pc' # "options"
  <2>1. Ends
    BY <1>2, OptionEnds
  <2>2. /\ next \in DOMAIN Line /\ Item = Line[next] /\ UNCHANGED start /\ pc = "options"
        /\ \A i \in Deciding : i >= next
    BY <2>1 DEF Ends, Judged
  <2>3. Verdict' = Verdict /\ Uncaught' = Uncaught
    BY <2>2, SameVerdict
  <2>4. ASSUME next \in Deciding PROVE Min(Deciding) = next
    <3>1. Deciding \in SUBSET Nat /\ Deciding # {}
      BY <2>4, LineTyped DEF Deciding
    <3>2. Min(Deciding) \in Deciding /\ Min(Deciding) <= next
      BY <2>4, <3>1, SmallestIsOne
    <3>3. Min(Deciding) \in Nat /\ next \in Nat /\ Min(Deciding) >= next
      BY <2>2, <2>4, <3>1, <3>2
    <3> QED BY <3>2, <3>3
  <2>5. CASE pc' = "exited" /\ status' = 0 /\ Informs(Item) /\ ~ItemNotRead(Item)
    <3>1. next \in Deciding
      BY <2>2, <2>5 DEF Deciding
    <3>2. Verdict = 0
      BY <2>2, <2>4, <2>5, <3>1 DEF Verdict
    <3> QED BY <2>3, <2>5, <3>2 DEF Judged, Later
  <2>6. CASE pc' = "exited" /\ status' = 2 /\ ItemNotRead(Item) /\ ~Informs(Item)
    <3>1. next \in Deciding
      BY <2>2, <2>6 DEF Deciding
    <3>2. Verdict = 2
      BY <2>2, <2>4, <2>6, <3>1 DEF Verdict
    <3> QED BY <2>3, <2>6, <3>2 DEF Judged, Later
  <2>7. CASE pc' = "aborted" /\ TooLargeIn(Item)
    <3>1. next \in Given({"page_range"})
      BY <2>2, <2>7 DEF Given, TooLargeIn
    <3>2. Uncaught
      BY <2>2, <2>7, <3>1 DEF Uncaught, TooLargeIn
    <3> QED BY <2>3, <2>7, <3>2 DEF Judged, Later
  <2> QED BY <2>1, <2>5, <2>6, <2>7 DEF Ends
<1> QED BY <1>1, <1>2

LEMMA UsageJudged == ASSUME ParsingInv, Known, Judged, ArgumentsCount, CheckUsage PROVE Judged'
<1>1. /\ pc = "options" /\ next > Len(Line) /\ Len(Line) \in Nat /\ DOMAIN Line = 1..Len(Line)
      /\ next \in 1..(Len(Line) + 1)
  BY LineTyped DEF CheckUsage, Line, Known
<1>2. next = Len(Line) + 1
  BY <1>1
<1>3. OptionsRead(Len(Line) + 1) /\ args = start.args
  BY <1>1, <1>2 DEF Known, ArgumentsCount
<1>4. Deciding = {}
  <2>1. \A i \in Deciding : i \in 1..Len(Line) /\ i >= next
    BY <1>1 DEF Judged, Deciding
  <2> QED BY <1>1, <2>1
<1>5. \A names : SeenIn(Line, Len(Line) + 1, names) = Given(names)
  BY GivenIsSeen
<1>6. EnginesClash <=> Clash
  <2>1. /\ "PCRE" \in re_engine <=> Given({"P"}) # {}
        /\ "FIXED" \in re_engine <=> Given({"F"}) # {}
    BY <1>3, <1>5 DEF OptionsRead, SwitchesRead
  <2>2. re_engine \subseteq {"PCRE", "FIXED"}
    BY DEF ParsingInv, ParsingTypeOK
  <2> QED BY <2>1, <2>2 DEF EnginesClash, Clash
<1>7. Len(args) < Required <=> Missing
  <2>1. patterns_specified <=> Given({"e", "f"}) # {}
    BY <1>3, <1>5 DEF OptionsRead, SwitchesRead
  <2>2. options.recursive = "NONE" <=> Given({"r", "R"}) = {}
    <3>1. options.recursive = IF Given({"r", "R"}) = {} THEN "NONE"
                              ELSE Recursions[Max(Given({"r", "R"}))]
      BY <1>3, <1>5 DEF OptionsRead, ChoicesRead, LastIn
    <3>2. Given({"r", "R"}) # {} => Recursions[Max(Given({"r", "R"}))] # "NONE"
      BY LastIsIn DEF Recursions
    <3> QED BY <3>1, <3>2
  <2> QED BY <1>3, <2>1, <2>2 DEF Required, Missing
<1>8. UNCHANGED start
  BY DEF CheckUsage, Fails, Leaves, Stage
<1>9. /\ Deciding' = Deciding /\ Verdict' = Verdict /\ Missing' = Missing /\ Clash' = Clash
  BY <1>8, SameVerdict
<1>10. CASE Missing \/ Clash
  <2>1. pc' = "exited" /\ status' = 2
    <3>1. Required \in Nat /\ Len(args) \in Nat
      BY DEF Required, ParsingInv, ParsingTypeOK
    <3>2. ~(Len(args) >= Required /\ ~EnginesClash)
      BY <1>6, <1>7, <1>10, <3>1
    <3> QED BY <3>2 DEF CheckUsage, Fails, Leaves
  <2>2. Verdict = 2
    BY <1>4, <1>10 DEF Verdict, LineNotRead
  <2> QED BY <1>9, <2>1, <2>2 DEF Judged, Later
<1>11. CASE ~Missing /\ ~Clash
  <2>1. pc' = "patterns"
    BY <1>6, <1>7, <1>11 DEF CheckUsage, Fails, Leaves, Stage
  <2> QED BY <1>4, <1>9, <1>11, <2>1 DEF Judged, Later
<1> QED BY <1>10, <1>11

LEMMA EngineJudged == ASSUME ParsingInv, Known, Judged, ArgumentsCount, MakeEngine PROVE Judged'
<1>1. /\ pc = "patterns" /\ args = start.args /\ Deciding = {} /\ ~Missing /\ ~Clash
      /\ OptionsRead(Len(Line) + 1)
  BY DEF MakeEngine, Judged, Later, ArgumentsCount, Known
<1>2. patterns = GivenPatterns
  BY <1>1, PatternsAreGiven DEF OptionsRead
<1>3. UNCHANGED start
  BY DEF MakeEngine, Aborts, Fails, Leaves, Stage
<1>4. /\ Deciding' = Deciding /\ Verdict' = Verdict /\ Uncaught' = Uncaught
      /\ LineNotRead' = LineNotRead
  BY <1>3, SameVerdict
<1>5. \A names : SeenIn(Line, Len(Line) + 1, names) = Given(names)
  BY GivenIsSeen
<1>6. EngineName # "FIXED" <=> Given({"F"}) = {}
  <2>1. /\ "PCRE" \in re_engine <=> Given({"P"}) # {}
        /\ "FIXED" \in re_engine <=> Given({"F"}) # {}
    BY <1>1, <1>5 DEF OptionsRead, SwitchesRead
  <2>2. re_engine \subseteq {"PCRE", "FIXED"}
    BY DEF ParsingInv, ParsingTypeOK
  <2> QED BY <1>1, <2>1, <2>2 DEF EngineName, Clash
<1>7. args \in Seq(Strings) /\ patterns \in Seq(Strings)
  BY DEF ParsingInv, ParsingTypeOK
<1> DEFINE chosen == IF TakesArgument THEN <<Head(args)>> ELSE patterns
           broken == EngineName # "FIXED" /\ Range(chosen) \cap Malformed # {}
<1>8. CASE patterns = <<>> /\ args = <<>>
  <2>1. pc' = "aborted"
    BY <1>8 DEF MakeEngine, TakesArgument, Aborts, Leaves
  <2>2. EmptyList
    <3>1. Len(start.args) = 0
      BY <1>1, <1>8
    <3>2. Given({"e", "f"}) # {}
      BY <1>1, <3>1 DEF Missing
    <3> QED BY <1>2, <1>8, <3>2 DEF EmptyList
  <2> QED BY <1>1, <1>4, <1>8, <2>1, <2>2 DEF Judged, Later, Uncaught
<1>9. CASE ~(patterns = <<>> /\ args = <<>>)
  <2>1. broken <=> Unusable
    <3>1. CASE patterns = <<>>
      <4>1. chosen = <<Head(args)>>
        BY <3>1 DEF TakesArgument
      <4>2. Range(chosen) = {Head(args)}
        <5>1. DOMAIN <<Head(args)>> = {1} /\ <<Head(args)>>[1] = Head(args)
          OBVIOUS
        <5> HIDE DEF chosen
        <5> QED BY <4>1, <5>1 DEF Range
      <4>3. Range(GivenPatterns) = {}
        BY <1>2, <3>1 DEF Range
      <4> HIDE DEF chosen
      <4> QED BY <1>1, <1>2, <1>6, <1>9, <3>1, <4>2, <4>3 DEF Unusable
    <3>2. CASE patterns # <<>>
      <4>1. Given({"e", "f"}) # {}
        BY <1>1, <1>5, <3>2 DEF OptionsRead, SwitchesRead, ArgumentsCount
      <4> QED BY <1>2, <1>6, <3>2, <4>1 DEF TakesArgument, Unusable
    <3> QED BY <3>1, <3>2
  <2>2. \/ broken /\ Fails
        \/ ~broken /\ pc' = "colors"
    BY <1>9 DEF MakeEngine, TakesArgument, Stage
  <2> HIDE DEF broken
  <2>3. CASE broken
    <3>1. pc' = "exited" /\ status' = 2
      BY <2>2, <2>3 DEF Fails, Leaves
    <3>2. Verdict = 2
      BY <1>1, <2>1, <2>3 DEF Verdict, LineNotRead
    <3> QED BY <1>4, <3>1, <3>2 DEF Judged, Later
  <2>4. CASE ~broken
    <3>1. ~LineNotRead /\ pc' = "colors"
      BY <1>1, <2>1, <2>2, <2>4 DEF LineNotRead
    <3> QED BY <1>1, <1>4, <3>1 DEF Judged, Later
  <2> QED BY <2>3, <2>4
<1> QED BY <1>8, <1>9

LEMMA JudgedStep ==
  ASSUME ParsingInv, Known, Judged, ArgumentsCount, [Next]_vars PROVE Judged'
<1>1. CASE ReadPair \/ ColorsDone \/ Settle \/ NoCache \/ FindCache \/ CacheLimited
  <2>1. /\ pc \in {"colors", "settings", "cache", "limit"} /\ UNCHANGED start
        /\ pc' \in {"colors", "settings", "cache", "limit", "files"}
    BY <1>1 DEF ReadPair, ColorsDone, Settle, NoCache, FindCache, CacheLimited, Stage
  <2>2. Deciding' = Deciding /\ LineNotRead' = LineNotRead
    BY <2>1, SameVerdict
  <2> QED BY <2>1, <2>2 DEF Judged, Later
<1>2. CASE UNCHANGED vars
  <2>1. UNCHANGED <<start, pc, next, status>>
    BY <1>2 DEF vars
  <2>2. /\ Deciding' = Deciding /\ Verdict' = Verdict /\ Missing' = Missing
        /\ Clash' = Clash /\ LineNotRead' = LineNotRead /\ Uncaught' = Uncaught
    BY <2>1, SameVerdict
  <2> QED BY <2>1, <2>2 DEF Judged
<1> QED BY <1>1, <1>2, OptionJudged, UsageJudged, EngineJudged, Idle, NextIs DEF Stages

\* What is documented is read so: what is wrong is what main() does not read, but for
\* what ReadOtherwise names.
LEMMA DocumentedNumber ==
  ASSUME NEW item \in ItemType, item.opt \in {"m", "A", "B", "C"}, ~ReadOtherwise(item)
  PROVE  NumberIsWrong(item) <=> NumberNotRead(item)
<1> DEFINE t == item.number
           m == t.magnitude
           least == IF item.opt = "m" THEN 1 ELSE 0
<1>1. /\ t \in NumberText /\ m \in Nat /\ t.negative \in BOOLEAN /\ t.digits \in BOOLEAN
      /\ t.junk \in BOOLEAN /\ (~t.digits => ~t.negative /\ m = 0)
  BY DEF ItemType, NumberText
<1>2. /\ IntMax \in Nat /\ LongMax \in Nat /\ IntMax <= LongMax
      /\ ULongMax = 2 * LongMax + 1 /\ least \in {0, 1} /\ (least = 1 <=> item.opt = "m")
  BY WordsAssumption DEF ULongMax
<1>3. /\ ReadAs(t) = IF t.negative
                     THEN (IF m > LongMax + 1 THEN ULongMax + 1 - m ELSE -m) ELSE m
      /\ Written(t) = IF t.negative THEN -m ELSE m
  BY DEF ReadAs, Written
<1>4. /\ ~(t.negative /\ ReadAs(t) > 0)
      /\ item.opt # "m" => t.digits \/ t.junk
  BY DEF ReadOtherwise
<1>5. NumberIsWrong(item) <=> \/ ~t.digits \/ t.junk
                              \/ ~(least <= Written(t) /\ Written(t) <= IntMax)
  <2>1. Written(t) \in Int
    BY <1>1, <1>3
  <2> QED BY <1>2, <2>1 DEF NumberIsWrong
<1>6. NumberNotRead(item) <=> t.junk \/ m > ULongMax \/ ReadAs(t) < least \/ ReadAs(t) > IntMax
  BY DEF NumberNotRead
<1> HIDE DEF t, m, least
<1>7. CASE t.negative
  BY <1>1, <1>2, <1>3, <1>4, <1>5, <1>6, <1>7
<1>8. CASE ~t.negative
  BY <1>1, <1>2, <1>3, <1>4, <1>5, <1>6, <1>8
<1> QED BY <1>1, <1>7, <1>8

LEMMA Documented ==
  ASSUME NEW item \in ItemType, ~ReadOtherwise(item)
  PROVE  ItemIsWrong(item) <=> ItemNotRead(item)
<1>1. CASE item.opt = "page_range"
  <2>1. ASSUME NEW i \in DOMAIN item.tokens
        PROVE  TokenIsWrong(item.tokens[i]) <=> TokenNotRead(item.tokens[i])
    <3>1. \A j \in DOMAIN PagesOf(item.tokens[i]) :
            ~(/\ PagesOf(item.tokens[i])[j].digits
              /\ \/ PagesOf(item.tokens[i])[j].junk
                 \/ TooLarge(PagesOf(item.tokens[i])[j]))
      BY <1>1, <2>1 DEF ReadOtherwise
    <3> QED BY <3>1 DEF TokenIsWrong, TokenNotRead
  <2> QED BY <1>1, <2>1 DEF ItemIsWrong, ItemNotRead
<1>2. CASE item.opt \in {"m", "A", "B", "C"}
  BY <1>2, DocumentedNumber DEF ItemIsWrong, ItemNotRead
<1>3. CASE item.opt \notin {"page_range", "m", "A", "B", "C"}
  BY <1>3 DEF ItemIsWrong, ItemNotRead
<1> QED BY <1>1, <1>2, <1>3

LEMMA DocumentedLine ==
  ASSUME ParsingInv, ReadAsDocumented
  PROVE  /\ Decisive = Deciding /\ (LineIsWrong <=> LineNotRead) /\ ~Uncaught
<1>1. ~EmptyList /\ \A i \in DOMAIN Line : ~ReadOtherwise(Line[i])
  BY DEF ReadAsDocumented
<1>2. \A i \in DOMAIN Line : Line[i] \in ItemType
  <2>1. Line \in Seq(ItemType)
    BY LineTyped
  <2> QED BY <2>1
<1>3. Decisive = Deciding
  BY <1>1, <1>2, Documented DEF Decisive, Deciding
<1>4. LineIsWrong <=> LineNotRead
  BY <1>1 DEF LineIsWrong, LineNotRead, Missing, Clash, Unusable, EmptyList
<1>5. ~Uncaught
  <2>1. \A i \in Given({"page_range"}) : i \in DOMAIN Line /\ Line[i].opt = "page_range"
    BY DEF Given
  <2>2. \A i \in Given({"page_range"}) : \A j \in DOMAIN Line[i].tokens :
          \A k \in DOMAIN PagesOf(Line[i].tokens[j]) : ~TooLarge(PagesOf(Line[i].tokens[j])[k])
    BY <1>1, <2>1 DEF ReadOtherwise, TooLarge
  <2> QED BY <1>1, <2>2 DEF Uncaught
<1> QED BY <1>3, <1>4, <1>5

\* A search takes place if and only if nothing on the command line is wrong according
\* to the documents; otherwise the status tells a mistake from a question.
THEOREM RejectsIfAndOnlyIfWrong == Spec => []RejectsWhatIsWrong
<1> DEFINE Inv == ReadingInv /\ ArgumentsCount /\ Judged
<1>1. Inv => RejectsWhatIsWrong
  <2> SUFFICES ASSUME ReadingInv, Judged, ReadAsDocumented
               PROVE  LET end == IF Decisive = {} THEN (IF LineIsWrong THEN 2 ELSE 1)
                                 ELSE IF Informs(Line[Min(Decisive)]) THEN 0 ELSE 2
                      IN  /\ Searches => end = 1
                          /\ pc = "exited" => end = status
                          /\ pc # "aborted"
    BY DEF RejectsWhatIsWrong
  <2>1. Decisive = Deciding /\ (LineIsWrong <=> LineNotRead) /\ ~Uncaught
    BY DocumentedLine DEF ReadingInv
  <2>2. Searches => Deciding = {} /\ ~LineNotRead
    BY DEF Judged, Searches, Later
  <2>3. pc = "exited" => status = Verdict
    BY DEF Judged
  <2>4. pc # "aborted"
    BY <2>1 DEF Judged
  <2> QED BY <2>1, <2>2, <2>3, <2>4 DEF Verdict
<1>2. Init => Inv
  <2>1. Init => ArgumentsCount
    BY DEF Init, ArgumentsCount
  <2>2. Init => Judged
    <3> SUFFICES ASSUME Init PROVE Judged
      OBVIOUS
    <3>1. pc = "options" /\ next = 1 /\ ParsingInv
      BY ParsingInit DEF Init
    <3>2. \A i \in Deciding : i >= 1
      BY <3>1, LineTyped DEF Deciding
    <3> QED BY <3>1, <3>2 DEF Judged, Later
  <2> QED BY <2>1, <2>2, ReadingInit
<1>3. Inv /\ [Next]_vars => Inv'
  BY ReadingStep, ArgumentsStep, JudgedStep DEF ReadingInv
<1> QED BY <1>1, <1>2, <1>3, PTL DEF Spec
=============================================================================
