------------------------------ MODULE MCStartup -------------------------------
(* Small instances of Startup: command lines by theme, and small directories. *)
EXTENDS Startup

\* With IntMax = 3 and LongMax = 7, ULONG_MAX is 15: numbers of every kind.
NumberOf(d, s, m, j) == [digits |-> d, negative |-> s, magnitude |-> m, junk |-> j]
Digits(k) == NumberOf(TRUE, FALSE, k, FALSE)
Minus(k) == NumberOf(TRUE, TRUE, k, FALSE)
NoNumber == NumberOf(FALSE, FALSE, 0, FALSE)
Numbers == {NumberOf(TRUE, s, k, j) : s, j \in BOOLEAN, k \in 0..(ULongMax + 1)}
             \cup {NoNumber, NumberOf(FALSE, FALSE, 0, TRUE)}
FewNumbers == {Digits(k) : k \in {0, 1, 3, 4}} \cup {Minus(2), Minus(5), NoNumber,
                                                    NumberOf(TRUE, FALSE, 2, TRUE)}

Plain(o) == [opt |-> o, word |-> "", number |-> NoNumber, tokens |-> <<>>]
Word(o, w) == [Plain(o) EXCEPT !.word = w]
Num(o, t) == [Plain(o) EXCEPT !.number = t]
Page(t) == [range |-> FALSE, from |-> t, to |-> NoNumber]
PageSpan(t, u) == [range |-> TRUE, from |-> t, to |-> u]
Pages(ts) == [Plain("page_range") EXCEPT !.tokens = ts]

PlainEnv ==
  [xdg |-> TRUE, home |-> TRUE, passwd |-> TRUE, mkdir |-> <<"exists", "made">>,
   limited |-> FALSE, limit |-> NoNumber]
Usual ==
  [options |-> <<>>, args |-> <<"a", "f">>, tty |-> FALSE, colors |-> <<>>,
   env |-> PlainEnv]

UpTo(k, S) == UNION {[1..i -> S] : i \in 0..k}
WithOptions(O) == {[Usual EXCEPT !.options = o] : o \in O}

\* One number of any kind, or some that override each other.
NumberLines ==
  WithOptions({<<Num(o, t)>> : o \in {"m", "A", "B", "C"}, t \in Numbers}
    \cup UpTo(3, {Num(o, Digits(k)) : o \in {"m", "A", "C"}, k \in 0..2}
                   \cup {Num("B", Digits(1)), Plain("o")}))

Unsigned(T) == {t \in T : ~t.negative}
Singles == {Page(t) : t \in Unsigned(Numbers)}
             \cup {PageSpan(t, u) : t \in Unsigned(FewNumbers), u \in FewNumbers}
Some == {Page(Digits(1)), PageSpan(Digits(2), Digits(1)), Page(Digits(4)),
         PageSpan(NoNumber, Digits(1))}
PageLines ==
  WithOptions({<<Pages(<<t>>)>> : t \in Singles}
    \cup {<<Pages(ts)>> : ts \in UpTo(2, Some)}
    \cup {<<Pages(<<t>>), Pages(<<u>>)>> : t, u \in Some})

\* Three of the options that contradict each other, two of any.
Contrary == {Plain(o) : o \in {"r", "R", "l", "L", "h", "H"}}
Words ==
  {Word("color", w) : w \in {"always", "never", "auto", "blue"}}
  \cup {Word("page_number_type", w) : w \in {"", "index", "label", "roman"}}
  \cup {Word(o, w) : o \in {"exclude", "include", "password", "prefix_sep"}, w \in {"x", "y"}}
Every == Contrary \cup Words \cup
  {Plain(o) : o \in {"help", "V", "?", "i", "c", "n", "q", "o", "Z", "debug", "unac",
                     "warn_empty", "p", "page_number", "P", "F"}}
ModeLines ==
  WithOptions(UpTo(2, Every))
  \cup {[s EXCEPT !.args = a] :
          s \in WithOptions(UpTo(3, Contrary)),
          a \in {<<"a">>, <<"a", "dir">>, <<"a", "f", "dir">>}}
  \cup {[s EXCEPT !.tty = TRUE] : s \in WithOptions(UpTo(2, Words))}

\* Where the patterns come from.
MCMalformed == {"("}
MCPatternFiles ==
  [f \in {"two", "empty", "missing", "broken", "malformed"} |->
     [opens |-> f # "missing", bad |-> f = "broken",
      lines |-> CASE f = "two" -> <<"b", "c">>
                  [] f = "malformed" -> <<"b", "(">>
                  [] f = "broken" -> <<"b">>
                  [] OTHER -> <<>>]]
Sources ==
  {Word("e", w) : w \in {"d", "("}} \cup {Word("f", f) : f \in DOMAIN MCPatternFiles}
  \cup {Plain(o) : o \in {"P", "F", "r"}}
PatternLines ==
  {[s EXCEPT !.args = a] : s \in WithOptions(UpTo(2, Sources)),
                           a \in {<<>>, <<"a">>, <<"(", "f">>, <<"a", "f">>}}

Pair(c, v) == [empty |-> FALSE, name |-> c, value |-> v]
NoPair == [empty |-> TRUE, name |-> "", value |-> ""]
GrepColors ==
  {c \in UpTo(4, {Pair("mt", "1"), Pair("mc", "2"), Pair("fn", "3"), Pair("sl", "4"),
                  Pair("se", ""), NoPair}) :
     \A i \in 2..Len(c) : c[i - 1] # NoPair \/ c[i] # NoPair}
ColorLines ==
  {[Usual EXCEPT !.options = <<Word("color", "always")>>, !.colors = c] : c \in GrepColors}
  \cup {[Usual EXCEPT !.tty = TRUE, !.colors = <<Pair("ln", "5")>>]}

\* The directory is looked for, and the limit read; then a limit of every kind
\* is applied to a directory with files.
WithCache(E) == {[Usual EXCEPT !.options = <<Plain("cache")>>, !.env = e] : e \in E}
LimitedBy(T) == {[PlainEnv EXCEPT !.limited = TRUE, !.limit = t] : t \in T}
LookupLines ==
  WithCache(LimitedBy(Numbers)
    \cup {[PlainEnv EXCEPT !.xdg = x, !.home = h, !.passwd = p, !.mkdir = m] :
           x, h, p \in BOOLEAN,
           m \in {<<"made", "made">>, <<"exists", "fails">>, <<"fails", "exists">>}})
CacheLines == WithCache({PlainEnv} \cup LimitedBy({NoNumber, Digits(1), Digits(3), Digits(5)}))

MCSituations ==
  NumberLines \cup PageLines \cup ModeLines \cup PatternLines \cup ColorLines
    \cup LookupLines \cup CacheLines

MCLimits == IntMin..IntMax
\* Files of several ages, one of them hidden; and an old directory among them.
MCFiles == {"f", "g", "h", ".k", "d"}
MCEmpty == [x \in {} |-> 0]
Aged == [x \in MCFiles \ {"h"} |-> IF x = "f" THEN 1 ELSE 0]
Mixed == [x \in {"f", "g", "h", ".k"} |-> CASE x = "f" -> 2 [] x = "h" -> 1 [] OTHER -> 0]
MCContents == {MCEmpty, Aged, Mixed}
=============================================================================
