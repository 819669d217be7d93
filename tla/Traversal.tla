------------------------------ MODULE Traversal -------------------------------
(***************************************************************************)
(* Which files pdfgrep searches and how it exits: the file loop of main(), *)
(* do_search_in_directory() and do_search_in_document() of pdfgrep.cc.     *)
(*                                                                         *)
(* A node of the directory tree also stands for its base name.  Nodes may  *)
(* disappear while pdfgrep runs; to disappear between the stat() and the   *)
(* open() of a node has the effect of doing so right before the stat().    *)
(***************************************************************************)
EXTENDS Integers, Sequences, Bags, SequencesExt, FiniteSetsExt

CONSTANTS
  Nodes,          \* files, directories and symbolic links
  Cwd,            \* the working directory
  Tree,           \* [kind, entries, target]: a function of the nodes each
  Unreadable,     \* directories without read permission
  Documents,      \* what the files may contain: functions from the nodes to
                  \*   [loads, password, matches]
  NoPassword,     \* the empty string
  OptionSet,      \* command lines [recursive, quiet, passwords, includes,
                  \*   excludes, args]; a glob is the set of names it matches
  MaxLinks,       \* the kernel's bound on symbolic links in one path
  Removable,      \* bound: nodes that may disappear during the run, no links to
                  \*   directories
  MaxVanish       \* bound: how many of them do

Dots == {".", ".."}
Recursion == {"NONE", "DONT_FOLLOW_SYMLINKS", "FOLLOW_SYMLINKS"}
Links == {n \in Nodes : Tree.kind[n] = "link"}

ASSUME TreeAssumption ==
  /\ IsFiniteSet(Nodes) /\ Dots \cap Nodes = {}
  /\ Cwd \in Nodes /\ Tree.kind[Cwd] = "dir"
  /\ \A n \in Nodes : /\ Tree.kind[n] \in {"file", "dir", "link"}
                      /\ Tree.entries[n] \subseteq Nodes
                      /\ Tree.target[n] \in Nodes
\* Every name is in one directory, and no directory is below itself.
ASSUME ForestAssumption ==
  /\ \A m, n \in Nodes : m # n => Tree.entries[m] \cap Tree.entries[n] = {}
  /\ \A S \in SUBSET Nodes : S # {} => \E n \in S : Tree.entries[n] \cap S = {}
ASSUME OptionsAssumption ==
  \A o \in OptionSet : /\ o.recursive \in Recursion /\ o.quiet \in BOOLEAN
                       /\ o.args \in Seq(Nodes) /\ o.passwords # <<>>
ASSUME BoundsAssumption ==
  MaxLinks \in Nat /\ MaxVanish \in Nat /\ Removable \subseteq Nodes \ {Cwd}

VARIABLES
  opts, documents,
  gone,            \* nodes that have disappeared
  arg,             \* index of the next argument
  stack,           \* the directories being read: [dir, links, left]
  error, found_something,
  searched,        \* history: bag of [node, result] of do_search_in_document
  complaints,      \* history: [node, depth] of what err() was written for
  pc, status       \* "run", "exited" and the exit status

vars == <<opts, documents, gone, arg, stack, error, found_something, searched,
          complaints, pc, status>>

-----------------------------------------------------------------------------
\* The file system.  stat() follows symbolic links, lstat() does not; where they
\* fail, there is no node.

Stat(n, links, missing) ==
  LET f[i \in Nat] ==
        IF i = 0 THEN n
        ELSE LET m == f[i - 1] IN IF m \in Links THEN Tree.target[m] ELSE m
      ends == {i \in 0..Cardinality(Links) : f[i] \notin Links}
  IN  {[node |-> f[i], links |-> links + i] :
         i \in {i \in ends : /\ i = Min(ends) /\ links + i <= MaxLinks
                             /\ \A j \in 0..i : f[j] \in Nodes \ missing}}

Lstat(n, links, missing) ==
  IF n \in missing THEN {} ELSE {[node |-> n, links |-> links]}

\* The program looks nodes up by the path it has come along: without this, all nodes
\* that were reached through a link would disappear with it.
ASSUME PathsAssumption ==
  \A n \in Removable \cap Links : \A s \in Stat(n, 0, {}) : Tree.kind[s.node] # "dir"

is_dir(n) == \E s \in Stat(n, 0, gone) : Tree.kind[s.node] = "dir"

\* poppler: a document with a password is unlocked by that password only, one
\* without by any.
Unlocks(document, password) ==
  document.loads /\ document.password \in {NoPassword, password}

-----------------------------------------------------------------------------
Init ==
  /\ opts \in OptionSet /\ documents \in Documents
  /\ gone = {} /\ arg = 1 /\ stack = <<>>
  /\ error = FALSE /\ found_something = FALSE
  /\ searched = EmptyBag /\ complaints = {}
  /\ pc = "run" /\ status = 0

Complain(n) == complaints' = complaints \cup {[node |-> n, depth |-> Len(stack)]}

\* Each password replaces the document the one before it has opened.
Opened(document) == Unlocks(document, Last(opts.passwords))

\* What searching node n of the file system comes to: an error if the file cannot
\* be read (with the cache: for its checksum), loaded or unlocked.
Result(n, links) ==
  LET opened == {s \in Stat(n, links, gone) :
                   Tree.kind[s.node] = "file" /\ Opened(documents[s.node])}
  IN  IF opened = {} THEN "error"
      ELSE IF \E s \in opened : documents[s.node].matches > 0 THEN "match" ELSE "none"

\* (mutant) -q is forgotten.
NeverExits(result) == FALSE

\* With -q the first match ends the program.
ExitsAtOnce(result) == result = "match" /\ opts.quiet

do_search_in_document(n, links) ==
  LET result == Result(n, links)
  IN  /\ searched' = searched (+) SetToBag({[node |-> n, result |-> result]})
      /\ IF result = "error" THEN Complain(n) ELSE UNCHANGED complaints
      /\ found_something' = (found_something \/ result = "match")
      /\ IF ExitsAtOnce(result) THEN pc' = "exited" /\ status' = 0
         ELSE UNCHANGED <<pc, status>>

is_excluded(names, n) == n \in names
Selected(n) == is_excluded(opts.includes, n) /\ ~is_excluded(opts.excludes, n)

\* (mutant) the dots are directories like others.
NoDot(e) == FALSE
IsDot(e) == e \in Dots

\* opendir(), and the entries readdir() yields that are not passed over at once;
\* `below` are the directories that are open already.
OpenDirectory(n, s, below) ==
  IF s.node \notin Unreadable
  THEN /\ stack' = Append(below, [dir |-> s.node, links |-> s.links,
                                  left |-> {e \in Dots \cup Tree.entries[s.node] :
                                              ~IsDot(e) /\ e \notin gone}])
       /\ UNCHANGED complaints
  ELSE stack' = below /\ Complain(n)

-----------------------------------------------------------------------------
\* The file loop of main().
AtArgument == pc = "run" /\ stack = <<>> /\ arg <= Len(opts.args)
Argument == opts.args[arg]

DocumentArgument ==
  /\ AtArgument /\ ~is_dir(Argument)
  /\ do_search_in_document(Argument, 0)
  /\ error' = (error \/ Result(Argument, 0) = "error")
  /\ arg' = arg + 1
  /\ UNCHANGED <<opts, documents, gone, stack>>

DirectoryArgument ==
  /\ AtArgument /\ is_dir(Argument)
  /\ \E s \in Stat(Argument, 0, gone) :
       IF opts.recursive = "NONE"
       THEN Complain(Argument) /\ error' = TRUE /\ UNCHANGED stack
       ELSE /\ OpenDirectory(Argument, s, <<>>)
            /\ error' = (error \/ s.node \in Unreadable)
  /\ arg' = arg + 1
  /\ UNCHANGED <<opts, documents, gone, found_something, searched, pc, status>>

\* Without arguments -r and -R search the working directory; the result of the
\* call is not looked at.
SearchesCwd == opts.args = <<>> /\ opts.recursive # "NONE"
NoArguments ==
  /\ pc = "run" /\ stack = <<>> /\ SearchesCwd /\ arg = 1
  /\ OpenDirectory(Cwd, [node |-> Cwd, links |-> 0], <<>>)
  /\ arg' = 2
  /\ UNCHANGED <<opts, documents, gone, error, found_something, searched, pc, status>>

\* (mutant) a match outweighs an error.
StatusMatchFirst == IF found_something THEN 0 ELSE IF error THEN 2 ELSE 1
Status == IF error THEN 2 ELSE IF found_something THEN 0 ELSE 1

AllArgumentsDone == arg > Len(opts.args) /\ (SearchesCwd => arg = 2)

\* (mutant) leaves while directories are being read.
ExitFromInside ==
  /\ pc = "run" /\ AllArgumentsDone
  /\ pc' = "exited" /\ status' = Status
  /\ UNCHANGED <<opts, documents, gone, arg, stack, error, found_something,
                 searched, complaints>>

Exit ==
  /\ pc = "run" /\ stack = <<>> /\ AllArgumentsDone
  /\ pc' = "exited" /\ status' = Status
  /\ UNCHANGED <<opts, documents, gone, arg, stack, error, found_something,
                 searched, complaints>>

-----------------------------------------------------------------------------
\* do_search_in_directory(): readdir() yields the entries in any order.
Top == Last(stack)
AtEntry(e) == pc = "run" /\ stack # <<>> /\ e \in Top.left

\* (mutant) the same entry again.
ReadAgain(e) == stack
Read(e) == [stack EXCEPT ![Len(stack)].left = @ \ {e}]

\* What an entry refers to; the parent is the directory that was read before.
Entry(e) == IF e = "." THEN Top.dir
            ELSE IF e = ".." THEN stack[IF Len(stack) > 1 THEN Len(stack) - 1 ELSE 1].dir
            ELSE e

\* (mutant) -r looks behind symbolic links.
StatAlways(e) == Stat(Entry(e), Top.links, gone)
StatEntry(e) ==
  IF opts.recursive = "FOLLOW_SYMLINKS" THEN Stat(Entry(e), Top.links, gone)
  ELSE Lstat(Entry(e), Top.links, gone)

Kinds(e) == {Tree.kind[s.node] : s \in StatEntry(e)}

\* Symbolic links with -r, and files that are not selected.
SkipEntry(e) ==
  /\ AtEntry(e)
  /\ "link" \in Kinds(e) \/ ("file" \in Kinds(e) /\ ~Selected(e))
  /\ stack' = Read(e)
  /\ UNCHANGED <<opts, documents, gone, arg, error, found_something, searched,
                 complaints, pc, status>>

StatFails(e) ==
  /\ AtEntry(e) /\ StatEntry(e) = {}
  /\ Complain(e)
  /\ stack' = Read(e)
  /\ UNCHANGED <<opts, documents, gone, arg, error, found_something, searched,
                 pc, status>>

\* The results of the two calls are not looked at.
EnterDirectory(e) ==
  /\ AtEntry(e) /\ "dir" \in Kinds(e)
  /\ \E s \in StatEntry(e) : OpenDirectory(e, s, Read(e))
  /\ UNCHANGED <<opts, documents, gone, arg, error, found_something, searched,
                 pc, status>>

SearchEntry(e) ==
  /\ AtEntry(e) /\ "file" \in Kinds(e) /\ Selected(e)
  /\ do_search_in_document(e, Top.links)
  /\ stack' = Read(e)
  /\ UNCHANGED <<opts, documents, gone, arg, error>>

CloseDirectory ==
  /\ pc = "run" /\ stack # <<>> /\ Top.left = {}
  /\ stack' = Front(stack)
  /\ UNCHANGED <<opts, documents, gone, arg, error, found_something, searched,
                 complaints, pc, status>>

-----------------------------------------------------------------------------
\* Somebody removes a file, a link or an empty directory.
Vanish(n) ==
  /\ pc = "run" /\ n \notin gone /\ Cardinality(gone) < MaxVanish
  /\ Tree.entries[n] \subseteq gone
  /\ gone' = gone \cup {n}
  /\ UNCHANGED <<opts, documents, arg, stack, error, found_something, searched,
                 complaints, pc, status>>

Exited == pc = "exited" /\ UNCHANGED vars

Step ==
  \/ DocumentArgument \/ DirectoryArgument \/ NoArguments \/ Exit
  \/ \E e \in Nodes \cup Dots : \/ SkipEntry(e) \/ StatFails(e)
                                \/ EnterDirectory(e) \/ SearchEntry(e)
  \/ CloseDirectory
Next == Step \/ (\E n \in Removable : Vanish(n)) \/ Exited

Spec == Init /\ [][Next]_vars
FairSpec == Spec /\ WF_vars(Step)

-----------------------------------------------------------------------------
Frames == [dir: {n \in Nodes : Tree.kind[n] = "dir"}, links: 0..MaxLinks,
           left: SUBSET Nodes]
TypeOK ==
  /\ opts \in OptionSet /\ documents \in Documents /\ gone \subseteq Nodes
  /\ arg \in 1..(Len(opts.args) + 2)
  /\ stack \in Seq(Frames)
  /\ error \in BOOLEAN /\ found_something \in BOOLEAN
  /\ IsABag(searched)
  /\ BagToSet(searched) \subseteq [node: Nodes, result: {"error", "match", "none"}]
  /\ complaints \subseteq [node: Nodes, depth: Nat]
  /\ pc \in {"run", "exited"} /\ status \in 0..2
  /\ (pc = "exited" /\ ~opts.quiet) => stack = <<>>

\* The files to be searched, from the tree alone, if the nodes in `missing` are
\* not there.
Behind(n, missing) ==
  {s.node : s \in IF opts.recursive = "FOLLOW_SYMLINKS" THEN Stat(n, 0, missing)
                  ELSE Lstat(n, 0, missing)}
EntriesOf(dirs, missing) == (UNION {Tree.entries[d] : d \in dirs}) \ missing
SubDirs(dirs, missing) ==
  {d \in UNION {Behind(e, missing) : e \in EntriesOf(dirs, missing)} :
     Tree.kind[d] = "dir" /\ d \notin Unreadable}
DirsUnder(dirs, missing) ==
  LET f[i \in Nat] == IF i = 0 THEN dirs \ Unreadable
                      ELSE LET known == f[i - 1] IN known \cup SubDirs(known, missing)
  IN  f[Cardinality(Nodes)]
ArgumentNodes == IF opts.args = <<>> THEN {Cwd} ELSE Range(opts.args)
ArgumentDirs(missing) ==
  IF opts.recursive = "NONE" THEN {}
  ELSE {d \in UNION {{s.node : s \in Stat(a, 0, missing)} : a \in ArgumentNodes} :
          Tree.kind[d] = "dir"}
DocumentArguments ==
  {a \in Range(opts.args) : ~ \E s \in Stat(a, 0, {}) : Tree.kind[s.node] = "dir"}
Wanted(missing) ==
  DocumentArguments \cup
  {e \in EntriesOf(DirsUnder(ArgumentDirs(missing), missing), missing) :
     /\ e \in opts.includes \ opts.excludes
     /\ \E n \in Behind(e, missing) : Tree.kind[n] = "file"}

Matched == \E x \in BagToSet(searched) : x.result = "match"
SearchedNodes == {x.node : x \in BagToSet(searched)}

\* The manual on -r, -R, --include and --exclude: the arguments, and below the
\* directories among them exactly the selected files, behind symbolic links with
\* -R only.  Errors, on the way or in a file, leave nothing else out.  (Nodes
\* that disappear may or may not have been searched, and an argument that stat()
\* does not find any more is taken for a document.)
SearchesTheRightFiles ==
  (pc = "exited" /\ ~(opts.quiet /\ Matched)) =>
     /\ Wanted(gone) \subseteq SearchedNodes
     /\ SearchedNodes \subseteq Wanted({}) \cup {a \in Range(opts.args) : Stat(a, 0, gone) = {}}

\* Without -R, and with a single argument, no file is searched twice.
NoneTwice ==
  (opts.recursive # "FOLLOW_SYMLINKS" /\ Len(opts.args) <= 1) =>
     BagCardinality(searched) = Cardinality(SearchedNodes)

\* The manual on -q: exit immediately with status 0 if a match is found.
QuietStopsAtFirstMatch == (opts.quiet /\ Matched) => pc = "exited" /\ status = 0

\* The manual on the exit status: 0 if a match was found, 1 if none, 2 if an
\* error occurred, but 0 with -q and a match.
StatusFor(errorOccurred) ==
  IF errorOccurred /\ ~(opts.quiet /\ Matched) THEN 2 ELSE IF Matched THEN 0 ELSE 1
ExitStatusAsDocumented == pc = "exited" => status = StatusFor(complaints # {})

\* The same for the errors of the arguments themselves, whatever happens below
\* the directories among them: "Don't exit on the first error" (NEWS), and do
\* not forget it either when later arguments are searched without one.
ExitStatusTellsOfArguments ==
  pc = "exited" =>
    status = StatusFor(opts.args # <<>> /\ \E c \in complaints : c.depth = 0)

\* The manual on --password: all passwords are tried on all PDFs.
EveryPasswordIsTried ==
  \A x \in BagToSet(searched) :
    (x.result = "error" /\ x.node \notin gone /\ Tree.kind[x.node] = "file") =>
      ~ \E p \in Range(opts.passwords) : Unlocks(documents[x.node], p)

\* The program exits, though symbolic links may form a cycle.
Terminates == <>(pc = "exited")
=============================================================================
