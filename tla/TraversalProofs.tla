---------------------------- MODULE TraversalProofs ----------------------------
(***************************************************************************)
(* Proofs about the traversal and the exit status, for every tree of files *)
(* and links, every command line, and files that disappear meanwhile: its  *)
(* types, what -q and the exit status tell, that no file is searched twice *)
(* and that exactly the right ones are searched.                           *)
(***************************************************************************)
EXTENDS Traversal, DataLemmas

Results == {"error", "match", "none"}

\* What stat() finds exists, and no path has too many links.
LEMMA StatType ==
  ASSUME NEW n, NEW links \in Nat, NEW missing, NEW s \in Stat(n, links, missing)
  PROVE  s.node \in Nodes \ missing /\ s.links \in 0..MaxLinks
<1>1. Cardinality(Links) \in Nat
  <2>1. IsFiniteSet(Links)
    BY TreeAssumption, FS_Subset DEF Links
  <2> QED BY <2>1, FS_CardinalityType
<1>2. \E i \in 0..Cardinality(Links) :
         /\ s.node \in Nodes \ missing /\ s.links = links + i /\ links + i <= MaxLinks
  <2> DEFINE f[i \in Nat] ==
               IF i = 0 THEN n
               ELSE LET m == f[i - 1] IN IF m \in Links THEN Tree.target[m] ELSE m
             ends == {i \in 0..Cardinality(Links) : f[i] \notin Links}
             P(i) == /\ i = Min(ends) /\ links + i <= MaxLinks
                     /\ \A j \in 0..i : f[j] \in Nodes \ missing
  <2>1. Stat(n, links, missing) =
          {[node |-> f[i], links |-> links + i] : i \in {i \in ends : P(i)}}
    BY DEF Stat
  <2> HIDE DEF f
  <2>2. PICK i \in ends : P(i) /\ s = [node |-> f[i], links |-> links + i]
    BY <2>1
  <2>3. i \in 0..i
    BY <1>1, <2>2
  <2> QED BY <2>2, <2>3
<1> QED BY <1>1, <1>2, BoundsAssumption

\* And there is at most one such node.
LEMMA StatUnique ==
  ASSUME NEW n, NEW links, NEW missing,
         NEW s \in Stat(n, links, missing), NEW r \in Stat(n, links, missing)
  PROVE  s = r
<1> DEFINE f[i \in Nat] ==
             IF i = 0 THEN n
             ELSE LET m == f[i - 1] IN IF m \in Links THEN Tree.target[m] ELSE m
           ends == {i \in 0..Cardinality(Links) : f[i] \notin Links}
           P(i) == /\ i = Min(ends) /\ links + i <= MaxLinks
                   /\ \A j \in 0..i : f[j] \in Nodes \ missing
<1>1. Stat(n, links, missing) =
        {[node |-> f[i], links |-> links + i] : i \in {i \in ends : P(i)}}
  BY DEF Stat
<1> HIDE DEF f
<1> QED BY <1>1

\* What an entry of the directory on top refers to.
LEMMA StatEntryType ==
  ASSUME TypeOK, NEW e \in Nodes, stack # <<>>, NEW s \in StatEntry(e)
  PROVE  s.node \in Nodes /\ s.links \in 0..MaxLinks
<1>1. Top \in Frames
  BY DEF TypeOK, Top, Last
<1>2. Top.links \in 0..MaxLinks /\ Top.links \in Nat
  BY <1>1, BoundsAssumption DEF Frames
<1>3. Entry(e) = e
  BY TreeAssumption DEF Entry, Dots
<1> QED BY <1>2, <1>3, StatType DEF StatEntry, Lstat

\* One search: the file is added to those that were searched, an error is told,
\* and the program goes on unless -q has its match.
LEMMA SearchCounts ==
  ASSUME TypeOK, NEW n \in Nodes, NEW links, do_search_in_document(n, links)
  PROVE  /\ Result(n, links) \in Results
         /\ IsABag(searched')
         /\ BagToSet(searched') \subseteq [node: Nodes, result: Results]
         /\ Matched' <=> Matched \/ Result(n, links) = "match"
         /\ complaints' = IF Result(n, links) = "error"
                          THEN complaints \cup {[node |-> n, depth |-> Len(stack)]}
                          ELSE complaints
         /\ complaints' \subseteq [node: Nodes, depth: Nat]
         /\ found_something' = (found_something \/ Result(n, links) = "match")
         /\ IF opts.quiet /\ Result(n, links) = "match"
            THEN pc' = "exited" /\ status' = 0
            ELSE pc' = pc /\ status' = status
<1> DEFINE x == [node |-> n, result |-> Result(n, links)]
<1>1. Result(n, links) \in Results
  BY DEF Result, Results
<1>2. searched' = searched (+) SetToBag({x})
  BY DEF do_search_in_document
<1>3. /\ DOMAIN searched' = DOMAIN searched \cup {x}
      /\ IsABag(searched')
  <2>1. searched \in [DOMAIN searched -> {k \in Nat : k > 0}]
    BY DEF TypeOK, IsABag
  <2> HIDE DEF x
  <2>2. searched' = [e \in DOMAIN searched \cup {x} |->
                      (IF e \in DOMAIN searched THEN searched[e] ELSE 0)
                        + (IF e \in {x} THEN 1 ELSE 0)]
    BY <1>2 DEF (+), SetToBag
  <2>3. \A e \in DOMAIN searched \cup {x} : searched'[e] \in {k \in Nat : k > 0}
    BY <2>1, <2>2
  <2> QED BY <2>2, <2>3 DEF IsABag
<1>4. BagToSet(searched') = BagToSet(searched) \cup {x}
  BY <1>3 DEF BagToSet
<1>5. BagToSet(searched') \subseteq [node: Nodes, result: Results]
  BY <1>1, <1>4 DEF TypeOK, Results
<1>6. Matched' <=> Matched \/ Result(n, links) = "match"
  <2>1. x.result = Result(n, links)
    OBVIOUS
  <2> HIDE DEF x
  <2>2. Matched' <=> \E y \in BagToSet(searched) \cup {x} : y.result = "match"
    BY <1>4 DEF Matched
  <2> QED BY <2>1, <2>2 DEF Matched
<1>7. complaints' = IF Result(n, links) = "error"
                   THEN complaints \cup {[node |-> n, depth |-> Len(stack)]}
                   ELSE complaints
  BY DEF do_search_in_document, Complain
<1>8. complaints' \subseteq [node: Nodes, depth: Nat]
  <2>1. Len(stack) \in Nat /\ complaints \subseteq [node: Nodes, depth: Nat]
    BY DEF TypeOK
  <2> QED BY <1>7, <2>1
<1> QED BY <1>1, <1>3, <1>5, <1>6, <1>7, <1>8 DEF do_search_in_document, ExitsAtOnce

\* Opening a directory that stat() found.
LEMMA OpenType ==
  ASSUME TypeOK, NEW n \in Nodes, NEW below \in Seq(Frames), NEW s,
         s.node \in Nodes, Tree.kind[s.node] = "dir", s.links \in 0..MaxLinks,
         OpenDirectory(n, s, below)
  PROVE  /\ stack' \in Seq(Frames)
         /\ complaints' = IF s.node \in Unreadable
                          THEN complaints \cup {[node |-> n, depth |-> Len(stack)]}
                          ELSE complaints
         /\ complaints' \subseteq [node: Nodes, depth: Nat]
<1>1. CASE s.node \notin Unreadable
  <2> DEFINE frame == [dir |-> s.node, links |-> s.links,
                       left |-> {e \in Dots \cup Tree.entries[s.node] :
                                   ~IsDot(e) /\ e \notin gone}]
  <2>1. stack' = Append(below, frame) /\ complaints' = complaints
    BY <1>1 DEF OpenDirectory
  <2>2. frame.left \subseteq Nodes
    BY TreeAssumption DEF IsDot
  <2>3. frame \in Frames
    BY <2>2 DEF Frames
  <2> HIDE DEF frame
  <2> QED BY <1>1, <2>1, <2>3 DEF TypeOK
<1>2. CASE s.node \in Unreadable
  <2>1. Len(stack) \in Nat /\ complaints \subseteq [node: Nodes, depth: Nat]
    BY DEF TypeOK
  <2> QED BY <1>2, <2>1 DEF OpenDirectory, Complain
<1> QED BY <1>1, <1>2

\* The types, one case for each action.
LEMMA TypeStep == ASSUME TypeOK, [Next]_vars PROVE TypeOK'
<1>t. /\ opts \in OptionSet /\ documents \in Documents /\ gone \subseteq Nodes
      /\ opts.args \in Seq(Nodes) /\ Len(opts.args) \in Nat
      /\ arg \in 1..(Len(opts.args) + 2) /\ stack \in Seq(Frames)
      /\ error \in BOOLEAN /\ found_something \in BOOLEAN
      /\ IsABag(searched) /\ BagToSet(searched) \subseteq [node: Nodes, result: Results]
      /\ complaints \subseteq [node: Nodes, depth: Nat]
      /\ pc \in {"run", "exited"} /\ status \in 0..2
  BY OptionsAssumption DEF TypeOK, Results
<1>0. CASE UNCHANGED vars
  BY <1>0 DEF TypeOK, vars
<1>s. ASSUME NEW n \in Nodes, NEW links, do_search_in_document(n, links), pc = "run",
             UNCHANGED <<opts, documents, gone>>, error' \in BOOLEAN, stack' \in Seq(Frames),
             stack = <<>> => stack' = <<>>, arg' \in 1..(Len(opts.args) + 2)
      PROVE  TypeOK'
  <2>1. /\ IsABag(searched')
        /\ BagToSet(searched') \subseteq [node: Nodes, result: Results]
        /\ complaints' \subseteq [node: Nodes, depth: Nat]
        /\ found_something' \in BOOLEAN
    BY <1>s, <1>t, SearchCounts
  <2>2. /\ pc' \in {"run", "exited"} /\ status' \in 0..2
        /\ pc' = "exited" => opts.quiet
    BY <1>s, <1>t, SearchCounts
  <2> QED BY <1>s, <1>t, <2>1, <2>2 DEF TypeOK, Results
<1>1. CASE DocumentArgument
  <2>1. Argument \in Nodes /\ arg + 1 \in 1..(Len(opts.args) + 2)
    BY <1>1, <1>t DEF DocumentArgument, AtArgument, Argument
  <2> QED BY <1>1, <1>t, <1>s, <2>1 DEF DocumentArgument, AtArgument
<1>2. CASE DirectoryArgument
  <2>1. Argument \in Nodes /\ arg' \in 1..(Len(opts.args) + 2) /\ stack = <<>>
    BY <1>2, <1>t DEF DirectoryArgument, AtArgument, Argument
  <2>2. PICK s \in Stat(Argument, 0, gone) :
          IF opts.recursive = "NONE"
          THEN Complain(Argument) /\ error' = TRUE /\ UNCHANGED stack
          ELSE /\ OpenDirectory(Argument, s, <<>>)
               /\ error' = (error \/ s.node \in Unreadable)
    BY <1>2 DEF DirectoryArgument
  <2>3. s.node \in Nodes /\ s.links \in 0..MaxLinks /\ Tree.kind[s.node] = "dir"
    BY <1>2, StatType, StatUnique DEF DirectoryArgument, is_dir
  <2>4. stack' \in Seq(Frames) /\ error' \in BOOLEAN
          /\ complaints' \subseteq [node: Nodes, depth: Nat]
    <3>1. CASE opts.recursive = "NONE"
      BY <2>1, <2>2, <3>1, <1>t DEF Complain
    <3>2. CASE opts.recursive # "NONE"
      <4>1. <<>> \in Seq(Frames)
        OBVIOUS
      <4> QED BY <2>1, <2>2, <2>3, <3>2, <4>1, OpenType
    <3> QED BY <3>1, <3>2
  <2>5. pc' = "run" /\ UNCHANGED <<opts, documents, gone, found_something, searched, status>>
    BY <1>2 DEF DirectoryArgument, AtArgument
  <2> QED BY <1>t, <2>1, <2>4, <2>5 DEF TypeOK, Results
<1>3. CASE NoArguments
  <2>1. <<>> \in Seq(Frames) /\ 0 \in 0..MaxLinks
    BY BoundsAssumption
  <2>2. stack' \in Seq(Frames) /\ complaints' \subseteq [node: Nodes, depth: Nat]
    BY <1>3, <2>1, TreeAssumption, OpenType DEF NoArguments
  <2>3. /\ arg' = 2 /\ pc' = "run"
        /\ UNCHANGED <<opts, documents, gone, error, found_something, searched, status>>
    BY <1>3 DEF NoArguments
  <2>4. arg' \in 1..(Len(opts.args) + 2)
    BY <2>3, <1>t
  <2> QED BY <1>t, <2>2, <2>3, <2>4 DEF TypeOK, Results
<1>4. CASE Exit
  <2>1. /\ stack' = <<>> /\ stack = <<>> /\ pc' = "exited" /\ status' \in 0..2
        /\ UNCHANGED <<opts, documents, gone, arg, stack, error, found_something,
                       searched, complaints>>
    BY <1>4 DEF Exit, Status
  <2> QED BY <1>t, <2>1 DEF TypeOK, Results
<1>e. ASSUME NEW e \in Nodes \cup Dots, AtEntry(e)
      PROVE  /\ stack # <<>> /\ pc = "run" /\ e \in Nodes
             /\ Read(e) \in Seq(Frames)
  <2>1. stack # <<>> /\ pc = "run" /\ e \in Top.left
    BY <1>e DEF AtEntry
  <2>2. Len(stack) \in 1..Len(stack) /\ Len(stack) \in DOMAIN stack /\ Top = stack[Len(stack)]
    BY <2>1, <1>t DEF Top, Last
  <2>3. Top \in Frames
    BY <2>2, <1>t
  <2>4. e \in Nodes
    BY <2>1, <2>3 DEF Frames
  <2> DEFINE frame == [stack[Len(stack)] EXCEPT !.left = stack[Len(stack)].left \ {e}]
  <2>5. frame \in Frames
    BY <2>2, <2>3 DEF Frames
  <2>6. Read(e) = [stack EXCEPT ![Len(stack)] = frame]
    BY DEF Read
  <2> HIDE DEF frame
  <2>7. Read(e) \in Seq(Frames)
    BY <2>1, <2>2, <2>5, <2>6, <1>t
  <2> QED BY <2>1, <2>4, <2>7
<1>5. ASSUME NEW e \in Nodes \cup Dots, SkipEntry(e) PROVE TypeOK'
  <2>1. /\ stack' \in Seq(Frames) /\ pc' = "run"
        /\ UNCHANGED <<opts, documents, gone, arg, error, found_something, searched,
                       complaints, status>>
    BY <1>5, <1>e DEF SkipEntry
  <2> QED BY <1>t, <2>1 DEF TypeOK, Results
<1>6. ASSUME NEW e \in Nodes \cup Dots, StatFails(e) PROVE TypeOK'
  <2>1. /\ stack' \in Seq(Frames) /\ pc' = "run" /\ e \in Nodes /\ Len(stack) \in Nat
        /\ complaints' = complaints \cup {[node |-> e, depth |-> Len(stack)]}
        /\ UNCHANGED <<opts, documents, gone, arg, error, found_something, searched, status>>
    BY <1>6, <1>e, <1>t DEF StatFails, Complain
  <2>2. complaints' \subseteq [node: Nodes, depth: Nat]
    BY <1>t, <2>1
  <2> QED BY <1>t, <2>1, <2>2 DEF TypeOK, Results
<1>7. ASSUME NEW e \in Nodes \cup Dots, EnterDirectory(e) PROVE TypeOK'
  <2>1. e \in Nodes /\ stack # <<>> /\ pc = "run" /\ Read(e) \in Seq(Frames)
    BY <1>7, <1>e DEF EnterDirectory
  <2>2. PICK s \in StatEntry(e) : OpenDirectory(e, s, Read(e))
    BY <1>7 DEF EnterDirectory
  <2>3. s.node \in Nodes /\ s.links \in 0..MaxLinks /\ Tree.kind[s.node] = "dir"
    <3>1. PICK r \in StatEntry(e) : Tree.kind[r.node] = "dir"
      BY <1>7 DEF EnterDirectory, Kinds
    <3>2. r = s
      BY StatUnique DEF StatEntry, Lstat
    <3> QED BY <2>1, <3>1, <3>2, StatEntryType
  <2>4. stack' \in Seq(Frames) /\ complaints' \subseteq [node: Nodes, depth: Nat]
    BY <2>1, <2>2, <2>3, OpenType
  <2>5. /\ pc' = "run"
        /\ UNCHANGED <<opts, documents, gone, arg, error, found_something, searched, status>>
    BY <1>7, <2>1 DEF EnterDirectory
  <2> QED BY <1>t, <2>4, <2>5 DEF TypeOK, Results
<1>8. ASSUME NEW e \in Nodes \cup Dots, SearchEntry(e) PROVE TypeOK'
  BY <1>8, <1>e, <1>s, <1>t DEF SearchEntry
<1>9. CASE CloseDirectory
  <2>1. stack' \in Seq(Frames)
    BY <1>9, <1>t DEF CloseDirectory, Front
  <2>2. /\ pc' = "run"
        /\ UNCHANGED <<opts, documents, gone, arg, error, found_something, searched,
                       complaints, status>>
    BY <1>9 DEF CloseDirectory
  <2> QED BY <1>t, <2>1, <2>2 DEF TypeOK, Results
<1>10. ASSUME NEW n \in Removable, Vanish(n) PROVE TypeOK'
  <2>1. gone' \subseteq Nodes
    BY <1>10, <1>t, BoundsAssumption DEF Vanish
  <2> QED BY <1>10, <1>t, <2>1 DEF Vanish, TypeOK, Results
<1>11. CASE Exited
  BY <1>11, <1>0 DEF Exited
<1> QED
  BY <1>0, <1>1, <1>2, <1>3, <1>4, <1>5, <1>6, <1>7, <1>8, <1>9, <1>10, <1>11
  DEF Next, Step

LEMMA TypeInit == Init => TypeOK
<1> SUFFICES ASSUME Init PROVE TypeOK
  OBVIOUS
<1>1. IsABag(searched) /\ BagToSet(searched) = {}
  BY DEF Init, EmptyBag, SetToBag, IsABag, BagToSet
<1>2. arg \in 1..(Len(opts.args) + 2)
  <2>1. Len(opts.args) \in Nat /\ arg = 1
    BY OptionsAssumption DEF Init
  <2> QED BY <2>1
<1>3. stack \in Seq(Frames)
  <2>1. stack = <<>>
    BY DEF Init
  <2> QED BY <2>1
<1>4. /\ opts \in OptionSet /\ documents \in Documents /\ gone = {}
      /\ error = FALSE /\ found_something = FALSE /\ complaints = {}
      /\ pc = "run" /\ status = 0
  BY DEF Init
<1>5. status \in 0..2
  BY <1>4
<1> HIDE DEF Init
<1> QED BY <1>1, <1>2, <1>3, <1>4, <1>5 DEF TypeOK

\* Directories are only read that exist, and never through more links than the
\* kernel allows; unless -q ends the program inside, all of them are closed.
THEOREM TraversalTypeCorrect == Spec => []TypeOK
BY TypeInit, TypeStep, PTL DEF Spec

-----------------------------------------------------------------------------
\* The exit status.

\* An error of the arguments themselves; main() looks at the others' results only.
ArgumentFailed == opts.args # <<>> /\ \E c \in complaints : c.depth = 0
Tally ==
  /\ found_something <=> Matched
  /\ error <=> ArgumentFailed
  /\ (opts.quiet /\ Matched) => pc = "exited" /\ status = 0
  /\ pc = "exited" => status = StatusFor(error)

LEMMA TallyStep == ASSUME TypeOK, Tally, [Next]_vars PROVE Tally'
<1>t. /\ opts.args \in Seq(Nodes) /\ stack \in Seq(Frames)
      /\ error \in BOOLEAN /\ found_something \in BOOLEAN
      /\ arg \in 1..(Len(opts.args) + 2) /\ Len(stack) \in Nat
  BY OptionsAssumption DEF TypeOK
<1>0. CASE UNCHANGED vars
  BY <1>0 DEF Tally, ArgumentFailed, StatusFor, Matched, vars
<1>s. ASSUME NEW n \in Nodes, NEW links, do_search_in_document(n, links), pc = "run",
             opts' = opts, stack = <<>> => opts.args # <<>>,
             error' = (error \/ (stack = <<>> /\ Result(n, links) = "error"))
      PROVE  Tally'
  <2>1. ~(opts.quiet /\ Matched)
    BY <1>s DEF Tally
  <2>2. /\ Matched' <=> Matched \/ Result(n, links) = "match"
        /\ found_something' = (found_something \/ Result(n, links) = "match")
        /\ complaints' = IF Result(n, links) = "error"
                         THEN complaints \cup {[node |-> n, depth |-> Len(stack)]}
                         ELSE complaints
        /\ IF opts.quiet /\ Result(n, links) = "match"
           THEN pc' = "exited" /\ status' = 0
           ELSE pc' = pc /\ status' = status
    BY <1>s, SearchCounts
  <2>3. found_something' <=> Matched'
    BY <2>2 DEF Tally
  <2>4. Len(stack) = 0 <=> stack = <<>>
    BY <1>t
  <2>5. error' <=> ArgumentFailed'
    <3>1. (\E c \in complaints' : c.depth = 0) <=>
            \/ \E c \in complaints : c.depth = 0
            \/ Result(n, links) = "error" /\ stack = <<>>
      <4> DEFINE c0 == [node |-> n, depth |-> Len(stack)]
      <4>1. c0.depth = Len(stack)
        OBVIOUS
      <4>2. complaints' = IF Result(n, links) = "error" THEN complaints \cup {c0} ELSE complaints
        BY <2>2
      <4> HIDE DEF c0
      <4> QED BY <2>4, <4>1, <4>2
    <3> QED BY <1>s, <3>1 DEF Tally, ArgumentFailed
  <2>6. (opts'.quiet /\ Matched') => pc' = "exited" /\ status' = 0
    BY <1>s, <2>1, <2>2
  <2>7. pc' = "exited" => status' = 0 /\ Matched' /\ opts'.quiet
    BY <1>s, <2>2
  <2> QED BY <2>3, <2>5, <2>6, <2>7 DEF Tally, StatusFor
<1>o. ASSUME pc = "run", pc' = "run", UNCHANGED <<opts, found_something, searched>>,
             error' <=> ArgumentFailed'
      PROVE  Tally'
  <2>1. Matched' <=> Matched
    BY <1>o DEF Matched
  <2> QED BY <1>o, <2>1 DEF Tally
<1>1. CASE DocumentArgument
  <2>1. Argument \in Nodes /\ opts.args # <<>> /\ stack = <<>>
    BY <1>1, <1>t DEF DocumentArgument, AtArgument, Argument
  <2> QED BY <1>1, <1>s, <2>1 DEF DocumentArgument, AtArgument
<1>2. CASE DirectoryArgument
  <2>1. /\ opts.args # <<>> /\ stack = <<>> /\ Len(stack) = 0
        /\ pc = "run" /\ pc' = "run" /\ UNCHANGED <<opts, found_something, searched>>
    BY <1>2, <1>t DEF DirectoryArgument, AtArgument
  <2>2. \/ error' = TRUE /\ Complain(Argument)
        \/ error' = error /\ complaints' = complaints
    BY <1>2, <1>t DEF DirectoryArgument, OpenDirectory
  <2>3. error' <=> ArgumentFailed'
    <3>1. CASE error' = TRUE /\ Complain(Argument)
      <4> DEFINE c0 == [node |-> Argument, depth |-> Len(stack)]
      <4>1. c0.depth = 0 /\ c0 \in complaints'
        BY <2>1, <3>1 DEF Complain
      <4> QED BY <2>1, <3>1, <4>1 DEF ArgumentFailed
    <3>2. CASE error' = error /\ complaints' = complaints
      BY <2>1, <3>2 DEF Tally, ArgumentFailed
    <3> QED BY <2>2, <3>1, <3>2
  <2> QED BY <2>1, <2>3, <1>o
<1>3. CASE NoArguments
  <2>1. /\ opts.args = <<>> /\ pc = "run" /\ pc' = "run" /\ error' = error
        /\ UNCHANGED <<opts, found_something, searched>>
    BY <1>3 DEF NoArguments, SearchesCwd
  <2>2. error' <=> ArgumentFailed'
    BY <2>1 DEF Tally, ArgumentFailed
  <2> QED BY <2>1, <2>2, <1>o
<1>4. CASE Exit
  <2>1. /\ pc = "run" /\ pc' = "exited" /\ status' = Status
        /\ UNCHANGED <<opts, error, found_something, searched, complaints>>
    BY <1>4 DEF Exit
  <2>2. ~(opts.quiet /\ Matched) /\ (Matched' <=> Matched) /\ (ArgumentFailed' <=> ArgumentFailed)
    BY <2>1 DEF Tally, Matched, ArgumentFailed
  <2> QED BY <2>1, <2>2, <1>t DEF Tally, Status, StatusFor
<1>e. ASSUME NEW e \in Nodes \cup Dots, AtEntry(e)
      PROVE  stack # <<>> /\ Len(stack) # 0 /\ pc = "run" /\ e \in Nodes
  <2>1. stack # <<>> /\ pc = "run" /\ e \in Top.left
    BY <1>e DEF AtEntry
  <2>2. Top \in Frames
    BY <2>1, <1>t DEF Top, Last
  <2> QED BY <2>1, <2>2, <1>t DEF Frames
<1>d. ASSUME NEW e, Len(stack) # 0, opts' = opts, error' = error,
             complaints' = complaints \/ Complain(e)
      PROVE  error' <=> ArgumentFailed'
  <2>1. (\E c \in complaints' : c.depth = 0) <=> (\E c \in complaints : c.depth = 0)
    BY <1>d DEF Complain
  <2> QED BY <1>d, <2>1 DEF Tally, ArgumentFailed
<1>5. ASSUME NEW e \in Nodes \cup Dots, SkipEntry(e) \/ StatFails(e) \/ EnterDirectory(e)
      PROVE  Tally'
  <2>1. /\ AtEntry(e) /\ pc' = pc /\ error' = error /\ (complaints' = complaints \/ Complain(e))
        /\ UNCHANGED <<opts, found_something, searched>>
    BY <1>5 DEF SkipEntry, StatFails, EnterDirectory, OpenDirectory
  <2> QED BY <2>1, <1>e, <1>d, <1>o
<1>6. ASSUME NEW e \in Nodes \cup Dots, SearchEntry(e) PROVE Tally'
  <2>1. /\ AtEntry(e) /\ do_search_in_document(e, Top.links)
        /\ UNCHANGED <<opts, error>>
    BY <1>6 DEF SearchEntry
  <2> QED BY <2>1, <1>e, <1>s, <1>t
<1>7. CASE CloseDirectory \/ \E n \in Removable : Vanish(n)
  <2>1. /\ pc = "run" /\ pc' = "run"
        /\ UNCHANGED <<opts, error, found_something, searched, complaints>>
    BY <1>7 DEF CloseDirectory, Vanish
  <2>2. error' <=> ArgumentFailed'
    BY <2>1 DEF Tally, ArgumentFailed
  <2> QED BY <2>1, <2>2, <1>o
<1>8. CASE Exited
  BY <1>8, <1>0 DEF Exited
<1> QED BY <1>0, <1>1, <1>2, <1>3, <1>4, <1>5, <1>6, <1>7, <1>8 DEF Next, Step

LEMMA TallyInit == Init => Tally
<1> SUFFICES ASSUME Init PROVE Tally
  OBVIOUS
<1>1. BagToSet(searched) = {} /\ complaints = {}
  BY DEF Init, EmptyBag, SetToBag, BagToSet
<1> QED BY <1>1 DEF Init, Tally, Matched, ArgumentFailed

\* With -q nothing is searched behind the first match, however deep in the tree it
\* is found and whatever went wrong before, and the status is 0.
THEOREM QuietStops == Spec => []QuietStopsAtFirstMatch
<1>1. Tally => QuietStopsAtFirstMatch
  BY DEF Tally, QuietStopsAtFirstMatch
<1>2. Init => TypeOK /\ Tally
  BY TypeInit, TallyInit
<1>3. (TypeOK /\ Tally) /\ [Next]_vars => (TypeOK /\ Tally)'
  BY TypeStep, TallyStep
<1> QED BY <1>1, <1>2, <1>3, PTL DEF Spec

\* The status is 2 exactly if an argument itself failed, else it tells of matches, in
\* whatever order errors and matches come and wherever the matches are.
THEOREM StatusTellsOfArguments == Spec => []ExitStatusTellsOfArguments
<1>1. Tally => ExitStatusTellsOfArguments
  BY DEF Tally, ArgumentFailed, ExitStatusTellsOfArguments, StatusFor
<1>2. Init => TypeOK /\ Tally
  BY TypeInit, TallyInit
<1>3. (TypeOK /\ Tally) /\ [Next]_vars => (TypeOK /\ Tally)'
  BY TypeStep, TallyStep
<1> QED BY <1>1, <1>2, <1>3, PTL DEF Spec

-----------------------------------------------------------------------------
\* Nothing is searched twice because of D, the entries dealt with below the directory
\* read first: an entry is in D only if its directory is, or is the first one, and
\* what the open directories still hold is not in D.
Once ==
  \A x \in BagToSet(searched) :
    searched[x] = 1 /\ \A y \in BagToSet(searched) : y.node = x.node => y = x
Covers(D) ==
  /\ SearchedNodes \subseteq D
  /\ \A d \in Nodes : Tree.entries[d] \cap D # {} => d \in D \/ d = stack[1].dir
  /\ \A i \in DOMAIN stack :
       /\ stack[i].left \subseteq Tree.entries[stack[i].dir] \ D
       /\ i > 1 => stack[i].dir \in D /\ stack[i].dir \in Tree.entries[stack[i - 1].dir]
       /\ \A j \in DOMAIN stack : j < i => stack[j].dir # stack[i].dir
WalksOnce ==
  (opts.recursive # "FOLLOW_SYMLINKS" /\ Len(opts.args) <= 1) =>
    /\ Once
    /\ arg = 1 => BagToSet(searched) = {} /\ stack = <<>>
    /\ stack # <<>> => \E D \in SUBSET Nodes : Covers(D)

\* The sum of ones is the number of them.
LEMMA OnesAddUp ==
  ASSUME NEW D, IsFiniteSet(D), NEW w, Weight(w, D), \A x \in D : w[x] = 1
  PROVE  Total(w, D) = Cardinality(D)
<1>1. PICK iter : SumsUp(iter, w, D) /\ iter[D] = Total(w, D)
  BY TotalIs
<1>2. \A s \in SUBSET D : /\ s = {} => iter[s] = 0
                          /\ \A x \in s : iter[s] = 1 + iter[s \ {x}]
  <2>1. \A s \in SUBSET D : /\ s = {} => iter[s] = 0
                            /\ \A x \in s : iter[s] = w[x] + iter[s \ {x}]
    BY <1>1, SumAnyOrder
  <2> QED BY <2>1
<1> DEFINE S == {n \in Nat : \A s \in SUBSET D : Cardinality(s) = n => iter[s] = n}
<1>3. 0 \in S
  BY <1>2, SubsetsFinite
<1>4. ASSUME NEW n \in Nat, n \in S PROVE n + 1 \in S
  <2> SUFFICES ASSUME NEW s \in SUBSET D, Cardinality(s) = n + 1 PROVE iter[s] = n + 1
    OBVIOUS
  <2>1. PICK x \in s : TRUE
    BY FS_EmptySet
  <2>2. s \ {x} \in SUBSET D /\ Cardinality(s \ {x}) = n
    BY SubsetsFinite
  <2>3. iter[s \ {x}] = n
    BY <1>4, <2>2
  <2> QED BY <1>2, <2>3
<1> HIDE DEF S
<1>5. Nat \subseteq S
  BY <1>3, <1>4, Induction
<1>6. Cardinality(D) \in Nat /\ D \in SUBSET D
  BY FS_CardinalityType
<1>7. iter[D] = Cardinality(D)
  BY <1>5, <1>6 DEF S
<1> QED BY <1>1, <1>7

\* One more search; if the node was not searched before, all of them are different.
LEMMA SearchedOnce ==
  ASSUME NEW n \in Nodes, NEW links, do_search_in_document(n, links)
  PROVE  /\ SearchedNodes' = SearchedNodes \cup {n}
         /\ Once /\ n \notin SearchedNodes => Once'
<1> DEFINE x == [node |-> n, result |-> Result(n, links)]
<1>1. searched' = searched (+) SetToBag({x})
  BY DEF do_search_in_document
<1>2. x.node = n
  OBVIOUS
<1> HIDE DEF x
<1>3. searched' = [e \in DOMAIN searched \cup {x} |->
                    (IF e \in DOMAIN searched THEN searched[e] ELSE 0)
                      + (IF e \in {x} THEN 1 ELSE 0)]
  BY <1>1 DEF (+), SetToBag
<1>5. BagToSet(searched') = BagToSet(searched) \cup {x}
  BY <1>3 DEF BagToSet
<1>6. SearchedNodes' = SearchedNodes \cup {n}
  BY <1>2, <1>5 DEF SearchedNodes
<1>7. ASSUME Once, n \notin SearchedNodes PROVE Once'
  <2>1. x \notin DOMAIN searched
    BY <1>2, <1>7 DEF SearchedNodes, BagToSet
  <2>2. \A e \in BagToSet(searched') : searched'[e] = 1
    <3>1. \A e \in DOMAIN searched : searched[e] = 1
      BY <1>7 DEF Once, BagToSet
    <3> QED BY <1>3, <2>1, <3>1 DEF BagToSet
  <2>3. ASSUME NEW e \in BagToSet(searched'), NEW f \in BagToSet(searched'), e.node = f.node
        PROVE  e = f
    BY <1>2, <1>5, <1>7, <2>3 DEF Once, SearchedNodes
  <2> QED BY <2>2, <2>3 DEF Once
<1> QED BY <1>6, <1>7

\* If every node was searched once there are as many searches as nodes.
LEMMA OnceCounts ==
  ASSUME TypeOK, Once
  PROVE  BagCardinality(searched) = Cardinality(SearchedNodes)
<1> DEFINE D == DOMAIN searched
           f == [x \in D |-> x.node]
<1>1. /\ \A x \in D : searched[x] = 1 /\ x.node \in Nodes
      /\ SearchedNodes = {x.node : x \in D}
      /\ \A x, y \in D : x.node = y.node => x = y
  BY DEF Once, SearchedNodes, BagToSet, TypeOK
<1>2. IsFiniteSet(SearchedNodes)
  <2>1. SearchedNodes \subseteq Nodes
    BY <1>1
  <2> QED BY <2>1, TreeAssumption, FS_Subset
<1>3. f \in Injection(D, SearchedNodes) /\ f \in Surjection(D, SearchedNodes)
  <2>1. f \in [D -> SearchedNodes]
    BY <1>1
  <2>2. \A x, y \in D : f[x] = f[y] => x = y
    BY <1>1
  <2>3. \A n \in SearchedNodes : \E x \in D : f[x] = n
    BY <1>1
  <2> HIDE DEF f
  <2> QED BY <2>1, <2>2, <2>3 DEF Injection, IsInjective, Surjection
<1>4. IsFiniteSet(D) /\ Cardinality(D) = Cardinality(SearchedNodes)
  <2> HIDE DEF f, D
  <2> QED BY <1>2, <1>3, FS_Injection
<1>5. Weight(searched, D)
  BY DEF TypeOK, IsABag, Weight
<1>6. BagCardinality(searched) = Total(searched, D)
  BY Zenon DEF BagCardinality, Total, SumsUp, Chosen
<1>7. Total(searched, D) = Cardinality(D)
  <2> HIDE DEF D
  <2> QED BY <1>1, <1>4, <1>5, OnesAddUp
<1> QED BY <1>4, <1>6, <1>7

\* An entry still to be read was not dealt with, and is no directory on the way to it.
LEMMA EntryIsNew ==
  ASSUME TypeOK, stack # <<>>, NEW D, Covers(D), NEW e \in Top.left
  PROVE  /\ e \in Nodes \ D /\ e \in Tree.entries[Top.dir]
         /\ \A i \in DOMAIN stack : stack[i].dir # e
<1>1. stack \in Seq(Frames) /\ Len(stack) \in Nat \ {0} /\ DOMAIN stack = 1..Len(stack)
  BY DEF TypeOK
<1>2. Len(stack) \in DOMAIN stack /\ Top = stack[Len(stack)] /\ Top \in Frames
  BY <1>1 DEF Top, Last
<1>3. e \in Nodes /\ e \notin D /\ e \in Tree.entries[Top.dir]
  BY <1>2 DEF Covers, Frames
<1>4. ASSUME NEW k \in DOMAIN stack, stack[k].dir = e PROVE FALSE
  <2>1. k = 1
    BY <1>1, <1>3, <1>4 DEF Covers
  <2> DEFINE S == {stack[i].dir : i \in DOMAIN stack}
  <2>2. S \in SUBSET Nodes /\ S # {}
    <3>1. \A i \in DOMAIN stack : stack[i] \in Frames
      BY <1>1
    <3> QED BY <1>2, <3>1 DEF Frames
  <2>3. ASSUME NEW n \in S PROVE Tree.entries[n] \cap S # {}
    <3>1. PICK i \in DOMAIN stack : n = stack[i].dir
      OBVIOUS
    <3>2. CASE i = Len(stack)
      BY <1>2, <1>3, <1>4, <3>1, <3>2
    <3>3. CASE i # Len(stack)
      <4>1. i + 1 \in DOMAIN stack /\ i + 1 > 1 /\ (i + 1) - 1 = i
        BY <1>1, <3>3
      <4>2. stack[i + 1].dir \in Tree.entries[stack[(i + 1) - 1].dir]
        BY <4>1 DEF Covers
      <4>3. stack[i + 1].dir \in Tree.entries[n] /\ stack[i + 1].dir \in S
        BY <3>1, <4>1, <4>2
      <4> QED BY <4>3
    <3> QED BY <3>2, <3>3
  <2> HIDE DEF S
  <2> QED BY <2>2, <2>3, ForestAssumption
<1> QED BY <1>3, <1>4

\* Such an entry is dealt with: it is skipped, searched, or the directory read next.
LEMMA EntryIsDealtWith ==
  ASSUME TypeOK, stack # <<>>, NEW D \in SUBSET Nodes, Covers(D), NEW e \in Top.left,
         stack' \in Seq(Frames),
         SearchedNodes' \subseteq SearchedNodes \cup {e},
         \A i \in DOMAIN stack : /\ i \in DOMAIN stack' /\ stack'[i].dir = stack[i].dir
                                 /\ stack'[i].left \subseteq stack[i].left,
         e \notin stack'[Len(stack)].left,
         \A i \in DOMAIN stack' \ DOMAIN stack :
           /\ i = Len(stack) + 1 /\ stack'[i].dir = e
           /\ stack'[i].left \subseteq Tree.entries[e]
  PROVE  Covers(D \cup {e})'
<1> DEFINE top == Len(stack)
<1>1. /\ top \in Nat \ {0} /\ DOMAIN stack = 1..top /\ top \in DOMAIN stack
      /\ Top = stack[top] /\ stack \in Seq(Frames)
  BY DEF TypeOK, Top, Last
<1>2. /\ e \in Nodes /\ e \notin D /\ e \in Tree.entries[stack[top].dir]
      /\ \A i \in DOMAIN stack : stack[i].dir # e /\ stack[i].dir \in Nodes
  <2>1. \A i \in DOMAIN stack : stack[i].dir \in Nodes
    <3>1. \A i \in DOMAIN stack : stack[i] \in Frames
      BY <1>1
    <3> QED BY <3>1 DEF Frames
  <2> QED BY <1>1, <2>1, EntryIsNew
<1>3. \A n \in Nodes : e \in Tree.entries[n] => n = stack[top].dir
  BY <1>1, <1>2, ForestAssumption
<1>4. 1 \in DOMAIN stack /\ stack'[1].dir = stack[1].dir
  BY <1>1
<1>5. stack[top].dir \in D \/ stack[top].dir = stack[1].dir
  BY <1>1 DEF Covers
<1> HIDE DEF top
<1>6. SearchedNodes' \subseteq D \cup {e}
  BY DEF Covers
<1>7. ASSUME NEW d \in Nodes, Tree.entries[d] \cap (D \cup {e}) # {}
      PROVE  d \in D \cup {e} \/ d = stack'[1].dir
  <2>1. CASE e \in Tree.entries[d]
    BY <1>3, <1>4, <1>5, <2>1
  <2>2. CASE e \notin Tree.entries[d]
    BY <1>4, <1>7, <2>2 DEF Covers
  <2> QED BY <2>1, <2>2
<1>8. ASSUME NEW i \in DOMAIN stack
      PROVE  /\ stack'[i].left \subseteq Tree.entries[stack'[i].dir] \ (D \cup {e})
             /\ i > 1 => /\ stack'[i].dir \in D \cup {e}
                         /\ stack'[i].dir \in Tree.entries[stack'[i - 1].dir]
             /\ \A j \in DOMAIN stack : j < i => stack'[j].dir # stack'[i].dir
  <2>1. /\ stack[i].left \subseteq Tree.entries[stack[i].dir] \ D
        /\ i > 1 => stack[i].dir \in D /\ stack[i].dir \in Tree.entries[stack[i - 1].dir]
        /\ \A j \in DOMAIN stack : j < i => stack[j].dir # stack[i].dir
    BY DEF Covers
  <2>2. e \notin stack'[i].left
    <3>1. CASE i = top
      BY <3>1 DEF top
    <3>2. CASE i # top
      <4>1. i < top
        BY <1>1, <3>2
      <4>2. stack[i].dir # stack[top].dir
        BY <1>1, <4>1 DEF Covers
      <4>3. e \notin Tree.entries[stack[i].dir]
        BY <1>2, <1>3, <4>2
      <4> QED BY <2>1, <4>3
    <3> QED BY <3>1, <3>2
  <2>3. i > 1 => i - 1 \in DOMAIN stack
    BY <1>1
  <2> QED BY <2>1, <2>2, <2>3
<1>9. ASSUME NEW i \in DOMAIN stack' \ DOMAIN stack
      PROVE  /\ stack'[i].left \subseteq Tree.entries[stack'[i].dir] \ (D \cup {e})
             /\ stack'[i].dir \in D \cup {e} /\ stack'[i].dir \in Tree.entries[stack'[i - 1].dir]
             /\ \A j \in DOMAIN stack' : j < i => stack'[j].dir # stack'[i].dir
  <2>1. i = top + 1 /\ stack'[i].dir = e /\ stack'[i].left \subseteq Tree.entries[e]
    BY DEF top
  <2>2. i - 1 = top /\ stack'[top].dir = stack[top].dir
    BY <1>1, <2>1
  <2>3. Tree.entries[e] \cap D = {}
    BY <1>2, <1>4 DEF Covers
  <2>4. e \notin Tree.entries[e]
    BY <1>1, <1>2, <1>3
  <2>5. \A j \in DOMAIN stack' : j < i => j \in DOMAIN stack
    BY <1>1, <2>1
  <2> QED BY <1>2, <2>1, <2>2, <2>3, <2>4, <2>5, ZenonT(30)
<1>10. ASSUME NEW i \in DOMAIN stack'
       PROVE  /\ stack'[i].left \subseteq Tree.entries[stack'[i].dir] \ (D \cup {e})
              /\ i > 1 => /\ stack'[i].dir \in D \cup {e}
                          /\ stack'[i].dir \in Tree.entries[stack'[i - 1].dir]
              /\ \A j \in DOMAIN stack' : j < i => stack'[j].dir # stack'[i].dir
  <2>1. CASE i \in DOMAIN stack
    <3>1. \A j \in DOMAIN stack' : j < i => j \in DOMAIN stack
      <4>1. DOMAIN stack' \subseteq Nat \ {0}
        OBVIOUS
      <4> QED BY <1>1, <2>1, <4>1
    <3> QED BY <1>8, <2>1, <3>1
  <2>2. CASE i \notin DOMAIN stack
    BY <1>9, <2>2
  <2> QED BY <2>1, <2>2
<1> QED BY <1>6, <1>7, <1>10 DEF Covers

\* Reading an entry takes it from the directory on top, and nothing else.
LEMMA EntryIsRead ==
  ASSUME TypeOK, NEW e, AtEntry(e)
  PROVE  /\ stack # <<>> /\ e \in Top.left /\ e \in Nodes
         /\ Top \in Frames /\ Top = stack[Len(stack)] /\ Len(stack) \in DOMAIN stack
         /\ Read(e) \in Seq(Frames) /\ DOMAIN Read(e) = DOMAIN stack
         /\ Len(Read(e)) = Len(stack)
         /\ \A i \in DOMAIN stack :
              /\ Read(e)[i].dir = stack[i].dir
              /\ Read(e)[i].left = stack[i].left \ (IF i = Len(stack) THEN {e} ELSE {})
<1>1. stack # <<>> /\ e \in Top.left /\ stack \in Seq(Frames)
  BY DEF AtEntry, TypeOK
<1>2. Len(stack) \in DOMAIN stack /\ DOMAIN stack = 1..Len(stack) /\ Top = stack[Len(stack)]
  BY <1>1 DEF Top, Last
<1>3. Top \in Frames /\ e \in Nodes
  <2>1. Top \in Frames
    BY <1>1, <1>2
  <2> QED BY <1>1, <2>1 DEF Frames
<1> DEFINE frame == [stack[Len(stack)] EXCEPT !.left = stack[Len(stack)].left \ {e}]
<1>4. /\ frame \in Frames /\ frame.dir = stack[Len(stack)].dir
      /\ frame.left = stack[Len(stack)].left \ {e}
  BY <1>2, <1>3 DEF Frames
<1>5. Read(e) = [stack EXCEPT ![Len(stack)] = frame]
  BY DEF Read
<1> HIDE DEF frame
<1>6. /\ Read(e) \in Seq(Frames) /\ DOMAIN Read(e) = DOMAIN stack /\ Len(Read(e)) = Len(stack)
      /\ \A i \in DOMAIN stack : Read(e)[i] = IF i = Len(stack) THEN frame ELSE stack[i]
  BY <1>1, <1>2, <1>4, <1>5
<1> QED BY <1>1, <1>2, <1>3, <1>4, <1>6

\* Opening a directory puts its entries on top.
LEMMA DirectoryIsOpened ==
  ASSUME NEW n, NEW s, NEW below \in Seq(Frames), OpenDirectory(n, s, below), s.node \in Nodes
  PROVE  /\ s.node \in Unreadable => stack' = below
         /\ s.node \notin Unreadable =>
              /\ DOMAIN stack' = 1..(Len(below) + 1)
              /\ \A i \in DOMAIN below : stack'[i] = below[i]
              /\ stack'[Len(below) + 1].dir = s.node
              /\ stack'[Len(below) + 1].left = Tree.entries[s.node] \ gone
<1>1. CASE s.node \in Unreadable
  BY <1>1 DEF OpenDirectory
<1>2. CASE s.node \notin Unreadable
  <2> DEFINE frame == [dir |-> s.node, links |-> s.links,
                       left |-> {d \in Dots \cup Tree.entries[s.node] :
                                   ~IsDot(d) /\ d \notin gone}]
  <2>1. stack' = Append(below, frame)
    BY <1>2 DEF OpenDirectory
  <2>2. frame.dir = s.node /\ frame.left = Tree.entries[s.node] \ gone
    BY TreeAssumption DEF IsDot
  <2> HIDE DEF frame, Frames
  <2>3. /\ DOMAIN stack' = 1..(Len(below) + 1) /\ stack'[Len(below) + 1] = frame
        /\ \A i \in DOMAIN below : stack'[i] = below[i]
    BY <2>1
  <2> QED BY <1>2, <2>2, <2>3
<1> QED BY <1>1, <1>2

\* And so it is when the directory is the entry just read.
LEMMA EntryIsOpened ==
  ASSUME TypeOK, NEW e, AtEntry(e), NEW s, OpenDirectory(e, s, Read(e)), s.node \in Nodes
  PROVE  /\ s.node \in Unreadable => stack' = Read(e)
         /\ s.node \notin Unreadable =>
              /\ DOMAIN stack' = 1..(Len(stack) + 1)
              /\ \A i \in DOMAIN stack : stack'[i] = Read(e)[i]
              /\ stack'[Len(stack) + 1].dir = s.node
              /\ stack'[Len(stack) + 1].left = Tree.entries[s.node] \ gone
<1>1. Read(e) \in Seq(Frames) /\ DOMAIN Read(e) = DOMAIN stack /\ Len(Read(e)) = Len(stack)
  BY EntryIsRead
<1> DEFINE below == Read(e)
<1>2. /\ below \in Seq(Frames) /\ DOMAIN below = DOMAIN stack /\ Len(below) = Len(stack)
      /\ OpenDirectory(e, s, below)
  BY <1>1
<1> HIDE DEF below
<1>3. /\ s.node \in Unreadable => stack' = below
      /\ s.node \notin Unreadable =>
           /\ DOMAIN stack' = 1..(Len(below) + 1)
           /\ \A i \in DOMAIN below : stack'[i] = below[i]
           /\ stack'[Len(below) + 1].dir = s.node
           /\ stack'[Len(below) + 1].left = Tree.entries[s.node] \ gone
  BY <1>2, DirectoryIsOpened
<1>4. /\ s.node \in Unreadable => stack' = below
      /\ s.node \notin Unreadable =>
           /\ DOMAIN stack' = 1..(Len(stack) + 1)
           /\ \A i \in DOMAIN stack : stack'[i] = below[i]
           /\ stack'[Len(stack) + 1].dir = s.node
           /\ stack'[Len(stack) + 1].left = Tree.entries[s.node] \ gone
  BY <1>2, <1>3, Zenon
<1> QED BY <1>4 DEF below

LEMMA FirstIsOpened ==
  ASSUME NEW n, NEW s, OpenDirectory(n, s, <<>>), s.node \in Nodes
  PROVE  /\ s.node \in Unreadable => stack' = <<>>
         /\ s.node \notin Unreadable => /\ DOMAIN stack' = {1} /\ stack'[1].dir = s.node
                                        /\ stack'[1].left = Tree.entries[s.node] \ gone
<1> DEFINE frame == [dir |-> s.node, links |-> s.links,
                     left |-> {d \in Dots \cup Tree.entries[s.node] :
                                 ~IsDot(d) /\ d \notin gone}]
<1>1. stack' = IF s.node \notin Unreadable THEN <<frame>> ELSE <<>>
  BY DEF OpenDirectory
<1>2. frame.dir = s.node /\ frame.left = Tree.entries[s.node] \ gone
  BY TreeAssumption DEF IsDot
<1> HIDE DEF frame
<1> QED BY <1>1, <1>2

\* The walk goes on as it began, one case for each action.
LEMMA WalksStep == ASSUME TypeOK, WalksOnce, [Next]_vars PROVE WalksOnce'
<1>t. /\ TypeOK' /\ opts.args \in Seq(Nodes) /\ Len(opts.args) \in Nat
      /\ arg \in 1..(Len(opts.args) + 2)
      /\ stack \in Seq(Frames) /\ stack' \in Seq(Frames)
  <2>1. TypeOK'
    BY TypeStep
  <2> QED BY <2>1, OptionsAssumption DEF TypeOK
<1>o. opts' = opts
  BY DEF Next, Step, DocumentArgument, DirectoryArgument, NoArguments, Exit, SkipEntry, StatFails,
     EnterDirectory, SearchEntry, CloseDirectory, Vanish, Exited, vars
<1> SUFFICES ASSUME opts.recursive # "FOLLOW_SYMLINKS", Len(opts.args) <= 1
             PROVE  /\ Once'
                    /\ arg' = 1 => BagToSet(searched') = {} /\ stack' = <<>>
                    /\ stack' # <<>> => \E D \in SUBSET Nodes : Covers(D)'
  BY <1>o DEF WalksOnce
<1>i. /\ Once
      /\ arg = 1 => BagToSet(searched) = {} /\ stack = <<>>
      /\ stack # <<>> => \E D \in SUBSET Nodes : Covers(D)
  BY DEF WalksOnce
<1>0. CASE UNCHANGED <<searched, arg, stack>>
  <2>1. Once' /\ SearchedNodes' = SearchedNodes
    BY <1>0, <1>i DEF Once, SearchedNodes
  <2>2. ASSUME NEW D, Covers(D) PROVE Covers(D)'
    BY <1>0, <2>1, <2>2 DEF Covers
  <2> QED BY <1>0, <1>i, <2>1, <2>2
<1>1. CASE DocumentArgument
  <2>1. /\ arg = 1 /\ arg' = 2 /\ stack' = <<>> /\ Argument \in Nodes
        /\ do_search_in_document(Argument, 0)
    BY <1>1, <1>t DEF DocumentArgument, AtArgument, Argument
  <2>2. Argument \notin SearchedNodes
    BY <1>i, <2>1 DEF SearchedNodes
  <2>3. Once'
    BY <1>i, <2>1, <2>2, SearchedOnce
  <2> QED BY <2>1, <2>3
<1>f. ASSUME NEW n, NEW s, s.node \in Nodes, OpenDirectory(n, s, <<>>), arg = 1, arg' = 2,
             searched' = searched
      PROVE  /\ Once' /\ arg' # 1
             /\ stack' # <<>> => \E D \in SUBSET Nodes : Covers(D)'
  <2>1. Once' /\ BagToSet(searched') = {}
    BY <1>f, <1>i DEF Once
  <2>2. CASE s.node \in Unreadable
    BY <1>f, <2>1, <2>2 DEF OpenDirectory
  <2>3. CASE s.node \notin Unreadable
    <3>2. /\ DOMAIN stack' = {1} /\ stack'[1].dir = s.node
          /\ stack'[1].left = Tree.entries[s.node] \ gone
      BY <1>f, <2>3, FirstIsOpened
    <3>3. SearchedNodes' = {}
      BY <2>1 DEF SearchedNodes
    <3>4. Covers({})'
      BY <3>2, <3>3 DEF Covers
    <3> QED BY <1>f, <2>1, <3>4
  <2> QED BY <2>2, <2>3
<1>2. CASE DirectoryArgument
  <2>1. /\ arg = 1 /\ arg' = 2 /\ searched' = searched /\ stack = <<>>
    BY <1>2, <1>t DEF DirectoryArgument, AtArgument
  <2>2. PICK s \in Stat(Argument, 0, gone) :
          IF opts.recursive = "NONE"
          THEN Complain(Argument) /\ error' = TRUE /\ UNCHANGED stack
          ELSE /\ OpenDirectory(Argument, s, <<>>)
               /\ error' = (error \/ s.node \in Unreadable)
    BY <1>2 DEF DirectoryArgument
  <2>3. CASE opts.recursive = "NONE"
    BY <1>i, <2>1, <2>2, <2>3 DEF Once
  <2>4. CASE opts.recursive # "NONE"
    <3>1. s.node \in Nodes
      BY StatType
    <3> QED BY <2>1, <2>2, <2>4, <3>1, <1>f
  <2> QED BY <2>3, <2>4
<1>3. CASE NoArguments
  <2>1. /\ arg = 1 /\ arg' = 2 /\ searched' = searched
        /\ OpenDirectory(Cwd, [node |-> Cwd, links |-> 0], <<>>)
    BY <1>3 DEF NoArguments
  <2> QED BY <2>1, <1>f, TreeAssumption
<1>e. ASSUME NEW e \in Nodes \cup Dots, AtEntry(e)
      PROVE  /\ stack # <<>> /\ e \in Top.left /\ e \in Nodes /\ arg # 1
             /\ Read(e) \in Seq(Frames) /\ DOMAIN Read(e) = DOMAIN stack
             /\ Len(Read(e)) = Len(stack) /\ Len(stack) \in DOMAIN stack
             /\ \A i \in DOMAIN stack : /\ Read(e)[i].dir = stack[i].dir
                                        /\ Read(e)[i].left \subseteq stack[i].left
             /\ e \notin Read(e)[Len(stack)].left
  <2>1. stack # <<>> /\ arg # 1
    BY <1>e, <1>i DEF AtEntry
  <2> QED BY <1>e, <2>1, EntryIsRead
<1>r. ASSUME NEW e \in Nodes \cup Dots, AtEntry(e), stack' = Read(e),
             SearchedNodes' \subseteq SearchedNodes \cup {e}
      PROVE  \E D \in SUBSET Nodes : Covers(D)'
  <2>1. PICK D \in SUBSET Nodes : Covers(D)
    BY <1>r, <1>e, <1>i
  <2>2. D \cup {e} \in SUBSET Nodes
    BY <1>r, <1>e
  <2>3. Covers(D \cup {e})'
    <3>1. \A i \in DOMAIN stack : /\ i \in DOMAIN stack' /\ stack'[i].dir = stack[i].dir
                                  /\ stack'[i].left \subseteq stack[i].left
      BY <1>r, <1>e
    <3>2. /\ e \notin stack'[Len(stack)].left /\ DOMAIN stack' \ DOMAIN stack = {}
          /\ stack # <<>> /\ e \in Top.left
      BY <1>r, <1>e
    <3> QED BY <1>r, <1>t, <2>1, <3>1, <3>2, EntryIsDealtWith
  <2> QED BY <2>2, <2>3
<1>4. ASSUME NEW e \in Nodes \cup Dots, SkipEntry(e) \/ StatFails(e)
      PROVE  /\ Once' /\ arg' # 1
             /\ stack' # <<>> => \E D \in SUBSET Nodes : Covers(D)'
  <2>1. AtEntry(e) /\ stack' = Read(e) /\ searched' = searched /\ arg' = arg
    BY <1>4 DEF SkipEntry, StatFails
  <2>2. Once' /\ SearchedNodes' = SearchedNodes
    BY <2>1, <1>i DEF Once, SearchedNodes
  <2> QED BY <2>1, <2>2, <1>e, <1>r
<1>5. ASSUME NEW e \in Nodes \cup Dots, EnterDirectory(e)
      PROVE  /\ Once' /\ arg' # 1
             /\ stack' # <<>> => \E D \in SUBSET Nodes : Covers(D)'
  <2>1. AtEntry(e) /\ searched' = searched /\ arg' = arg
    BY <1>5 DEF EnterDirectory
  <2>2. PICK s \in StatEntry(e) : OpenDirectory(e, s, Read(e))
    BY <1>5 DEF EnterDirectory
  <2>3. e \in Nodes /\ s.node = e
    <3>1. e \in Nodes /\ Entry(e) = e
      BY <2>1, <1>e, TreeAssumption DEF Entry, Dots
    <3> QED BY <3>1 DEF StatEntry, Lstat
  <2>4. Once' /\ SearchedNodes' = SearchedNodes
    BY <2>1, <1>i DEF Once, SearchedNodes
  <2>5. CASE e \in Unreadable
    <3>1. stack' = Read(e)
      BY <2>2, <2>3, <2>5 DEF OpenDirectory
    <3> QED BY <2>1, <2>4, <3>1, <1>e, <1>r
  <2>6. CASE e \notin Unreadable
    <3>3. PICK D \in SUBSET Nodes : Covers(D)
      BY <2>1, <1>e, <1>i
    <3>4. /\ Len(stack) \in Nat /\ DOMAIN stack = 1..Len(stack)
          /\ DOMAIN stack' = 1..(Len(stack) + 1) /\ stack'[Len(stack) + 1].dir = e
          /\ stack'[Len(stack) + 1].left \subseteq Tree.entries[e]
          /\ \A i \in DOMAIN stack : stack'[i] = Read(e)[i]
      <4>1. Read(e) \in Seq(Frames) /\ Len(Read(e)) = Len(stack) /\ DOMAIN Read(e) = DOMAIN stack
        BY <2>1, <1>e
      <4>2. Len(stack) \in Nat /\ DOMAIN stack = 1..Len(stack)
        BY <1>t
      <4> QED BY <2>1, <2>2, <2>3, <2>6, <4>1, <4>2, EntryIsOpened
    <3>5. \A i \in DOMAIN stack : /\ i \in DOMAIN stack' /\ stack'[i].dir = stack[i].dir
                                  /\ stack'[i].left \subseteq stack[i].left
      BY <2>1, <3>4, <1>e
    <3>6. e \notin stack'[Len(stack)].left /\ stack # <<>> /\ e \in Top.left
      BY <2>1, <3>4, <1>e
    <3>7. \A i \in DOMAIN stack' \ DOMAIN stack :
            /\ i = Len(stack) + 1 /\ stack'[i].dir = e
            /\ stack'[i].left \subseteq Tree.entries[e]
      BY <3>4
    <3>8. Covers(D \cup {e})'
      BY <1>t, <2>4, <3>3, <3>5, <3>6, <3>7, EntryIsDealtWith
    <3>9. D \cup {e} \in SUBSET Nodes
      BY <2>3
    <3> QED BY <2>1, <2>4, <3>8, <3>9, <1>e
  <2> QED BY <2>5, <2>6
<1>6. ASSUME NEW e \in Nodes \cup Dots, SearchEntry(e)
      PROVE  /\ Once' /\ arg' # 1
             /\ stack' # <<>> => \E D \in SUBSET Nodes : Covers(D)'
  <2>1. AtEntry(e) /\ stack' = Read(e) /\ do_search_in_document(e, Top.links) /\ arg' = arg
    BY <1>6 DEF SearchEntry
  <2>2. e \notin SearchedNodes
    <3>1. PICK D \in SUBSET Nodes : Covers(D)
      BY <2>1, <1>e, <1>i
    <3>2. e \notin D
      BY <2>1, <3>1, <1>e, EntryIsNew
    <3> QED BY <3>1, <3>2 DEF Covers
  <2>3. Once' /\ SearchedNodes' = SearchedNodes \cup {e}
    BY <2>1, <2>2, <1>e, <1>i, SearchedOnce
  <2> QED BY <2>1, <2>3, <1>e, <1>r
<1>7. CASE CloseDirectory
  <2>1. stack # <<>> /\ stack' = Front(stack) /\ searched' = searched /\ arg' = arg
    BY <1>7 DEF CloseDirectory
  <2>2. Once' /\ SearchedNodes' = SearchedNodes /\ arg # 1
    BY <2>1, <1>i DEF Once, SearchedNodes
  <2>3. ASSUME stack' # <<>>, NEW D, Covers(D) PROVE Covers(D)'
    <3>1. /\ Len(stack) \in Nat /\ DOMAIN stack = 1..Len(stack)
          /\ DOMAIN stack' = 1..(Len(stack) - 1)
          /\ \A i \in DOMAIN stack' : i \in DOMAIN stack /\ stack'[i] = stack[i]
      BY <2>1, <1>t DEF Front
    <3>2. 1 \in DOMAIN stack' /\ \A i \in DOMAIN stack' : i > 1 => i - 1 \in DOMAIN stack'
      <4>1. Len(stack') # 0
        BY <2>3, <1>t
      <4> QED BY <3>1, <4>1, <1>t
    <3> QED BY <2>2, <2>3, <3>1, <3>2 DEF Covers
  <2> QED BY <2>1, <2>2, <2>3, <1>i
<1>8. CASE Exit \/ Exited \/ (\E n \in Removable : Vanish(n)) \/ UNCHANGED vars
  BY <1>8, <1>0 DEF Exit, Exited, Vanish, vars
<1> QED BY <1>1, <1>2, <1>3, <1>4, <1>5, <1>6, <1>7, <1>8, <1>f DEF Next, Step

\* With -r and one argument no file is searched twice, in every tree, whatever
\* disappears from it and in whatever order the entries are read.
THEOREM EveryFileOnce == Spec => []NoneTwice
<1>1. TypeOK /\ WalksOnce => NoneTwice
  BY OnceCounts DEF WalksOnce, NoneTwice
<1>2. Init => TypeOK /\ WalksOnce
  <2> SUFFICES ASSUME Init PROVE WalksOnce
    BY TypeInit
  <2>1. BagToSet(searched) = {} /\ stack = <<>>
    BY DEF Init, EmptyBag, SetToBag, BagToSet
  <2> QED BY <2>1 DEF WalksOnce, Once
<1>3. (TypeOK /\ WalksOnce) /\ [Next]_vars => (TypeOK /\ WalksOnce)'
  BY TypeStep, WalksStep
<1> QED BY <1>1, <1>2, <1>3, PTL DEF Spec

-----------------------------------------------------------------------------
\* What stat() finds is there as well with fewer links on the way and fewer nodes
\* missing.
LEMMA StatSmaller ==
  ASSUME NEW n, NEW links \in Nat, NEW missing, NEW fewer, fewer \subseteq missing,
         NEW s \in Stat(n, links, missing)
  PROVE  \E r \in Stat(n, 0, fewer) : r.node = s.node
<1> DEFINE f[i \in Nat] ==
             IF i = 0 THEN n
             ELSE LET m == f[i - 1] IN IF m \in Links THEN Tree.target[m] ELSE m
           ends == {i \in 0..Cardinality(Links) : f[i] \notin Links}
           P(i, l, gap) == /\ i = Min(ends) /\ l + i <= MaxLinks
                           /\ \A j \in 0..i : f[j] \in Nodes \ gap
<1>1. \A l, gap : Stat(n, l, gap) =
                    {[node |-> f[i], links |-> l + i] : i \in {i \in ends : P(i, l, gap)}}
  BY DEF Stat
<1>2. Cardinality(Links) \in Nat
  BY TreeAssumption, FS_Subset, FS_CardinalityType DEF Links
<1> HIDE DEF f
<1>3. PICK i \in ends : P(i, links, missing) /\ s = [node |-> f[i], links |-> links + i]
  BY <1>1
<1>4. i \in Nat /\ P(i, 0, fewer)
  BY <1>2, <1>3, BoundsAssumption
<1> DEFINE r == [node |-> f[i], links |-> 0 + i]
<1>5. r \in Stat(n, 0, fewer)
  BY <1>1, <1>3, <1>4
<1>6. r.node = s.node
  BY <1>3
<1> QED BY <1>5, <1>6

\* stat() of something that is no link finds this itself.
Follows(f, n) ==
  f = [i \in Nat |-> IF i = 0 THEN n
                     ELSE IF f[i - 1] \in Links THEN Tree.target[f[i - 1]] ELSE f[i - 1]]

LEMMA StatItself ==
  ASSUME NEW n \in Nodes \ Links, NEW missing, n \notin missing
  PROVE  Stat(n, 0, missing) = {[node |-> n, links |-> 0]}
<1> DEFINE step == [k \in Nat |-> [m \in Nodes |-> IF m \in Links THEN Tree.target[m] ELSE m]]
<1>1. PICK g : Recurses(g, Nodes, n, step)
  <2>1. step \in [Nat -> [Nodes -> Nodes]]
    BY TreeAssumption
  <2> HIDE DEF step
  <2> QED BY <2>1, RecursionExists
<1>2. /\ g \in [Nat -> Nodes] /\ g[0] = n
      /\ \A k \in Nat : g[k + 1] = IF g[k] \in Links THEN Tree.target[g[k]] ELSE g[k]
  BY <1>1 DEF Recurses
<1>3. Follows(g, n)
  <2>1. ASSUME NEW i \in Nat
        PROVE  g[i] = IF i = 0 THEN n
                      ELSE IF g[i - 1] \in Links THEN Tree.target[g[i - 1]] ELSE g[i - 1]
    <3>1. CASE i = 0
      BY <1>2, <3>1
    <3>2. CASE i # 0
      <4>1. i - 1 \in Nat /\ (i - 1) + 1 = i
        BY <3>2
      <4> QED BY <1>2, <3>2, <4>1
    <3> QED BY <3>1, <3>2
  <2> QED BY <1>2, <2>1 DEF Follows
<1> DEFINE f == CHOOSE h : Follows(h, n)
           ends == {i \in 0..Cardinality(Links) : f[i] \notin Links}
<1>4. Follows(f, n)
  BY <1>3
<1>5. Stat(n, 0, missing) =
        {[node |-> f[i], links |-> 0 + i] :
           i \in {i \in ends : /\ i = Min(ends) /\ 0 + i <= MaxLinks
                               /\ \A j \in 0..i : f[j] \in Nodes \ missing}}
  BY Zenon DEF Stat, Follows
<1> HIDE DEF f
<1>6. f[0] = n
  BY <1>4 DEF Follows
<1>7. Cardinality(Links) \in Nat
  BY TreeAssumption, FS_Subset, FS_CardinalityType DEF Links
<1>8. Min(ends) = 0 /\ 0 \in ends
  <2>1. 0 \in ends /\ \A i \in ends : i \in Nat
    BY <1>6, <1>7
  <2> HIDE DEF ends
  <2>2. 0 \in ends /\ \A i \in ends : 0 <= i /\ (i # 0 => ~(i <= 0))
    BY <2>1
  <2> QED BY <2>2 DEF Min
<1> DEFINE P(i) == /\ i = Min(ends) /\ 0 + i <= MaxLinks
                   /\ \A j \in 0..i : f[j] \in Nodes \ missing
<1>9. {i \in ends : P(i)} = {0}
  <2> HIDE DEF ends
  <2>1. P(0)
    BY <1>6, <1>8, BoundsAssumption
  <2> QED BY <1>8, <2>1
<1>10. Stat(n, 0, missing) = {[node |-> f[i], links |-> 0 + i] : i \in {0}}
  BY <1>5, <1>9
<1> QED BY <1>6, <1>10

-----------------------------------------------------------------------------
\* The directories below some others, as the least set that has with a directory those
\* in it.
IsUnder(U, dirs, missing) ==
  /\ U \subseteq Nodes /\ dirs \ Unreadable \subseteq U /\ SubDirs(U, missing) \subseteq U
  /\ \A E \in SUBSET Nodes :
       (dirs \ Unreadable \subseteq E /\ SubDirs(E, missing) \subseteq E) => U \subseteq E

LEMMA SubDirsType ==
  ASSUME NEW S \in SUBSET Nodes, NEW missing
  PROVE  /\ SubDirs(S, missing) \subseteq Nodes
         /\ \A T \in SUBSET Nodes : S \subseteq T => SubDirs(S, missing) \subseteq SubDirs(T, missing)
<1>1. EntriesOf(S, missing) \subseteq Nodes
  BY TreeAssumption DEF EntriesOf
<1>2. ASSUME NEW e \in EntriesOf(S, missing) PROVE Behind(e, missing) \subseteq Nodes
  <2>1. ASSUME NEW s \in Stat(e, 0, missing) PROVE s.node \in Nodes
    BY StatType
  <2>2. ASSUME NEW s \in Lstat(e, 0, missing) PROVE s.node \in Nodes
    BY <1>1 DEF Lstat
  <2> QED BY <2>1, <2>2 DEF Behind
<1>3. ASSUME NEW T \in SUBSET Nodes, S \subseteq T
      PROVE  SubDirs(S, missing) \subseteq SubDirs(T, missing)
  <2>1. EntriesOf(S, missing) \subseteq EntriesOf(T, missing)
    BY <1>3 DEF EntriesOf
  <2> QED BY <2>1 DEF SubDirs
<1> QED BY <1>2, <1>3 DEF SubDirs

Reaches(f, dirs, missing) ==
  f = [i \in Nat |-> IF i = 0 THEN dirs \ Unreadable
                     ELSE f[i - 1] \cup SubDirs(f[i - 1], missing)]

LEMMA DirsUnderGrows ==
  ASSUME NEW dirs \in SUBSET Nodes, NEW missing
  PROVE  \E f \in [Nat -> SUBSET Nodes] :
           /\ DirsUnder(dirs, missing) = f[Cardinality(Nodes)]
           /\ f[0] = dirs \ Unreadable
           /\ \A i \in Nat : f[i + 1] = f[i] \cup SubDirs(f[i], missing)
<1> DEFINE T == SUBSET Nodes
           step == [k \in Nat |-> [S \in T |-> S \cup SubDirs(S, missing)]]
           base == dirs \ Unreadable
<1>1. PICK g : Recurses(g, T, base, step)
  <2>1. base \in T /\ step \in [Nat -> [T -> T]]
    BY SubDirsType
  <2> HIDE DEF step, T, base
  <2> QED BY <2>1, RecursionExists
<1>2. /\ g \in [Nat -> SUBSET Nodes] /\ g[0] = dirs \ Unreadable
      /\ \A k \in Nat : g[k + 1] = g[k] \cup SubDirs(g[k], missing)
  <2>1. g \in [Nat -> T] /\ g[0] = base /\ \A k \in Nat : g[k + 1] = step[k][g[k]]
    BY <1>1 DEF Recurses
  <2> QED BY <2>1
<1>3. Reaches(g, dirs, missing)
  <2>1. ASSUME NEW i \in Nat
        PROVE  g[i] = IF i = 0 THEN dirs \ Unreadable
                      ELSE g[i - 1] \cup SubDirs(g[i - 1], missing)
    <3>1. CASE i = 0
      BY <1>2, <3>1
    <3>2. CASE i # 0
      <4>1. i - 1 \in Nat /\ (i - 1) + 1 = i
        BY <3>2
      <4> QED BY <1>2, <3>2, <4>1
    <3> QED BY <3>1, <3>2
  <2> QED BY <1>2, <2>1 DEF Reaches
<1> DEFINE f == CHOOSE h : Reaches(h, dirs, missing)
<1>4. Reaches(f, dirs, missing)
  BY <1>3
<1>5. DirsUnder(dirs, missing) = f[Cardinality(Nodes)]
  BY Zenon DEF DirsUnder, Reaches
<1> HIDE DEF f
<1>6. f[0] = dirs \ Unreadable
  BY <1>4 DEF Reaches
<1>7. ASSUME NEW i \in Nat PROVE f[i + 1] = f[i] \cup SubDirs(f[i], missing)
  <2>1. i + 1 \in Nat /\ i + 1 # 0 /\ (i + 1) - 1 = i
    OBVIOUS
  <2>2. f[i + 1] = f[(i + 1) - 1] \cup SubDirs(f[(i + 1) - 1], missing)
    BY <1>4, <2>1 DEF Reaches
  <2> QED BY <2>1, <2>2
<1>8. f \in [Nat -> SUBSET Nodes]
  <2> DEFINE N == {i \in Nat : f[i] \in SUBSET Nodes}
  <2>1. 0 \in N
    BY <1>6
  <2>2. \A i \in Nat : i \in N => i + 1 \in N
    BY <1>7, SubDirsType
  <2>3. Nat \subseteq N
    <3> HIDE DEF N
    <3> QED BY <2>1, <2>2, Induction
  <2>4. DOMAIN f = Nat /\ f = [i \in DOMAIN f |-> f[i]]
    BY <1>4 DEF Reaches
  <2> QED BY <2>3, <2>4
<1> QED BY <1>5, <1>6, <1>7, <1>8

AllDirsAreUnder ==
  \A dirs \in SUBSET Nodes : \A missing \in SUBSET Nodes :
    IsUnder(DirsUnder(dirs, missing), dirs, missing)

\* After as many rounds as there are nodes nothing new is found.
LEMMA DirsUnderIsLeast == AllDirsAreUnder
<1> SUFFICES ASSUME NEW dirs \in SUBSET Nodes, NEW missing \in SUBSET Nodes
             PROVE  IsUnder(DirsUnder(dirs, missing), dirs, missing)
  BY DEF AllDirsAreUnder
<1>1. PICK f \in [Nat -> SUBSET Nodes] :
        /\ DirsUnder(dirs, missing) = f[Cardinality(Nodes)]
        /\ f[0] = dirs \ Unreadable
        /\ \A i \in Nat : f[i + 1] = f[i] \cup SubDirs(f[i], missing)
  BY DirsUnderGrows
<1>2. Cardinality(Nodes) \in Nat /\ IsFiniteSet(Nodes)
  BY TreeAssumption, FS_CardinalityType
<1>3. \A i \in Nat : i + 1 \in Nat /\ f[i] \subseteq f[i + 1]
  BY <1>1
<1>4. \A i \in Nat : IsFiniteSet(f[i]) /\ Cardinality(f[i]) \in Nat
  BY <1>1, <1>2, FS_Subset, FS_CardinalityType
<1>5. ASSUME NEW i \in Nat, Cardinality(f[i]) >= i \/ f[i + 1] = f[i]
      PROVE  Cardinality(f[i + 1]) >= i + 1 \/ f[(i + 1) + 1] = f[i + 1]
  <2>1. CASE f[i + 1] = f[i]
    <3>1. f[(i + 1) + 1] = f[i + 1] \cup SubDirs(f[i + 1], missing)
      BY <1>1, <1>3
    <3> QED BY <1>1, <2>1, <3>1
  <2>2. CASE f[i + 1] # f[i]
    <3>1. Cardinality(f[i]) <= Cardinality(f[i + 1]) /\ Cardinality(f[i]) # Cardinality(f[i + 1])
      <4>1. IsFiniteSet(f[i + 1]) /\ f[i] \subseteq f[i + 1]
        BY <1>3, <1>4
      <4> QED BY <2>2, <4>1, FS_Subset
    <3>2. Cardinality(f[i]) >= i /\ Cardinality(f[i]) \in Nat /\ Cardinality(f[i + 1]) \in Nat
      BY <1>3, <1>4, <1>5, <2>2
    <3> QED BY <3>1, <3>2
  <2> QED BY <2>1, <2>2
<1>6. \A i \in Nat : Cardinality(f[i]) >= i \/ f[i + 1] = f[i]
  <2> DEFINE N == {i \in Nat : Cardinality(f[i]) >= i \/ f[i + 1] = f[i]}
  <2>1. 0 \in N
    <3>1. Cardinality(f[0]) \in Nat
      BY <1>4
    <3> QED BY <3>1
  <2>2. \A i \in Nat : i \in N => i + 1 \in N
    BY <1>3, <1>5
  <2> HIDE DEF N
  <2>3. Nat \subseteq N
    BY <2>1, <2>2, Induction
  <2> QED BY <2>3 DEF N
<1> DEFINE n == Cardinality(Nodes)
<1>7. f[n + 1] = f[n]
  <2>1. CASE Cardinality(f[n]) >= n
    <3>1. f[n] \subseteq Nodes /\ f[n + 1] \subseteq Nodes /\ f[n] \subseteq f[n + 1]
      BY <1>1, <1>2, <1>3
    <3>2. Cardinality(f[n]) <= n
      BY <1>2, <3>1, FS_Subset
    <3>3. Cardinality(f[n]) = Cardinality(Nodes)
      BY <1>2, <1>4, <2>1, <3>2
    <3>4. f[n] = Nodes
      BY <1>2, <3>1, <3>3, FS_Subset
    <3> QED BY <3>1, <3>4
  <2> QED BY <1>2, <1>6, <2>1
<1>8. SubDirs(f[n], missing) \subseteq f[n]
  BY <1>1, <1>2, <1>7
<1>9. dirs \ Unreadable \subseteq f[n]
  <2> DEFINE N == {i \in Nat : dirs \ Unreadable \subseteq f[i]}
  <2>1. 0 \in N /\ \A i \in Nat : i \in N => i + 1 \in N
    BY <1>1, <1>3
  <2> HIDE DEF N
  <2>2. Nat \subseteq N
    BY <2>1, Induction
  <2> QED BY <1>2, <2>2 DEF N
<1>10. ASSUME NEW E \in SUBSET Nodes, dirs \ Unreadable \subseteq E, SubDirs(E, missing) \subseteq E
       PROVE  f[n] \subseteq E
  <2> DEFINE N == {i \in Nat : f[i] \subseteq E}
  <2>1. 0 \in N
    BY <1>1, <1>10
  <2>2. ASSUME NEW i \in Nat, f[i] \subseteq E PROVE f[i + 1] \subseteq E
    <3>1. SubDirs(f[i], missing) \subseteq SubDirs(E, missing)
      BY <1>1, <2>2, SubDirsType
    <3> QED BY <1>1, <1>10, <2>2, <3>1
  <2>3. \A i \in Nat : i \in N => i + 1 \in N
    BY <2>2
  <2> HIDE DEF N
  <2>4. Nat \subseteq N
    BY <2>1, <2>3, Induction
  <2> QED BY <1>2, <2>4 DEF N
<1>11. f[n] \subseteq Nodes
  BY <1>1, <1>2
<1> QED BY <1>1, <1>8, <1>9, <1>10, <1>11 DEF IsUnder

LEMMA DirsUnderStaysLeast == AllDirsAreUnder'
BY DirsUnderIsLeast, PTL

\* All this depends on the command line alone.
LEMMA SameTree ==
  ASSUME opts' = opts, TypeOK
  PROVE  /\ \A e, missing : Behind(e, missing)' = Behind(e, missing)
         /\ \A missing : ArgumentDirs(missing)' = ArgumentDirs(missing)
         /\ DocumentArguments' = DocumentArguments
         /\ DirsUnder(ArgumentDirs({}), {})' = DirsUnder(ArgumentDirs({}), {})
         /\ Wanted({})' = Wanted({})
<1>1. \A e, missing : Behind(e, missing)' = Behind(e, missing)
  BY DEF Behind
<1>2. \A missing : ArgumentDirs(missing)' = ArgumentDirs(missing)
  BY DEF ArgumentDirs, ArgumentNodes
<1>3. DocumentArguments' = DocumentArguments
  BY DEF DocumentArguments
<1>4. \A S, missing : SubDirs(S, missing)' = SubDirs(S, missing)
  BY <1>1 DEF SubDirs, EntriesOf
<1> DEFINE dirs == ArgumentDirs({})
           U == DirsUnder(dirs, {})
<1>5. dirs \in SUBSET Nodes
  BY StatType DEF ArgumentDirs
<1>6. IsUnder(U, dirs, {})
  BY <1>5, DirsUnderIsLeast DEF AllDirsAreUnder
<1>7. IsUnder(U, dirs, {})'
  <2>1. AllDirsAreUnder'
    BY DirsUnderStaysLeast
  <2>2. dirs' = dirs
    BY <1>2
  <2> QED BY <1>5, <2>1, <2>2 DEF AllDirsAreUnder
<1>8. U' = U
  <2> DEFINE V == U'
  <2>1. /\ U \subseteq Nodes /\ dirs \ Unreadable \subseteq U /\ SubDirs(U, {}) \subseteq U
        /\ \A E \in SUBSET Nodes :
             (dirs \ Unreadable \subseteq E /\ SubDirs(E, {}) \subseteq E) => U \subseteq E
    BY <1>6 DEF IsUnder
  <2>2. /\ U' \subseteq Nodes /\ dirs \ Unreadable \subseteq U' /\ SubDirs(U', {}) \subseteq U'
        /\ \A E \in SUBSET Nodes :
             (dirs \ Unreadable \subseteq E /\ SubDirs(E, {}) \subseteq E) => U' \subseteq E
    BY <1>2, <1>4, <1>7 DEF IsUnder
  <2> QED BY <2>1, <2>2
<1> QED
  BY <1>1, <1>2, <1>3, <1>8 DEF Wanted, EntriesOf

\* What has been searched was to be searched, or is an argument that has disappeared,
\* and so it is with the directories being read.
Allowed == Wanted({}) \cup {a \in Range(opts.args) : Stat(a, 0, gone) = {}}
NothingElse ==
  /\ SearchedNodes \subseteq Allowed
  /\ \A i \in DOMAIN stack : /\ stack[i].dir \in DirsUnder(ArgumentDirs({}), {})
                             /\ stack[i].left \subseteq Tree.entries[stack[i].dir]

\* With -r: E are the directories that were opened.  What is in them and has not
\* disappeared is still to be read, or was searched or opened if it had to be.
Held == UNION {stack[i].left : i \in DOMAIN stack}
DealtWith(e, E) ==
  /\ (Tree.kind[e] = "file" /\ Selected(e)) => e \in SearchedNodes
  /\ (Tree.kind[e] = "dir" /\ e \notin Unreadable) => e \in E
ArgumentDone(a, E) ==
  /\ a \in DocumentArguments => a \in SearchedNodes
  /\ opts.recursive # "NONE" =>
       \A s \in Stat(a, 0, gone) :
         (Tree.kind[s.node] = "dir" /\ s.node \notin Unreadable) => s.node \in E
Explores(E) ==
  /\ \A i \in DOMAIN opts.args : i < arg => ArgumentDone(opts.args[i], E)
  /\ (SearchesCwd /\ arg # 1 /\ Cwd \notin Unreadable) => Cwd \in E
  /\ \A d \in E : \A e \in Tree.entries[d] \ gone : e \in Held \/ DealtWith(e, E)
NothingLost ==
  opts.recursive # "FOLLOW_SYMLINKS" => \E E \in SUBSET Nodes : Explores(E)
EndsProperly ==
  (pc = "exited" /\ ~(opts.quiet /\ Matched)) => stack = <<>> /\ AllArgumentsDone

\* What an entry of an open directory refers to is behind it in the tree as it was.
LEMMA EntryBehind ==
  ASSUME TypeOK, NEW e, AtEntry(e), NEW s \in StatEntry(e)
  PROVE  /\ s.node \in Behind(e, {}) /\ s.node \in Nodes /\ e \in Nodes
         /\ opts.recursive # "FOLLOW_SYMLINKS" => s.node = e
<1>1. e \in Nodes /\ Entry(e) = e /\ Top.links \in Nat /\ stack # <<>>
  <2>1. e \in Nodes /\ Top \in Frames /\ stack # <<>>
    BY EntryIsRead
  <2>2. Top.links \in Nat
    BY <2>1, BoundsAssumption DEF Frames
  <2> QED BY <2>1, <2>2, TreeAssumption DEF Entry, Dots
<1>2. CASE opts.recursive = "FOLLOW_SYMLINKS"
  <2>1. s \in Stat(e, Top.links, gone)
    BY <1>1, <1>2 DEF StatEntry
  <2>2. \E r \in Stat(e, 0, {}) : r.node = s.node
    BY <1>1, <2>1, StatSmaller
  <2> QED BY <1>1, <1>2, <2>1, <2>2, StatType DEF Behind
<1>3. CASE opts.recursive # "FOLLOW_SYMLINKS"
  <2>1. s \in Lstat(e, Top.links, gone)
    BY <1>1, <1>3 DEF StatEntry
  <2>2. s.node = e
    BY <2>1 DEF Lstat
  <2>3. [node |-> e, links |-> 0] \in Lstat(e, 0, {})
    BY DEF Lstat
  <2> QED BY <1>1, <1>3, <2>2, <2>3 DEF Behind
<1> QED BY <1>2, <1>3

\* An argument that is a directory now was one, and what is there now is still what
\* the argument refers to.
LEMMA ArgumentBefore ==
  ASSUME NEW a, NEW s \in Stat(a, 0, gone)
  PROVE  /\ s \in Stat(a, 0, {}) /\ s.node \in Nodes
         /\ a \in DocumentArguments => ~is_dir(a)
         /\ ~is_dir(a) => Tree.kind[s.node] # "dir"
         /\ is_dir(a) => Tree.kind[s.node] = "dir"
         /\ (a \in Range(opts.args) /\ ~is_dir(a)) => a \in DocumentArguments
<1>1. PICK r \in Stat(a, 0, {}) : r.node = s.node
  BY StatSmaller
<1>2. s.node \in Nodes
  BY StatType
<1>3. s \in Stat(a, 0, {})
  <2> DEFINE f[i \in Nat] ==
               IF i = 0 THEN a
               ELSE LET m == f[i - 1] IN IF m \in Links THEN Tree.target[m] ELSE m
             ends == {i \in 0..Cardinality(Links) : f[i] \notin Links}
             P(i, gap) == /\ i = Min(ends) /\ 0 + i <= MaxLinks
                          /\ \A j \in 0..i : f[j] \in Nodes \ gap
  <2>1. \A gap : Stat(a, 0, gap) =
                   {[node |-> f[i], links |-> 0 + i] : i \in {i \in ends : P(i, gap)}}
    BY DEF Stat
  <2> HIDE DEF f
  <2> QED BY <2>1
<1>4. \A r1, r2 \in Stat(a, 0, gone) : r1 = r2
  BY StatUnique
<1>5. \A r1, r2 \in Stat(a, 0, {}) : r1 = r2
  BY StatUnique
<1> QED BY <1>2, <1>3, <1>4, <1>5 DEF is_dir, DocumentArguments

\* Nothing but the current command line and what is gone changes the tree.
LEMMA TreeStays ==
  ASSUME TypeOK, [Next]_vars
  PROVE  opts' = opts /\ gone \subseteq gone'
<1>1. opts' = opts
  BY DEF Next, Step, DocumentArgument, DirectoryArgument, NoArguments, Exit, SkipEntry, StatFails,
     EnterDirectory, SearchEntry, CloseDirectory, Vanish, Exited, vars
<1>2. gone \subseteq gone'
  BY DEF Next, Step, DocumentArgument, DirectoryArgument, NoArguments, Exit, SkipEntry, StatFails,
     EnterDirectory, SearchEntry, CloseDirectory, Vanish, Exited, vars
<1> QED BY <1>1, <1>2

LEMMA NothingElseStep ==
  ASSUME TypeOK, NothingElse, [Next]_vars
  PROVE  NothingElse'
<1>t. /\ TypeOK' /\ opts.args \in Seq(Nodes) /\ Len(opts.args) \in Nat
      /\ arg \in 1..(Len(opts.args) + 2) /\ opts' = opts /\ gone \subseteq gone'
      /\ stack \in Seq(Frames) /\ stack' \in Seq(Frames) /\ gone \subseteq Nodes
  <2>1. TypeOK'
    BY TypeStep
  <2> QED BY <2>1, TreeStays, OptionsAssumption DEF TypeOK
<1> DEFINE dirs == ArgumentDirs({})
           U == DirsUnder(dirs, {})
<1>u. U' = U /\ Wanted({})' = Wanted({})
  BY <1>t, SameTree
<1>l. dirs \subseteq Nodes /\ U \subseteq Nodes /\ dirs \ Unreadable \subseteq U
      /\ SubDirs(U, {}) \subseteq U
  <2>1. dirs \in SUBSET Nodes
    BY StatType DEF ArgumentDirs
  <2>2. IsUnder(U, dirs, {})
    <3> HIDE DEF dirs
    <3> QED BY <2>1, DirsUnderIsLeast DEF AllDirsAreUnder
  <2> QED BY <2>1, <2>2 DEF IsUnder
<1>w. Allowed \subseteq Allowed'
  <2>1. \A a : Stat(a, 0, gone) = {} => Stat(a, 0, gone') = {}
    <3>1. ASSUME NEW a, NEW s \in Stat(a, 0, gone') PROVE Stat(a, 0, gone) # {}
      BY <1>t, StatSmaller
    <3> QED BY <3>1
  <2> QED BY <1>t, <1>u, <2>1 DEF Allowed
<1>i. /\ SearchedNodes \subseteq Allowed
      /\ \A i \in DOMAIN stack : /\ stack[i].dir \in U
                                 /\ stack[i].left \subseteq Tree.entries[stack[i].dir]
  BY DEF NothingElse
<1>k. ASSUME SearchedNodes' \subseteq Allowed',
             \A i \in DOMAIN stack' : /\ stack'[i].dir \in U
                                      /\ stack'[i].left \subseteq Tree.entries[stack'[i].dir]
      PROVE  NothingElse'
  BY <1>k, <1>u DEF NothingElse
<1>s. ASSUME searched' = searched PROVE SearchedNodes' \subseteq Allowed'
  <2>1. SearchedNodes' = SearchedNodes
    BY <1>s DEF SearchedNodes
  <2> QED BY <1>i, <1>w, <2>1
<1> HIDE DEF U, dirs
<1>0. ASSUME UNCHANGED <<searched, stack>> PROVE NothingElse'
  BY <1>0, <1>i, <1>k, <1>s
<1>1. CASE DocumentArgument
  <2>1. /\ Argument \in Nodes /\ Argument \in Range(opts.args) /\ ~is_dir(Argument)
        /\ stack' = stack /\ do_search_in_document(Argument, 0)
    BY <1>1, <1>t DEF DocumentArgument, AtArgument, Argument, Range
  <2>2. SearchedNodes' = SearchedNodes \cup {Argument}
    BY <2>1, SearchedOnce
  <2>3. Argument \in Allowed
    <3>1. CASE Stat(Argument, 0, gone) = {}
      BY <2>1, <3>1 DEF Allowed
    <3>2. ASSUME NEW s \in Stat(Argument, 0, gone) PROVE Argument \in DocumentArguments
      BY <2>1, ArgumentBefore
    <3> QED BY <3>1, <3>2 DEF Allowed, Wanted
  <2> QED BY <1>i, <1>k, <1>w, <2>1, <2>2, <2>3
<1>f. ASSUME NEW n, NEW s, s.node \in dirs, OpenDirectory(n, s, <<>>), searched' = searched
      PROVE  NothingElse'
  <2>1. s.node \in Nodes /\ (s.node \notin Unreadable => s.node \in U)
    BY <1>f, <1>l
  <2>2. \A i \in DOMAIN stack' : /\ stack'[i].dir \in U
                                 /\ stack'[i].left \subseteq Tree.entries[stack'[i].dir]
    BY <1>f, <2>1, FirstIsOpened
  <2> QED BY <1>f, <1>k, <1>s, <2>2
<1>2. CASE DirectoryArgument
  <2>1. /\ searched' = searched /\ is_dir(Argument) /\ Argument \in Range(opts.args)
        /\ opts.args # <<>> /\ stack = <<>>
    BY <1>2, <1>t DEF DirectoryArgument, AtArgument, Argument, Range
  <2>2. PICK s \in Stat(Argument, 0, gone) :
          IF opts.recursive = "NONE"
          THEN Complain(Argument) /\ error' = TRUE /\ UNCHANGED stack
          ELSE /\ OpenDirectory(Argument, s, <<>>)
               /\ error' = (error \/ s.node \in Unreadable)
    BY <1>2 DEF DirectoryArgument
  <2>3. CASE opts.recursive = "NONE"
    BY <1>0, <2>1, <2>2, <2>3
  <2>4. CASE opts.recursive # "NONE"
    <3>1. s \in Stat(Argument, 0, {}) /\ Tree.kind[s.node] = "dir"
      BY <2>1, ArgumentBefore
    <3>2. Argument \in ArgumentNodes
      BY <2>1 DEF ArgumentNodes
    <3>3. s.node \in dirs
      BY <2>4, <3>1, <3>2 DEF dirs, ArgumentDirs
    <3> QED BY <1>f, <2>1, <2>2, <2>4, <3>3
  <2> QED BY <2>3, <2>4
<1>3. CASE NoArguments
  <2>1. /\ searched' = searched /\ OpenDirectory(Cwd, [node |-> Cwd, links |-> 0], <<>>)
        /\ opts.args = <<>> /\ opts.recursive # "NONE"
    BY <1>3 DEF NoArguments, SearchesCwd
  <2>2. Cwd \in Nodes /\ Tree.kind[Cwd] = "dir" /\ Cwd \notin Links
    BY TreeAssumption DEF Links
  <2>3. [node |-> Cwd, links |-> 0] \in Stat(Cwd, 0, {})
    BY <2>2, StatItself
  <2>4. Cwd \in dirs
    BY <2>1, <2>2, <2>3 DEF dirs, ArgumentDirs, ArgumentNodes
  <2> QED BY <1>f, <2>1, <2>4
<1>r. ASSUME NEW e, AtEntry(e)
      PROVE  /\ e \in Tree.entries[Top.dir] /\ Top.dir \in U /\ e \in Nodes
             /\ \A i \in DOMAIN stack : /\ Read(e)[i].dir \in U
                                        /\ Read(e)[i].left \subseteq Tree.entries[Read(e)[i].dir]
             /\ DOMAIN Read(e) = DOMAIN stack
  BY <1>r, <1>i, EntryIsRead
<1>4. ASSUME NEW e \in Nodes \cup Dots, SkipEntry(e) \/ StatFails(e) PROVE NothingElse'
  <2>1. AtEntry(e) /\ stack' = Read(e) /\ searched' = searched
    BY <1>4 DEF SkipEntry, StatFails
  <2> QED BY <2>1, <1>k, <1>r, <1>s
<1>5. ASSUME NEW e \in Nodes \cup Dots, EnterDirectory(e) PROVE NothingElse'
  <2>1. AtEntry(e) /\ searched' = searched
    BY <1>5 DEF EnterDirectory
  <2>2. PICK s \in StatEntry(e) : OpenDirectory(e, s, Read(e))
    BY <1>5 DEF EnterDirectory
  <2>3. Tree.kind[s.node] = "dir"
    <3>1. PICK r \in StatEntry(e) : Tree.kind[r.node] = "dir"
      BY <1>5 DEF EnterDirectory, Kinds
    <3>2. r = s
      BY StatUnique DEF StatEntry, Lstat
    <3> QED BY <3>1, <3>2
  <2>4. s.node \in Behind(e, {}) /\ s.node \in Nodes
    BY <2>1, EntryBehind
  <2>5. s.node \notin Unreadable => s.node \in U
    <3>1. e \in EntriesOf(U, {})
      BY <2>1, <1>r DEF EntriesOf
    <3>2. s.node \notin Unreadable => s.node \in SubDirs(U, {})
      BY <2>3, <2>4, <3>1 DEF SubDirs
    <3> QED BY <3>2, <1>l
  <2>6. \A i \in DOMAIN stack' : /\ stack'[i].dir \in U
                                 /\ stack'[i].left \subseteq Tree.entries[stack'[i].dir]
    <3>1. /\ Read(e) \in Seq(Frames) /\ Len(Read(e)) = Len(stack) /\ DOMAIN stack = 1..Len(stack)
          /\ Len(stack) \in Nat
      BY <2>1, <1>t, EntryIsRead
    <3>2. CASE s.node \in Unreadable
      <4>1. stack' = Read(e)
        BY <2>1, <2>2, <2>4, <3>2, EntryIsOpened
      <4> QED BY <4>1, <2>1, <1>r
    <3>3. CASE s.node \notin Unreadable
      <4>1. /\ DOMAIN stack' = 1..(Len(stack) + 1)
            /\ \A i \in DOMAIN stack : stack'[i] = Read(e)[i]
            /\ stack'[Len(stack) + 1].dir = s.node
            /\ stack'[Len(stack) + 1].left = Tree.entries[s.node] \ gone
        BY <2>1, <2>2, <2>4, <3>3, EntryIsOpened
      <4>2. \A i \in DOMAIN stack' : i \in DOMAIN stack \/ i = Len(stack) + 1
        BY <3>1, <4>1
      <4> QED BY <2>1, <2>5, <3>3, <4>1, <4>2, <1>r
    <3> QED BY <3>2, <3>3
  <2> QED BY <2>1, <2>6, <1>k, <1>s
<1>6. ASSUME NEW e \in Nodes \cup Dots, SearchEntry(e) PROVE NothingElse'
  <2>1. /\ AtEntry(e) /\ stack' = Read(e) /\ do_search_in_document(e, Top.links)
        /\ "file" \in Kinds(e) /\ Selected(e)
    BY <1>6 DEF SearchEntry
  <2>2. SearchedNodes' = SearchedNodes \cup {e}
    BY <2>1, <1>r, SearchedOnce
  <2>3. e \in EntriesOf(U, {}) /\ e \in opts.includes \ opts.excludes
    BY <2>1, <1>r DEF EntriesOf, Selected, is_excluded
  <2>4. \E n \in Behind(e, {}) : Tree.kind[n] = "file"
    BY <2>1, EntryBehind DEF Kinds
  <2>5. e \in Allowed
    BY <2>3, <2>4 DEF Allowed, Wanted, U, dirs
  <2> QED BY <1>i, <1>k, <1>r, <1>w, <2>1, <2>2, <2>5
<1>7. CASE CloseDirectory
  <2>1. stack # <<>> /\ stack' = Front(stack) /\ searched' = searched
    BY <1>7 DEF CloseDirectory
  <2>2. \A i \in DOMAIN stack' : i \in DOMAIN stack /\ stack'[i] = stack[i]
    BY <2>1, <1>t DEF Front
  <2> QED BY <2>1, <2>2, <1>i, <1>k, <1>s
<1>8. CASE Exit \/ Exited \/ (\E n \in Removable : Vanish(n)) \/ UNCHANGED vars
  BY <1>8, <1>0 DEF Exit, Exited, Vanish, vars
<1> QED BY <1>1, <1>2, <1>3, <1>4, <1>5, <1>6, <1>7, <1>8 DEF Next, Step

\* What has been dealt with stays so, as more is searched, opened and removed.
LEMMA DoneStays ==
  ASSUME opts' = opts, gone \subseteq gone', SearchedNodes \subseteq SearchedNodes',
         NEW E, NEW F, E \subseteq F
  PROVE  /\ \A e : DealtWith(e, E) => DealtWith(e, F)'
         /\ \A a : ArgumentDone(a, E) => ArgumentDone(a, F)'
<1>1. \A e : Selected(e)' <=> Selected(e)
  BY DEF Selected, is_excluded
<1>2. \A a : (a \in DocumentArguments)' <=> a \in DocumentArguments
  BY DEF DocumentArguments
<1>3. ASSUME NEW a, NEW s \in Stat(a, 0, gone') PROVE \E r \in Stat(a, 0, gone) : r.node = s.node
  BY StatSmaller
<1>4. ASSUME NEW e, DealtWith(e, E) PROVE DealtWith(e, F)'
  BY <1>1, <1>4 DEF DealtWith
<1>5. ASSUME NEW a, ArgumentDone(a, E) PROVE ArgumentDone(a, F)'
  BY <1>2, <1>3, <1>5 DEF ArgumentDone
<1> QED BY <1>4, <1>5

\* Without -R no step loses a file, one case for each action.
LEMMA NothingLostStep ==
  ASSUME TypeOK, NothingLost, [Next]_vars
  PROVE  NothingLost'
<1>t. /\ opts.args \in Seq(Nodes) /\ Len(opts.args) \in Nat
      /\ arg \in 1..(Len(opts.args) + 2) /\ opts' = opts /\ gone \subseteq gone'
      /\ stack \in Seq(Frames) /\ gone \subseteq Nodes
  BY TreeStays, OptionsAssumption DEF TypeOK
<1> SUFFICES ASSUME opts.recursive # "FOLLOW_SYMLINKS"
             PROVE  \E F \in SUBSET Nodes : Explores(F)'
  BY <1>t DEF NothingLost
<1>i. PICK E \in SUBSET Nodes : Explores(E)
  BY DEF NothingLost
<1>g. ASSUME NEW F \in SUBSET Nodes, E \subseteq F, SearchedNodes \subseteq SearchedNodes',
             arg' = arg \/ (arg' = arg + 1 /\ \A a : (arg \in DOMAIN opts.args /\ a = opts.args[arg])
                                                       => ArgumentDone(a, F)'),
             (SearchesCwd /\ arg = 1 /\ arg' # 1 /\ Cwd \notin Unreadable) => Cwd \in F,
             \A x \in (Held \ Held') \ gone' : DealtWith(x, F)',
             \A d \in F \ E : \A e \in Tree.entries[d] \ gone' : e \in Held'
      PROVE  \E G \in SUBSET Nodes : Explores(G)'
  <2>1. ASSUME NEW i \in DOMAIN opts.args, i < arg', NEW a, a = opts.args[i]
        PROVE  ArgumentDone(a, F)'
    <3>1. i \in Nat
      BY <2>1, <1>t
    <3>2. CASE i < arg
      <4>1. ArgumentDone(a, E)
        BY <1>i, <2>1, <3>2 DEF Explores
      <4> QED BY <1>g, <1>t, <4>1, DoneStays
    <3>3. CASE ~(i < arg)
      <4>1. i = arg /\ arg' = arg + 1
        BY <1>g, <1>t, <2>1, <3>1, <3>3
      <4> QED BY <1>g, <2>1, <4>1
    <3> QED BY <3>2, <3>3
  <2>2. (SearchesCwd' /\ arg' # 1 /\ Cwd \notin Unreadable) => Cwd \in F
    BY <1>g, <1>i, <1>t DEF Explores, SearchesCwd
  <2>3. ASSUME NEW d \in F, NEW e \in Tree.entries[d] \ gone'
        PROVE  e \in Held' \/ DealtWith(e, F)'
    <3>1. CASE d \in E
      <4>1. e \in Held \/ DealtWith(e, E)
        BY <1>i, <1>t, <2>3, <3>1 DEF Explores
      <4>2. DealtWith(e, E) => DealtWith(e, F)'
        BY <1>g, <1>t, DoneStays
      <4> QED BY <1>g, <2>3, <4>1, <4>2
    <3>2. CASE d \notin E
      BY <1>g, <2>3, <3>2
    <3> QED BY <3>1, <3>2
  <2>4. \A i \in DOMAIN opts'.args : i < arg' => ArgumentDone(opts.args[i], F)'
    <3>1. ASSUME NEW i \in DOMAIN opts.args, i < arg' PROVE ArgumentDone(opts.args[i], F)'
      <4>1. PICK a : a = opts.args[i]
        OBVIOUS
      <4>2. ArgumentDone(a, F)'
        BY <2>1, <3>1, <4>1
      <4> QED BY <1>t, <4>1, <4>2 DEF ArgumentDone
    <3> QED BY <1>t, <3>1
  <2>5. Explores(F)'
    BY <2>2, <2>3, <2>4 DEF Explores
  <2> QED BY <2>5
<1>n. ASSUME searched' = searched PROVE SearchedNodes \subseteq SearchedNodes'
  BY <1>n DEF SearchedNodes
<1>0. ASSUME UNCHANGED <<searched, arg>>, Held' = Held PROVE \E G \in SUBSET Nodes : Explores(G)'
  BY <1>0, <1>n, <1>g
<1>1. CASE DocumentArgument
  <2>1. /\ Argument \in Nodes /\ Argument = opts.args[arg] /\ ~is_dir(Argument)
        /\ stack' = stack /\ arg' = arg + 1 /\ do_search_in_document(Argument, 0)
        /\ opts.args # <<>> /\ gone' = gone
    BY <1>1, <1>t DEF DocumentArgument, AtArgument, Argument
  <2>2. SearchedNodes' = SearchedNodes \cup {Argument}
    BY <2>1, SearchedOnce
  <2>3. ASSUME NEW a, a = opts.args[arg] PROVE ArgumentDone(a, E)'
    <3>1. \A s \in Stat(a, 0, gone) : Tree.kind[s.node] # "dir"
      BY <2>1, <2>3, ArgumentBefore
    <3>2. a \in SearchedNodes'
      BY <2>1, <2>2, <2>3
    <3> QED BY <2>1, <3>1, <3>2 DEF ArgumentDone
  <2>4. Held' = Held /\ ~SearchesCwd
    BY <2>1 DEF Held, SearchesCwd
  <2> QED BY <1>g, <2>1, <2>2, <2>3, <2>4
<1>f. ASSUME NEW n, NEW s, s.node \in Nodes, OpenDirectory(n, s, <<>>), stack = <<>>, gone' = gone
      PROVE  /\ s.node \notin Unreadable => \A e \in Tree.entries[s.node] \ gone' : e \in Held'
             /\ Held = {}
  <2>1. Held = {}
    BY <1>f DEF Held
  <2>2. ASSUME s.node \notin Unreadable, NEW e \in Tree.entries[s.node] \ gone' PROVE e \in Held'
    <3>1. DOMAIN stack' = {1} /\ stack'[1].left = Tree.entries[s.node] \ gone
      BY <1>f, <2>2, FirstIsOpened
    <3> QED BY <1>f, <2>2, <3>1 DEF Held
  <2> QED BY <2>1, <2>2
<1>2. CASE DirectoryArgument
  <2>1. /\ searched' = searched /\ is_dir(Argument) /\ Argument = opts.args[arg]
        /\ opts.args # <<>> /\ stack = <<>> /\ arg' = arg + 1 /\ gone' = gone
    BY <1>2, <1>t DEF DirectoryArgument, AtArgument, Argument
  <2>2. PICK s \in Stat(Argument, 0, gone) :
          IF opts.recursive = "NONE"
          THEN Complain(Argument) /\ error' = TRUE /\ UNCHANGED stack
          ELSE /\ OpenDirectory(Argument, s, <<>>)
               /\ error' = (error \/ s.node \in Unreadable)
    BY <1>2 DEF DirectoryArgument
  <2>3. s.node \in Nodes /\ Argument \notin DocumentArguments
    BY <2>1, ArgumentBefore
  <2>4. ~SearchesCwd /\ SearchedNodes \subseteq SearchedNodes'
    BY <2>1, <1>n DEF SearchesCwd
  <2>5. DocumentArguments' = DocumentArguments
    BY <1>t DEF DocumentArguments
  <2>6. CASE opts.recursive = "NONE"
    <3>1. stack' = stack /\ Held' = Held
      BY <2>2, <2>6 DEF Held
    <3>2. \A a : a = opts.args[arg] => ArgumentDone(a, E)'
      BY <1>t, <2>1, <2>3, <2>5, <2>6 DEF ArgumentDone
    <3> QED BY <1>g, <2>1, <2>4, <3>1, <3>2
  <2>7. CASE opts.recursive # "NONE"
    <3> DEFINE F == IF s.node \in Unreadable THEN E ELSE E \cup {s.node}
    <3>1. F \in SUBSET Nodes /\ E \subseteq F /\ \A d \in F \ E : d = s.node /\ d \notin Unreadable
      BY <2>3
    <3>2. \A r \in Stat(Argument, 0, gone) : r = s
      BY StatUnique
    <3>3. \A a : a = opts.args[arg] => ArgumentDone(a, F)'
      BY <1>t, <2>1, <2>3, <2>5, <3>2 DEF ArgumentDone
    <3>4. /\ s.node \notin Unreadable => \A e \in Tree.entries[s.node] \ gone' : e \in Held'
          /\ Held = {}
      BY <1>f, <2>1, <2>2, <2>3, <2>7
    <3> HIDE DEF F
    <3> QED BY <1>g, <2>1, <2>4, <3>1, <3>3, <3>4
  <2> QED BY <2>6, <2>7
<1>3. CASE NoArguments
  <2>1. /\ searched' = searched /\ OpenDirectory(Cwd, [node |-> Cwd, links |-> 0], <<>>)
        /\ opts.args = <<>> /\ arg = 1 /\ arg' = arg + 1 /\ stack = <<>> /\ gone' = gone
    BY <1>3 DEF NoArguments, SearchesCwd
  <2> DEFINE F == IF Cwd \in Unreadable THEN E ELSE E \cup {Cwd}
  <2>2. /\ F \in SUBSET Nodes /\ E \subseteq F /\ \A d \in F \ E : d = Cwd /\ d \notin Unreadable
        /\ Cwd \notin Unreadable => Cwd \in F
    BY TreeAssumption
  <2>3. /\ Cwd \notin Unreadable => \A e \in Tree.entries[Cwd] \ gone' : e \in Held'
        /\ Held = {}
    <3> DEFINE s == [node |-> Cwd, links |-> 0]
    <3>1. s.node = Cwd /\ s.node \in Nodes /\ OpenDirectory(Cwd, s, <<>>)
      BY <2>1, TreeAssumption
    <3> HIDE DEF s
    <3> QED BY <1>f, <2>1, <3>1
  <2>4. arg \notin DOMAIN opts.args
    BY <2>1
  <2> HIDE DEF F
  <2> QED BY <1>g, <1>n, <2>1, <2>2, <2>3, <2>4
<1>r. ASSUME NEW e, AtEntry(e), \A i \in DOMAIN stack : i \in DOMAIN stack' /\ stack'[i] = Read(e)[i]
      PROVE  /\ e \in Nodes /\ \A x \in Held \ Held' : x = e
  <2>1. ASSUME NEW x \in Held, x # e PROVE x \in Held'
    <3>1. PICK i \in DOMAIN stack : x \in stack[i].left
      BY <2>1 DEF Held
    <3>2. x \in Read(e)[i].left
      BY <1>r, <2>1, <3>1, EntryIsRead
    <3> QED BY <1>r, <3>1, <3>2 DEF Held
  <2> QED BY <1>r, <2>1, EntryIsRead
<1>d. ASSUME NEW e, AtEntry(e), arg' = arg, stack' = Read(e),
             SearchedNodes \subseteq SearchedNodes', e \in gone' \/ DealtWith(e, E)'
      PROVE  \E G \in SUBSET Nodes : Explores(G)'
  <2>1. \A i \in DOMAIN stack : i \in DOMAIN stack' /\ stack'[i] = Read(e)[i]
    BY <1>d, EntryIsRead
  <2>2. \A x \in (Held \ Held') \ gone' : DealtWith(x, E)'
    BY <1>d, <1>r, <2>1
  <2> QED BY <1>d, <1>g, <1>t, <2>2
<1>o. \A e : Selected(e)' <=> Selected(e)
  BY <1>t DEF Selected, is_excluded
\* What an entry is, if it is still there.
<1>b. ASSUME NEW e, AtEntry(e)
      PROVE  e \in gone \/ Kinds(e) = {Tree.kind[e]}
  <2>1. e \in Nodes /\ Entry(e) = e
    BY <1>b, EntryIsRead, TreeAssumption DEF Entry, Dots
  <2>2. StatEntry(e) = IF e \in gone THEN {} ELSE {[node |-> e, links |-> Top.links]}
    BY <2>1 DEF StatEntry, Lstat
  <2>3. CASE e \notin gone
    <3> DEFINE s == [node |-> e, links |-> Top.links]
    <3>1. s.node = e /\ StatEntry(e) = {s}
      BY <2>2, <2>3
    <3> HIDE DEF s
    <3> QED BY <3>1 DEF Kinds
  <2> QED BY <2>3
<1>4. ASSUME NEW e \in Nodes \cup Dots, SkipEntry(e) \/ StatFails(e)
      PROVE  \E G \in SUBSET Nodes : Explores(G)'
  <2>1. AtEntry(e) /\ stack' = Read(e) /\ searched' = searched /\ arg' = arg /\ gone' = gone
    BY <1>4 DEF SkipEntry, StatFails
  <2>2. e \in gone' \/ DealtWith(e, E)'
    <3>1. CASE SkipEntry(e)
      BY <1>b, <1>o, <2>1, <3>1 DEF SkipEntry, DealtWith
    <3>2. CASE StatFails(e)
      BY <1>b, <2>1, <3>2 DEF StatFails, Kinds
    <3> QED BY <1>4, <3>1, <3>2
  <2> QED BY <2>1, <2>2, <1>d, <1>n
<1>5. ASSUME NEW e \in Nodes \cup Dots, EnterDirectory(e)
      PROVE  \E G \in SUBSET Nodes : Explores(G)'
  <2>1. AtEntry(e) /\ searched' = searched /\ arg' = arg /\ gone' = gone /\ "dir" \in Kinds(e)
    BY <1>5 DEF EnterDirectory
  <2>2. PICK s \in StatEntry(e) : OpenDirectory(e, s, Read(e))
    BY <1>5 DEF EnterDirectory
  <2>3. s.node = e /\ e \in Nodes
    BY <2>1, EntryBehind
  <2>4. /\ Read(e) \in Seq(Frames) /\ Len(Read(e)) = Len(stack) /\ DOMAIN stack = 1..Len(stack)
        /\ Len(stack) \in Nat /\ DOMAIN Read(e) = DOMAIN stack
    BY <2>1, <1>t, EntryIsRead
  <2>5. e \in gone \/ Tree.kind[e] = "dir"
    BY <2>1, <1>b
  <2>6. CASE e \in Unreadable
    <3>1. stack' = Read(e)
      BY <2>1, <2>2, <2>3, <2>6, EntryIsOpened
    <3>2. e \in gone' \/ DealtWith(e, E)'
      BY <2>1, <2>5, <2>6 DEF DealtWith
    <3> QED BY <2>1, <3>1, <3>2, <1>d, <1>n
  <2>7. CASE e \notin Unreadable
    <3> DEFINE F == E \cup {e}
    <3>1. /\ DOMAIN stack' = 1..(Len(stack) + 1)
          /\ \A i \in DOMAIN stack : stack'[i] = Read(e)[i]
          /\ stack'[Len(stack) + 1].left = Tree.entries[e] \ gone
      BY <2>1, <2>2, <2>3, <2>7, EntryIsOpened
    <3>2. \A i \in DOMAIN stack : i \in DOMAIN stack'
      BY <2>4, <3>1
    <3>3. \A x \in Held \ Held' : x = e
      BY <1>r, <2>1, <3>1, <3>2
    <3>4. DealtWith(e, F)' \/ e \in gone'
      BY <2>1, <2>5 DEF DealtWith
    <3>5. \A x \in Tree.entries[e] \ gone' : x \in Held'
      <4>1. Len(stack) + 1 \in DOMAIN stack'
        BY <2>4, <3>1
      <4> QED BY <2>1, <3>1, <4>1 DEF Held
    <3>6. F \in SUBSET Nodes /\ E \subseteq F /\ \A d \in F \ E : d = e
      BY <2>3
    <3> HIDE DEF F
    <3>7. \A x \in (Held \ Held') \ gone' : DealtWith(x, F)'
      BY <3>3, <3>4
    <3>8. SearchedNodes \subseteq SearchedNodes'
      BY <2>1, <1>n
    <3>9. \A d \in F \ E : \A x \in Tree.entries[d] \ gone' : x \in Held'
      BY <3>5, <3>6
    <3> QED BY <1>g, <1>t, <2>1, <3>6, <3>7, <3>8, <3>9
  <2> QED BY <2>6, <2>7
<1>6. ASSUME NEW e \in Nodes \cup Dots, SearchEntry(e)
      PROVE  \E G \in SUBSET Nodes : Explores(G)'
  <2>1. /\ AtEntry(e) /\ stack' = Read(e) /\ do_search_in_document(e, Top.links)
        /\ "file" \in Kinds(e) /\ arg' = arg /\ gone' = gone /\ e \in Nodes
    BY <1>6, EntryIsRead DEF SearchEntry
  <2>2. SearchedNodes' = SearchedNodes \cup {e}
    BY <2>1, SearchedOnce
  <2>3. e \in gone' \/ DealtWith(e, E)'
    BY <2>1, <2>2, <1>b DEF DealtWith
  <2> QED BY <2>1, <2>2, <2>3, <1>d
<1>7. CASE CloseDirectory
  <2>1. /\ stack # <<>> /\ stack' = Front(stack) /\ searched' = searched /\ arg' = arg
        /\ Top.left = {}
    BY <1>7 DEF CloseDirectory
  <2>2. /\ DOMAIN stack = 1..Len(stack) /\ DOMAIN stack' = 1..(Len(stack) - 1) /\ Len(stack) \in Nat
        /\ \A i \in DOMAIN stack' : stack'[i] = stack[i]
        /\ stack[Len(stack)].left = {}
    BY <2>1, <1>t DEF Front, Top, Last
  <2>3. Held' = Held
    <3>1. \A i \in DOMAIN stack : i \in DOMAIN stack' \/ i = Len(stack)
      BY <2>2
    <3>2. \A i \in DOMAIN stack' : i \in DOMAIN stack
      BY <2>2
    <3> QED BY <2>2, <3>1, <3>2 DEF Held
  <2> QED BY <2>1, <2>3, <1>0
<1>8. CASE Exit \/ Exited \/ (\E n \in Removable : Vanish(n)) \/ UNCHANGED vars
  <2>1. UNCHANGED <<searched, arg, stack>>
    BY <1>8 DEF Exit, Exited, Vanish, vars
  <2>2. Held' = Held
    BY <2>1 DEF Held
  <2> QED BY <2>1, <2>2, <1>0
<1> QED BY <1>1, <1>2, <1>3, <1>4, <1>5, <1>6, <1>7, <1>8 DEF Next, Step

LEMMA EndsProperlyStep ==
  ASSUME TypeOK, EndsProperly, [Next]_vars
  PROVE  EndsProperly'
<1>1. opts' = opts
  BY TreeStays
<1>s. ASSUME NEW n \in Nodes, NEW links, do_search_in_document(n, links), pc = "run"
      PROVE  EndsProperly'
  BY <1>1, <1>s, SearchCounts DEF EndsProperly
<1>2. CASE DocumentArgument
  <2>1. Argument \in Nodes
    <3>1. opts.args \in Seq(Nodes) /\ arg \in 1..(Len(opts.args) + 2)
      BY OptionsAssumption DEF TypeOK
    <3> QED BY <1>2, <3>1 DEF DocumentArgument, AtArgument, Argument
  <2> QED BY <1>2, <2>1, <1>s DEF DocumentArgument, AtArgument
<1>3. ASSUME NEW e, SearchEntry(e) PROVE EndsProperly'
  <2>1. e \in Nodes /\ pc = "run" /\ do_search_in_document(e, Top.links)
    BY <1>3, EntryIsRead DEF SearchEntry, AtEntry
  <2> QED BY <2>1, <1>s
<1>4. CASE Exit
  BY <1>1, <1>4 DEF Exit, EndsProperly, AllArgumentsDone, SearchesCwd
<1>5. CASE Exited \/ UNCHANGED vars
  BY <1>5 DEF Exited, vars, EndsProperly, Matched, AllArgumentsDone, SearchesCwd
<1>6. ASSUME pc' = "run" PROVE EndsProperly'
  BY <1>6 DEF EndsProperly
<1> QED
  BY <1>2, <1>3, <1>4, <1>5, <1>6 DEF Next, Step, DirectoryArgument, AtArgument, NoArguments,
     SkipEntry, StatFails, EnterDirectory, AtEntry, CloseDirectory, Vanish

\* At the end nothing is left to be read: what was opened is all there is to open.
LEMMA AllIsFound ==
  ASSUME TypeOK, NothingLost, opts.recursive # "FOLLOW_SYMLINKS", stack = <<>>, AllArgumentsDone
  PROVE  Wanted(gone) \subseteq SearchedNodes
<1>t. /\ opts.args \in Seq(Nodes) /\ DOMAIN opts.args = 1..Len(opts.args) /\ Len(opts.args) \in Nat
      /\ arg \in Nat /\ gone \in SUBSET Nodes
  BY OptionsAssumption DEF TypeOK
<1>i. PICK E \in SUBSET Nodes : Explores(E)
  BY DEF NothingLost
<1> DEFINE dirs == ArgumentDirs(gone)
<1>1. \A i \in DOMAIN opts.args : ArgumentDone(opts.args[i], E)
  BY <1>i, <1>t DEF Explores, AllArgumentsDone
<1>2. \A a \in Range(opts.args) : ArgumentDone(a, E)
  BY <1>1 DEF Range
<1>3. \A d \in E : \A e \in Tree.entries[d] \ gone : DealtWith(e, E)
  <2>1. Held = {}
    BY DEF Held
  <2> QED BY <1>i, <2>1 DEF Explores
<1>4. \A e \in Nodes : Behind(e, gone) \subseteq {e}
  BY DEF Behind, Lstat
<1>5. dirs \in SUBSET Nodes
  BY StatType DEF ArgumentDirs
<1>6. dirs \ Unreadable \subseteq E
  <2> SUFFICES ASSUME NEW d \in dirs, d \notin Unreadable PROVE d \in E
    OBVIOUS
  <2>1. opts.recursive # "NONE" /\ Tree.kind[d] = "dir"
    BY DEF ArgumentDirs
  <2>2. PICK a \in ArgumentNodes : \E s \in Stat(a, 0, gone) : s.node = d
    BY <2>1 DEF ArgumentDirs
  <2>3. CASE opts.args = <<>>
    <3>1. a = Cwd /\ SearchesCwd /\ arg = 2
      BY <2>1, <2>2, <2>3 DEF ArgumentNodes, SearchesCwd, AllArgumentsDone
    <3>2. Cwd \in Nodes \ Links
      BY TreeAssumption DEF Links
    <3>3. [node |-> Cwd, links |-> 0] \in Stat(Cwd, 0, {})
      BY <3>2, StatItself
    <3>4. \A s \in Stat(a, 0, gone) : s.node = Cwd
      <4>1. ASSUME NEW s \in Stat(Cwd, 0, gone) PROVE s.node = Cwd
        <5>1. s \in Stat(Cwd, 0, {})
          BY ArgumentBefore
        <5>2. s = [node |-> Cwd, links |-> 0]
          BY <3>3, <5>1, StatUnique
        <5> QED BY <5>2
      <4> QED BY <3>1, <4>1
    <3>5. d = Cwd
      BY <2>2, <3>4
    <3> QED BY <1>i, <3>1, <3>5 DEF Explores
  <2>4. CASE opts.args # <<>>
    <3>1. ArgumentDone(a, E)
      BY <1>2, <2>2, <2>4 DEF ArgumentNodes
    <3> QED BY <2>1, <2>2, <3>1 DEF ArgumentDone
  <2> QED BY <2>3, <2>4
<1>7. SubDirs(E, gone) \subseteq E
  <2> SUFFICES ASSUME NEW d \in SubDirs(E, gone) PROVE d \in E
    OBVIOUS
  <2>1. PICK e \in EntriesOf(E, gone) : d \in Behind(e, gone)
    BY DEF SubDirs
  <2>2. Tree.kind[d] = "dir" /\ d \notin Unreadable
    BY DEF SubDirs
  <2>3. PICK p \in E : e \in Tree.entries[p] \ gone
    <3>1. e \in EntriesOf(E, gone)
      BY <2>1
    <3> QED BY <3>1, Zenon DEF EntriesOf
  <2>4. e \in Nodes
    BY <2>3, TreeAssumption
  <2>5. d = e
    BY <1>4, <2>1, <2>4
  <2>6. DealtWith(e, E)
    BY <1>3, <2>3
  <2> QED BY <2>2, <2>5, <2>6 DEF DealtWith
<1>8. DirsUnder(dirs, gone) \subseteq E
  <2> HIDE DEF dirs
  <2>1. IsUnder(DirsUnder(dirs, gone), dirs, gone)
    BY <1>5, <1>t, DirsUnderIsLeast DEF AllDirsAreUnder
  <2> QED BY <1>6, <1>7, <2>1 DEF IsUnder
<1>9. ASSUME NEW e \in Wanted(gone) PROVE e \in SearchedNodes
  <2>1. CASE e \in DocumentArguments
    <3>1. e \in Range(opts.args)
      BY <2>1 DEF DocumentArguments
    <3> QED BY <1>2, <2>1, <3>1 DEF ArgumentDone
  <2>2. CASE e \notin DocumentArguments
    <3>1. /\ e \in EntriesOf(DirsUnder(dirs, gone), gone) /\ e \in opts.includes \ opts.excludes
          /\ \E n \in Behind(e, gone) : Tree.kind[n] = "file"
      BY <1>9, <2>2 DEF Wanted
    <3>2. PICK d \in E : e \in Tree.entries[d] \ gone
      <4> DEFINE V == DirsUnder(dirs, gone)
      <4>1. e \in EntriesOf(V, gone) /\ V \subseteq E
        BY <1>8, <3>1
      <4> HIDE DEF V
      <4> QED BY <4>1, Zenon DEF EntriesOf
    <3>3. e \in Nodes
      BY <3>2, TreeAssumption
    <3>4. Tree.kind[e] = "file" /\ Selected(e)
      BY <1>4, <3>1, <3>3 DEF Selected, is_excluded
    <3>5. DealtWith(e, E)
      BY <1>3, <3>2
    <3> QED BY <3>4, <3>5 DEF DealtWith
  <2> QED BY <2>1, <2>2
<1> QED BY <1>9

\* The invariants hold at first.
LEMMA SearchingInit == Init => NothingElse /\ NothingLost /\ EndsProperly
<1> SUFFICES ASSUME Init PROVE NothingElse /\ NothingLost /\ EndsProperly
  OBVIOUS
<1>1. SearchedNodes = {} /\ stack = <<>> /\ arg = 1 /\ pc = "run"
  BY DEF Init, EmptyBag, SetToBag, BagToSet, SearchedNodes
<1>2. opts.args \in Seq(Nodes)
  BY OptionsAssumption DEF Init
<1>3. Explores({})
  BY <1>1, <1>2 DEF Explores
<1> QED BY <1>1, <1>3 DEF NothingElse, NothingLost, EndsProperly

\* Nothing is searched but what the arguments and the selection name, with -R as well.
THEOREM NothingElseIsSearched == Spec => [](SearchedNodes \subseteq Allowed)
<1>1. NothingElse => SearchedNodes \subseteq Allowed
  BY DEF NothingElse
<1>2. Init => TypeOK /\ NothingElse
  BY TypeInit, SearchingInit
<1>3. (TypeOK /\ NothingElse) /\ [Next]_vars => (TypeOK /\ NothingElse)'
  BY TypeStep, NothingElseStep
<1> QED BY <1>1, <1>2, <1>3, PTL DEF Spec

\* Without -R exactly the right files are searched in every tree, in whatever order the
\* entries are read, whatever fails on the way, and whatever disappears meanwhile.
\* (With -R a directory may be out of reach because of the kernel's bound on links.)
THEOREM RightFilesAreSearched ==
  Spec => [](opts.recursive # "FOLLOW_SYMLINKS" => SearchesTheRightFiles)
<1> DEFINE Inv == TypeOK /\ NothingElse /\ NothingLost /\ EndsProperly
<1>1. Inv => (opts.recursive # "FOLLOW_SYMLINKS" => SearchesTheRightFiles)
  <2> SUFFICES ASSUME Inv, opts.recursive # "FOLLOW_SYMLINKS", pc = "exited", ~(opts.quiet /\ Matched)
               PROVE  Wanted(gone) \subseteq SearchedNodes /\ SearchedNodes \subseteq Allowed
    BY DEF SearchesTheRightFiles, Allowed
  <2>1. stack = <<>> /\ AllArgumentsDone
    BY DEF EndsProperly
  <2> QED BY <2>1, AllIsFound DEF NothingElse
<1>2. Init => Inv
  BY TypeInit, SearchingInit
<1>3. Inv /\ [Next]_vars => Inv'
  BY TypeStep, NothingElseStep, NothingLostStep, EndsProperlyStep
<1> QED BY <1>1, <1>2, <1>3, PTL DEF Spec
=============================================================================
