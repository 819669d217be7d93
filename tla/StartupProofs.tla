----------------------------- MODULE StartupProofs -----------------------------
(***************************************************************************)
(* Proofs about limit_cachesize(), for any number of processes, files,     *)
(* ages and limits: what is unlinked and what is spared.  Then pdfgrep up  *)
(* to its file loop: main() with its call of limit_cachesize() implements  *)
(* main() by itself and, together with the other processes,                *)
(* limit_cachesize() by itself.  So what OptionParsing and CacheLimit      *)
(* promise holds for the whole.                                            *)
(***************************************************************************)
EXTENDS Startup, OptionParsingProofs

LEMMA WordsFit ==
  /\ IntMax \in Nat /\ IntMin \in Int /\ IntMin < 0
  /\ Limits \subseteq IntMin..IntMax /\ 0 \in IntMin..IntMax
BY WordsAssumption, LimitsAssumption DEF IntMin

\* What the sorted list is: every file once.
LEMMA OrderType ==
  ASSUME NEW p \in Procs, listed[p] \in SUBSET Files, NEW s \in Orders(p)
  PROVE  /\ Cardinality(listed[p]) \in Nat /\ s \in Seq(listed[p])
         /\ Len(s) = Cardinality(listed[p]) /\ s \in Seq(Files)
         /\ \A f \in listed[p] : \E i \in 1..Len(s) : s[i] = f
<1> DEFINE S == listed[p]
<1>1. Cardinality(S) \in Nat
  BY DirectoryAssumption, FS_Subset, FS_CardinalityType
<1>0. s \in Bijection(1..Cardinality(S), S)
  BY DEF Orders
<1>2. s \in [1..Cardinality(S) -> S]
  BY <1>0 DEF Bijection, Injection
<1>4. \A f \in S : \E i \in 1..Cardinality(S) : s[i] = f
  BY <1>0 DEF Bijection, Surjection
<1>6. S \subseteq Files
  OBVIOUS
<1> HIDE DEF S
<1>3. s \in Seq(S) /\ Len(s) = Cardinality(S)
  BY <1>1, <1>2
<1>5. s \in Seq(Files)
  BY <1>1, <1>2, <1>6
<1> QED BY <1>1, <1>3, <1>4, <1>5 DEF S

-----------------------------------------------------------------------------
LEMMA LimitTypeStep ==
  ASSUME LimitTypeOK, [LimitNext]_limitVars
  PROVE  LimitTypeOK'
<1>0. CASE UNCHANGED limitVars
  BY <1>0 DEF LimitTypeOK, limitVars
<1>1. ASSUME NEW p \in Procs, NEW l \in Limits, Call(p, l)
      PROVE  LimitTypeOK'
  BY <1>1, WordsFit DEF LimitTypeOK, Call
<1>2. ASSUME NEW p \in Procs, NEW f \in Files, Filter(p, f)
      PROVE  LimitTypeOK'
  BY <1>2 DEF LimitTypeOK, Filter
<1>3. ASSUME NEW p \in Procs, Sort(p)
      PROVE  LimitTypeOK'
  <2>1. PICK s \in Orders(p) :
          /\ namelist' = [namelist EXCEPT ![p] = s]
          /\ n' = [n EXCEPT ![p] = Len(s)]
    BY <1>3 DEF Sort
  <2>2. s \in Seq(Files) /\ Len(s) \in Nat
    BY <2>1, OrderType DEF LimitTypeOK
  <2>3. namelist' \in [Procs -> Seq(Files)] /\ n' \in [Procs -> Nat]
    BY <2>1, <2>2 DEF LimitTypeOK
  <2>4. \A q \in Procs : n'[q] <= Len(namelist'[q])
    BY <2>1, <2>2 DEF LimitTypeOK
  <2> QED BY <1>3, <2>3, <2>4 DEF LimitTypeOK, Sort
<1>4. ASSUME NEW p \in Procs, Keep(p)
      PROVE  LimitTypeOK'
  <2>1. entries' \in [Procs -> IntMin..IntMax]
    BY <1>4, WordsFit DEF LimitTypeOK, Keep, Decremented
  <2>2. n' \in [Procs -> Nat] /\ \A q \in Procs : n'[q] <= Len(namelist[q])
    BY <1>4 DEF LimitTypeOK, Keep
  <2> QED BY <1>4, <2>1, <2>2 DEF LimitTypeOK, Keep
<1>5. ASSUME NEW p \in Procs, Unlink(p)
      PROVE  LimitTypeOK'
  <2>1. entries' \in [Procs -> IntMin..IntMax]
    BY <1>5, WordsFit DEF LimitTypeOK, Unlink, Decremented
  <2>2. n' \in [Procs -> Nat] /\ \A q \in Procs : n'[q] <= Len(namelist[q])
    BY <1>5 DEF LimitTypeOK, Unlink
  <2>3. namelist[p][n[p]] \in Files
    BY <1>5 DEF LimitTypeOK, Unlink
  <2>4. removed' \in [Procs -> SUBSET Files]
    BY <1>5, <2>3 DEF LimitTypeOK, Unlink
  <2>5. DOMAIN mtime' \subseteq Files /\ \A f \in DOMAIN mtime' : mtime'[f] \in 0..Now
    BY <1>5 DEF LimitTypeOK, Unlink
  <2> QED BY <1>5, <2>1, <2>2, <2>4, <2>5 DEF LimitTypeOK, Unlink
<1>6. ASSUME NEW p \in Procs, Return(p)
      PROVE  LimitTypeOK'
  BY <1>6 DEF LimitTypeOK, Return
<1>7. ASSUME NEW p \in Procs, NEW f \in Files, Dump(p, f)
      PROVE  LimitTypeOK'
  <2>1. DOMAIN mtime' \subseteq Files /\ \A g \in DOMAIN mtime' : mtime'[g] \in 0..Now
    BY <1>7, DirectoryAssumption DEF LimitTypeOK, Dump
  <2> QED BY <1>7, <2>1 DEF LimitTypeOK, Dump
<1> QED BY <1>0, <1>1, <1>2, <1>3, <1>4, <1>5, <1>6, <1>7 DEF LimitNext, Limit

LEMMA LimitTypeInit == LimitInit => LimitTypeOK
<1> SUFFICES ASSUME LimitInit PROVE LimitTypeOK
  OBVIOUS
<1>1. /\ DOMAIN mtime \subseteq Files /\ \A f \in DOMAIN mtime : mtime[f] \in 0..Now
      /\ first \in Contents
  BY DirectoryAssumption DEF LimitInit
<1>2. \A p \in Procs : n[p] <= Len(namelist[p])
  BY DEF LimitInit
<1> QED BY <1>1, <1>2, WordsFit DEF LimitInit, LimitTypeOK

\* The state of limit_cachesize is well typed: no counter leaves its type, no
\* index the list, whatever other processes do to the directory.
THEOREM LimitTypeCorrect == LimitSpec => []LimitTypeOK
<1> QED BY LimitTypeInit, LimitTypeStep, PTL DEF LimitSpec

-----------------------------------------------------------------------------
\* What is unlinked.

\* The process has not counted below INT_MIN; how far the loop has come.
Countable(p) == limits[p] - (Len(namelist[p]) - n[p]) >= IntMin
Unlinked(p) == {namelist[p][i] : i \in (n[p] + 1)..(Len(namelist[p]) - Allowed(p))}
LoopCounts ==
  \A p \in Procs :
    /\ phase[p] \in {"start", "filter"} => removed[p] = {}
    /\ phase[p] = "filter" => entries[p] = limits[p]
    /\ (phase[p] \in {"loop", "returned"} /\ Countable(p)) =>
         /\ entries[p] = limits[p] - (Len(namelist[p]) - n[p])
         /\ removed[p] = Unlinked(p)
    /\ phase[p] = "returned" => n[p] = 0

\* Steps of other processes, and of other phases.
LoopVars(p) == <<phase[p], removed[p], entries[p], limits[p], namelist[p], n[p]>>

LEMMA LoopCountsStep ==
  ASSUME LimitTypeOK, LoopCounts, [LimitNext]_limitVars
  PROVE  LoopCounts'
<1> DEFINE Good(p) ==
      /\ phase[p] \in {"start", "filter"} => removed[p] = {}
      /\ phase[p] = "filter" => entries[p] = limits[p]
      /\ (phase[p] \in {"loop", "returned"} /\ Countable(p)) =>
           /\ entries[p] = limits[p] - (Len(namelist[p]) - n[p])
           /\ removed[p] = Unlinked(p)
      /\ phase[p] = "returned" => n[p] = 0
<1>a. ASSUME NEW q \in Procs, UNCHANGED LoopVars(q)
      PROVE  Good(q)'
  BY <1>a DEF LoopCounts, LoopVars, Countable, Unlinked, Allowed
<1>t. /\ n \in [Procs -> Nat] /\ namelist \in [Procs -> Seq(Files)]
      /\ entries \in [Procs -> IntMin..IntMax] /\ limits \in [Procs -> Limits \cup {0}]
      /\ removed \in [Procs -> SUBSET Files] /\ \A p \in Procs : n[p] <= Len(namelist[p])
      /\ phase \in [Procs -> {"start", "filter", "loop", "returned", "failed"}]
  BY DEF LimitTypeOK
<1>0. CASE UNCHANGED limitVars
  <2>1. ASSUME NEW q \in Procs PROVE UNCHANGED LoopVars(q)
    BY <1>0 DEF limitVars, LoopVars
  <2> QED BY <2>1, <1>a DEF LoopCounts
<1>1. ASSUME NEW p \in Procs, NEW l \in Limits, Call(p, l)
      PROVE  LoopCounts'
  <2>1. ASSUME NEW q \in Procs \ {p} PROVE Good(q)'
    <3>1. UNCHANGED LoopVars(q)
      BY <1>1, <1>t DEF Call, LoopVars
    <3> QED BY <3>1, <1>a
  <2>2. Good(p)'
    BY <1>1, <1>t DEF Call, LoopCounts
  <2> QED BY <2>1, <2>2 DEF LoopCounts
<1>2. ASSUME NEW p \in Procs, NEW f \in Files, Filter(p, f) \/ Dump(p, f)
      PROVE  LoopCounts'
  <2>1. ASSUME NEW q \in Procs PROVE Good(q)'
    <3>1. UNCHANGED LoopVars(q)
      BY <1>2 DEF Filter, Dump, LoopVars
    <3> QED BY <3>1, <1>a
  <2> QED BY <2>1 DEF LoopCounts
<1>3. ASSUME NEW p \in Procs, Sort(p)
      PROVE  LoopCounts'
  <2>1. ASSUME NEW q \in Procs \ {p} PROVE Good(q)'
    <3>1. UNCHANGED LoopVars(q)
      BY <1>3, <1>t DEF Sort, LoopVars
    <3> QED BY <3>1, <1>a
  <2>2. PICK s \in Orders(p) :
          /\ namelist' = [namelist EXCEPT ![p] = s]
          /\ n' = [n EXCEPT ![p] = Len(s)]
    BY <1>3 DEF Sort
  <2>3. Len(s) \in Nat /\ limits[p] \in IntMin..IntMax
    BY <2>2, <1>t, OrderType, WordsFit DEF LimitTypeOK
  <2>4. namelist'[p] = s /\ n'[p] = Len(s) /\ phase'[p] = "loop"
    BY <1>3, <2>2, <1>t DEF Sort
  <2>5. removed'[p] = {} /\ entries'[p] = limits'[p] /\ limits'[p] = limits[p]
    BY <1>3 DEF Sort, LoopCounts
  <2>6. Allowed(p)' >= 0
    BY <2>3, <2>5, WordsFit DEF Allowed
  <2>6a. Allowed(p)' \in Int
    BY <2>3, <2>5, WordsFit DEF Allowed
  <2>7. (Len(s) + 1)..(Len(s) - Allowed(p)') = {}
    BY <2>3, <2>6, <2>6a
  <2>8. Unlinked(p)' = {}
    BY <2>4, <2>7 DEF Unlinked
  <2>9. entries'[p] = limits'[p] - (Len(namelist'[p]) - n'[p])
    BY <2>3, <2>4, <2>5, WordsFit
  <2> HIDE DEF Good
  <2>10. Good(p)'
    BY <2>4, <2>5, <2>8, <2>9 DEF Good
  <2> QED BY <2>1, <2>10 DEF LoopCounts, Good
<1>4. ASSUME NEW p \in Procs, Keep(p) \/ Unlink(p)
      PROVE  LoopCounts'
  <2>1. ASSUME NEW q \in Procs \ {p} PROVE Good(q)'
    <3>1. UNCHANGED LoopVars(q)
      BY <1>4, <1>t DEF Keep, Unlink, LoopVars
    <3> QED BY <3>1, <1>a
  <2>2. /\ phase[p] = "loop" /\ n[p] > 0 /\ n'[p] = n[p] - 1
        /\ UNCHANGED <<phase, namelist, limits>>
    BY <1>4, <1>t DEF Keep, Unlink
  <2>3. /\ n[p] \in Nat /\ Len(namelist[p]) \in Nat /\ n[p] <= Len(namelist[p])
        /\ limits[p] \in IntMin..IntMax /\ entries[p] \in IntMin..IntMax
    <3>1. limits[p] \in Limits \cup {0} /\ namelist[p] \in Seq(Files)
      BY <1>t
    <3>2. limits[p] \in IntMin..IntMax
      BY <3>1, WordsFit
    <3>3. Len(namelist[p]) \in Nat
      BY <3>1
    <3> QED BY <1>t, <3>2, <3>3
  <2>4. SUFFICES ASSUME Countable(p)'
                 PROVE  /\ entries'[p] = limits[p] - (Len(namelist[p]) - n'[p])
                        /\ removed'[p] = Unlinked(p)'
    BY <2>1, <2>2 DEF LoopCounts, Countable
  <2>5. limits[p] - (Len(namelist[p]) - n[p]) - 1 >= IntMin
    BY <2>2, <2>3, <2>4, WordsFit DEF Countable
  <2>6. /\ entries[p] = limits[p] - (Len(namelist[p]) - n[p])
        /\ removed[p] = Unlinked(p)
    BY <2>2, <2>3, <2>5, WordsFit DEF LoopCounts, Countable
  <2>7. Decremented(entries[p]) = {entries[p] - 1}
    BY <2>3, <2>5, <2>6, WordsFit DEF Decremented
  <2>8. entries'[p] = entries[p] - 1
    BY <1>4, <1>t, <2>7 DEF Keep, Unlink
  <2>9. entries'[p] = limits[p] - (Len(namelist[p]) - n'[p])
    BY <2>2, <2>3, <2>6, <2>8, WordsFit, SMTT(30)
  <2> DEFINE L == Len(namelist[p])
             A == Allowed(p)
  <2>10. Allowed(p)' = A /\ A = IF limits[p] < 0 THEN 0 ELSE limits[p]
    BY <2>2 DEF Allowed
  <2>10a. /\ Len(namelist'[p]) = L /\ namelist'[p] = namelist[p] /\ L \in Nat
          /\ A \in Int /\ limits[p] \in Int /\ limits'[p] = limits[p]
    BY <2>2, <2>3, <2>10, WordsFit
  <2> HIDE DEF A, L
  <2>11. CASE Keep(p)
    <3>1. entries[p] - 1 >= 0
      BY <2>11, <2>7, <2>3, WordsFit DEF Keep, Skipped
    <3>2. limits[p] - (L - n[p]) >= 1
      BY <3>1, <2>6, <2>3, <2>10a, WordsFit DEF L
    <3>2a. n[p] <= L
      BY <2>3 DEF L
    <3>3. A = limits[p]
      BY <3>2, <3>2a, <2>3, <2>10, <2>10a
    <3>4. n[p] > L - A /\ n'[p] + 1 > L - A
      BY <3>2, <3>3, <2>2, <2>3, <2>10a
    <3>5. (n[p] + 1)..(L - A) = {} /\ (n'[p] + 1)..(L - A) = {}
      BY <3>4, <2>2, <2>3, <2>10a
    <3>6. Unlinked(p)' = {} /\ Unlinked(p) = {}
      BY <3>5, <2>10, <2>10a DEF Unlinked, A, L
    <3> QED BY <2>9, <2>11, <2>6, <3>6 DEF Keep
  <2>12. CASE Unlink(p)
    <3>1. entries[p] - 1 < 0
      BY <2>12, <2>7, <2>3, WordsFit DEF Unlink, Skipped
    <3>2. n[p] <= L - A
      BY <3>1, <2>6, <2>3, <2>10, <2>10a, WordsFit DEF L
    <3>3. (n'[p] + 1)..(L - A) = ((n[p] + 1)..(L - A)) \cup {n[p]}
      BY <3>2, <2>2, <2>3, <2>10a
    <3>4. removed'[p] = removed[p] \cup {namelist[p][n[p]]}
      BY <2>12, <1>t DEF Unlink
    <3>5. Unlinked(p)' = {namelist[p][i] : i \in (n'[p] + 1)..(L - A)}
      BY <2>10, <2>10a DEF Unlinked, A, L
    <3>6. Unlinked(p) = {namelist[p][i] : i \in (n[p] + 1)..(L - A)}
      BY DEF Unlinked, A, L
    <3>7. Unlinked(p)' = Unlinked(p) \cup {namelist[p][n[p]]}
      BY <3>3, <3>5, <3>6
    <3> QED BY <2>9, <2>6, <3>4, <3>7
  <2> QED BY <1>4, <2>11, <2>12
<1>5. ASSUME NEW p \in Procs, Return(p)
      PROVE  LoopCounts'
  <2>1. ASSUME NEW q \in Procs \ {p} PROVE Good(q)'
    <3>1. UNCHANGED LoopVars(q)
      BY <1>5, <1>t DEF Return, LoopVars
    <3> QED BY <3>1, <1>a
  <2>2. /\ phase[p] = "loop" /\ phase'[p] = "returned" /\ n'[p] = 0
        /\ UNCHANGED <<removed, entries, limits, namelist, n>>
    BY <1>5, <1>t DEF Return
  <2>3. (Countable(p)' <=> Countable(p)) /\ Unlinked(p)' = Unlinked(p)
    BY <2>2 DEF Countable, Unlinked, Allowed
  <2>4. Good(p)'
    BY <2>2, <2>3 DEF LoopCounts
  <2> QED BY <2>1, <2>4 DEF LoopCounts
<1> QED BY <1>0, <1>1, <1>2, <1>3, <1>4, <1>5 DEF LimitNext, Limit

LEMMA LoopCountsInit == LimitInit => LoopCounts
BY DEF LimitInit, LoopCounts

\* A process unlinks the list up to the entries that the limit allows, no more and
\* no less, for every limit and every list, unless INT_MIN is passed.
THEOREM UnlinksWhatIsOver == LimitSpec => []SparesTheLimit
<1>1. LimitTypeOK /\ LoopCounts => SparesTheLimit
  <2> SUFFICES ASSUME LimitTypeOK, LoopCounts, NEW p \in Procs, Finished(p)
               PROVE  removed[p] = {namelist[p][i] : i \in 1..(Len(namelist[p]) - Allowed(p))}
    BY DEF SparesTheLimit
  <2>1. n[p] = 0 /\ Len(namelist[p]) \in Nat
    BY DEF LimitTypeOK, LoopCounts, Finished
  <2>2. Countable(p)
    BY <2>1 DEF Countable, Finished
  <2> QED BY <2>1, <2>2 DEF LoopCounts, Finished, Unlinked
<1>2. LimitInit => LimitTypeOK /\ LoopCounts
  BY LimitTypeInit, LoopCountsInit
<1>3. (LimitTypeOK /\ LoopCounts) /\ [LimitNext]_limitVars => (LimitTypeOK /\ LoopCounts)'
  BY LimitTypeStep, LoopCountsStep
<1> QED BY <1>1, <1>2, <1>3, PTL DEF LimitSpec

-----------------------------------------------------------------------------
\* What survives.

\* Files that were hidden, or not yet a day old, at the beginning.
Spared(f) == f \in DOMAIN first /\ (f \in Hidden \/ ~Old(first[f]))
SparedAreNotListed ==
  /\ \A f : Spared(f) => f \in DOMAIN mtime /\ (f \in Hidden \/ ~Old(mtime[f]))
  /\ \A p \in Procs : /\ \A f \in listed[p] : ~Spared(f)
                      /\ \A i \in 1..Len(namelist[p]) : ~Spared(namelist[p][i])

LEMMA SparedStep ==
  ASSUME LimitTypeOK, SparedAreNotListed, [LimitNext]_limitVars
  PROVE  SparedAreNotListed'
<1>t. /\ namelist \in [Procs -> Seq(Files)] /\ n \in [Procs -> Nat]
      /\ listed \in [Procs -> SUBSET Files] /\ todo \in [Procs -> SUBSET Files]
      /\ \A p \in Procs : n[p] <= Len(namelist[p])
  BY DEF LimitTypeOK
<1>k. first' = first
  BY DEF limitVars, LimitNext, Limit, Call, Filter, Sort, Keep, Unlink, Return, Dump
<1>l. \A f : Spared(f)' <=> Spared(f)
  BY <1>k DEF Spared
<1>0. CASE UNCHANGED <<mtime, listed, namelist>>
  BY <1>0, <1>l DEF SparedAreNotListed
<1>1. ASSUME NEW p \in Procs, NEW f \in Files, Filter(p, f)
      PROVE  SparedAreNotListed'
  <2>1. agefilter(f) => ~Spared(f)
    BY DEF agefilter, SparedAreNotListed
  <2>2. \A q \in Procs : \A g \in listed'[q] : ~Spared(g)
    BY <1>1, <1>t, <2>1 DEF Filter, SparedAreNotListed
  <2>3. mtime' = mtime /\ namelist' = namelist
    BY <1>1 DEF Filter
  <2> QED BY <1>l, <2>2, <2>3 DEF SparedAreNotListed
<1>2. ASSUME NEW p \in Procs, Sort(p)
      PROVE  SparedAreNotListed'
  <2>1. PICK s \in Orders(p) : namelist' = [namelist EXCEPT ![p] = s]
    BY <1>2 DEF Sort
  <2>2. s \in Seq(listed[p])
    BY <2>1, <1>t, OrderType
  <2>3. \A i \in 1..Len(s) : ~Spared(s[i])
    BY <2>2 DEF SparedAreNotListed
  <2>4. ASSUME NEW q \in Procs, NEW i \in 1..Len(namelist'[q])
        PROVE  ~Spared(namelist'[q][i])
    <3>1. CASE q = p
      <4>1. namelist'[q] = s
        BY <2>1, <3>1, <1>t
      <4> QED BY <4>1, <2>3
    <3>2. CASE q # p
      <4>1. namelist'[q] = namelist[q]
        BY <2>1, <3>2, <1>t
      <4> QED BY <4>1 DEF SparedAreNotListed
    <3> QED BY <3>1, <3>2
  <2> QED BY <1>2, <1>l, <2>4 DEF Sort, SparedAreNotListed
<1>3. ASSUME NEW p \in Procs, Unlink(p)
      PROVE  SparedAreNotListed'
  <2>0. n[p] \in 1..Len(namelist[p])
    BY <1>3, <1>t DEF Unlink
  <2>1. ~Spared(namelist[p][n[p]])
    BY <2>0 DEF SparedAreNotListed
  <2>2. \A f : Spared(f) => f \in DOMAIN mtime' /\ (f \in Hidden \/ ~Old(mtime'[f]))
    BY <1>3, <2>1 DEF Unlink, SparedAreNotListed
  <2> QED BY <1>3, <1>l, <2>2 DEF Unlink, SparedAreNotListed
<1>4. ASSUME NEW p \in Procs, NEW f \in Files, Dump(p, f)
      PROVE  SparedAreNotListed'
  <2>1. ~Old(Now)
    BY DirectoryAssumption DEF Old
  <2>2. \A g : Spared(g) => g \in DOMAIN mtime' /\ (g \in Hidden \/ ~Old(mtime'[g]))
    BY <1>4, <2>1 DEF Dump, SparedAreNotListed
  <2> QED BY <1>4, <1>l, <2>2 DEF Dump, SparedAreNotListed
<1>5. ASSUME NEW p \in Procs, (\E l \in Limits : Call(p, l)) \/ Keep(p) \/ Return(p)
      PROVE  SparedAreNotListed'
  BY <1>5, <1>0 DEF Call, Keep, Return
<1>6. CASE UNCHANGED limitVars
  BY <1>6, <1>0 DEF limitVars
<1> QED BY <1>1, <1>2, <1>3, <1>4, <1>5, <1>6 DEF LimitNext, Limit

LEMMA SparedInit == LimitInit => SparedAreNotListed
BY DEF LimitInit, SparedAreNotListed, Spared

\* Hidden files, and those that were not a day old when the first process started,
\* stay, however many processes limit the directory and write files at once.
THEOREM YoungFilesStay == LimitSpec => []YoungAndHiddenStay
<1>1. SparedAreNotListed => YoungAndHiddenStay
  BY DEF SparedAreNotListed, YoungAndHiddenStay, Spared
<1>2. LimitInit => LimitTypeOK /\ SparedAreNotListed
  BY LimitTypeInit, SparedInit
<1>3. (LimitTypeOK /\ SparedAreNotListed) /\ [LimitNext]_limitVars
        => (LimitTypeOK /\ SparedAreNotListed)'
  BY LimitTypeStep, SparedStep
<1> QED BY <1>1, <1>2, <1>3, PTL DEF LimitSpec

-----------------------------------------------------------------------------
\* What is left.

\* A file that was unlinked is young if it exists again, and a list has every file.
RemovedAreGone ==
  \A p \in Procs :
    /\ \A f \in removed[p] \ Undeletable : f \in DOMAIN mtime => ~Old(mtime[f])
    /\ phase[p] \in {"loop", "returned"} =>
         \A f \in listed[p] : \E i \in 1..Len(namelist[p]) : namelist[p][i] = f

LEMMA RemovedStep ==
  ASSUME LimitTypeOK, RemovedAreGone, [LimitNext]_limitVars
  PROVE  RemovedAreGone'
<1>t. /\ namelist \in [Procs -> Seq(Files)] /\ n \in [Procs -> Nat]
      /\ listed \in [Procs -> SUBSET Files] /\ removed \in [Procs -> SUBSET Files]
      /\ phase \in [Procs -> {"start", "filter", "loop", "returned", "failed"}]
  BY DEF LimitTypeOK
<1>0. CASE UNCHANGED limitVars
  BY <1>0 DEF limitVars, RemovedAreGone
<1>1. ASSUME NEW p \in Procs, (\E l \in Limits : Call(p, l))
                                \/ \E f \in Files : Filter(p, f)
      PROVE  RemovedAreGone'
  <2>1. UNCHANGED <<mtime, removed, namelist>>
    BY <1>1 DEF Call, Filter
  <2>2. \A q \in Procs : phase'[q] \in {"loop", "returned"} =>
          phase[q] = phase'[q] /\ listed'[q] = listed[q]
    BY <1>1, <1>t DEF Call, Filter
  <2> QED BY <2>1, <2>2 DEF RemovedAreGone
<1>2. ASSUME NEW p \in Procs, Sort(p)
      PROVE  RemovedAreGone'
  <2>1. PICK s \in Orders(p) : namelist' = [namelist EXCEPT ![p] = s]
    BY <1>2 DEF Sort
  <2>2. \A f \in listed[p] : \E i \in 1..Len(s) : s[i] = f
    BY <2>1, <1>t, OrderType
  <2>3. UNCHANGED <<mtime, removed, listed>>
    BY <1>2 DEF Sort
  <2>4. ASSUME NEW q \in Procs, phase'[q] \in {"loop", "returned"}, NEW f \in listed[q]
        PROVE  \E i \in 1..Len(namelist'[q]) : namelist'[q][i] = f
    <3>1. CASE q = p
      <4>1. namelist'[q] = s
        BY <2>1, <3>1, <1>t
      <4> QED BY <4>1, <2>2, <3>1
    <3>2. CASE q # p
      <4>1. namelist'[q] = namelist[q] /\ phase'[q] = phase[q]
        BY <1>2, <2>1, <3>2, <1>t DEF Sort
      <4> QED BY <4>1, <2>4 DEF RemovedAreGone
    <3> QED BY <3>1, <3>2
  <2> QED BY <2>3, <2>4 DEF RemovedAreGone
<1>3. ASSUME NEW p \in Procs, Keep(p) \/ Return(p)
      PROVE  RemovedAreGone'
  <2>1. /\ UNCHANGED <<mtime, removed, listed, namelist>>
        /\ \A q \in Procs : phase'[q] \in {"loop", "returned"} =>
             phase[q] \in {"loop", "returned"}
    BY <1>3, <1>t DEF Keep, Return
  <2> QED BY <2>1 DEF RemovedAreGone
<1>4. ASSUME NEW p \in Procs, Unlink(p)
      PROVE  RemovedAreGone'
  <2> DEFINE f == namelist[p][n[p]]
  <2>1. /\ mtime' = [g \in DOMAIN mtime \ ({f} \ Undeletable) |-> mtime[g]]
        /\ removed' = [removed EXCEPT ![p] = @ \cup {f}]
        /\ UNCHANGED <<listed, namelist, phase>>
    BY <1>4 DEF Unlink
  <2> HIDE DEF f
  <2>2. ASSUME NEW q \in Procs, NEW g \in removed'[q] \ Undeletable, g \in DOMAIN mtime'
        PROVE  ~Old(mtime'[g])
    <3>1. g \in DOMAIN mtime /\ mtime'[g] = mtime[g] /\ g # f
      BY <2>1, <2>2
    <3>2. g \in removed[q]
      BY <2>1, <3>1, <1>t
    <3> QED BY <3>1, <3>2, <2>2 DEF RemovedAreGone
  <2> QED BY <2>1, <2>2 DEF RemovedAreGone
<1>5. ASSUME NEW p \in Procs, NEW f \in Files, Dump(p, f)
      PROVE  RemovedAreGone'
  <2>1. /\ mtime' = [g \in DOMAIN mtime \cup {f} |-> IF g = f THEN Now ELSE mtime[g]]
        /\ UNCHANGED <<phase, listed, namelist, removed>>
    BY <1>5 DEF Dump
  <2>2. ~Old(Now)
    BY DirectoryAssumption DEF Old
  <2> QED BY <2>1, <2>2 DEF RemovedAreGone
<1> QED BY <1>0, <1>1, <1>2, <1>3, <1>4, <1>5 DEF LimitNext, Limit

LEMMA RemovedInit == LimitInit => RemovedAreGone
BY DEF LimitInit, RemovedAreGone

\* An interval of a list has no more elements than its length.
LEMMA ImageOfInterval ==
  ASSUME NEW a \in Int, NEW b \in Int, NEW s
  PROVE  /\ IsFiniteSet({s[i] : i \in a..b})
         /\ Cardinality({s[i] : i \in a..b}) <= IF a > b THEN 0 ELSE b - a + 1
<1> DEFINE T == {s[i] : i \in a..b}
           f == [i \in a..b |-> s[i]]
<1>1. f \in Surjection(a..b, T)
  BY DEF Surjection
<1>2. IsFiniteSet(a..b) /\ Cardinality(a..b) = IF a > b THEN 0 ELSE b - a + 1
  BY FS_Interval
<1> HIDE DEF f, T
<1>3. IsFiniteSet(T) /\ Cardinality(T) <= Cardinality(a..b)
  BY <1>1, <1>2, FS_Surjection
<1> QED BY <1>2, <1>3 DEF T

\* Of the old entries that a process found at most the limit are left once it has
\* returned, whatever the other processes have done since it read the directory.
THEOREM LeavesTheLimit == LimitSpec => []AtMostTheLimit
<1> DEFINE Inv == LimitTypeOK /\ LoopCounts /\ RemovedAreGone
<1>1. Inv => AtMostTheLimit
  <2> SUFFICES ASSUME Inv, NEW p \in Procs, Finished(p)
               PROVE  Cardinality({f \in listed[p] \cap DOMAIN mtime : Old(mtime[f])} \ Undeletable)
                        <= Allowed(p)
    BY DEF AtMostTheLimit
  <2> DEFINE L == Len(namelist[p])
             A == Allowed(p)
             s == namelist[p]
             lo == IF L - A + 1 > 1 THEN L - A + 1 ELSE 1
             Left == {f \in listed[p] \cap DOMAIN mtime : Old(mtime[f])} \ Undeletable
             Surplus == {s[i] : i \in lo..L}
  <2>1. L \in Nat /\ limits[p] \in IntMin..IntMax /\ n[p] = 0 /\ phase[p] = "returned"
    <3>1. namelist[p] \in Seq(Files) /\ limits[p] \in Limits \cup {0}
      BY DEF LimitTypeOK
    <3>2. n[p] = 0 /\ phase[p] = "returned"
      BY DEF LoopCounts, Finished
    <3>3. limits[p] \in IntMin..IntMax
      BY <3>1, WordsFit
    <3> QED BY <3>1, <3>2, <3>3
  <2>2. A \in Nat
    BY <2>1, WordsFit DEF Allowed
  <2>3. removed[p] = {s[i] : i \in 1..(L - A)}
    <3>1. Countable(p)
      BY <2>1 DEF Countable, Finished
    <3> QED BY <2>1, <3>1 DEF LoopCounts, Unlinked
  <2>4. Left \subseteq Surplus
    <3> SUFFICES ASSUME NEW f \in Left PROVE f \in Surplus
      OBVIOUS
    <3>1. PICK i \in 1..L : s[i] = f
      BY <2>1 DEF RemovedAreGone
    <3>2. f \notin removed[p]
      BY DEF RemovedAreGone
    <3>3. ~(i <= L - A)
      BY <2>1, <2>2, <2>3, <3>1, <3>2
    <3>4. i \in lo..L
      BY <2>1, <2>2, <3>1, <3>3
    <3> QED BY <3>1, <3>4
  <2>5. lo \in Int /\ L \in Int /\ lo >= 1 /\ lo >= L - A + 1
    BY <2>1, <2>2
  <2> HIDE DEF Left, Surplus, lo, A, L, s
  <2>6. IsFiniteSet(Surplus) /\ Cardinality(Surplus) <= IF lo > L THEN 0 ELSE L - lo + 1
    BY <2>5, ImageOfInterval DEF Surplus
  <2>7. Cardinality(Left) <= Cardinality(Surplus) /\ Cardinality(Left) \in Nat
          /\ Cardinality(Surplus) \in Nat
    BY <2>4, <2>6, FS_Subset, FS_CardinalityType
  <2>8. Cardinality(Left) <= A
    BY <2>2, <2>5, <2>6, <2>7
  <2> QED BY <2>8 DEF Left, A
<1>2. LimitInit => Inv
  BY LimitTypeInit, LoopCountsInit, RemovedInit
<1>3. Inv /\ [LimitNext]_limitVars => Inv'
  BY LimitTypeStep, LoopCountsStep, RemovedStep
<1> HIDE DEF Inv
<1> QED BY <1>1, <1>2, <1>3, PTL DEF LimitSpec

\* So every process keeps to its limit.
THEOREM LimitIsKept == LimitSpec => []KeepsToTheLimit
<1>1. AtMostTheLimit /\ SparesTheLimit => KeepsToTheLimit
  BY DEF KeepsToTheLimit
<1> QED BY <1>1, LeavesTheLimit, UnlinksWhatIsOver, PTL

-----------------------------------------------------------------------------
\* What a process sees that nobody disturbs: the directory as it was, and a list of
\* it, newest first.
SeesTheBeginning(p) ==
  /\ phase[p] \in {"start", "filter"} => mtime = first
  /\ listed[p] \subseteq DOMAIN first
  /\ phase[p] \in {"loop", "returned"} =>
       \A i, j \in 1..Len(namelist[p]) : i < j => first[namelist[p][i]] >= first[namelist[p][j]]
Undisturbed ==
  \A p \in Procs : /\ phase[p] = "start" => listed[p] = {}
                   /\ Alone(p) => SeesTheBeginning(p)

\* A process that has done something is not in front of limit_cachesize() any more.
LEMMA ActorHasStarted ==
  ASSUME LimitTypeOK, NEW q \in Procs,
         (\E l \in Limits : Call(q, l)) \/ Limit(q) \/ (\E f \in Files : Dump(q, f))
  PROVE  /\ phase'[q] # "start"
         /\ \A p \in Procs \ {q} : phase'[p] = phase[p] /\ listed'[p] = listed[p]
         /\ (\A p \in Procs \ {q} : Alone(p)' => FALSE) /\ (Alone(q)' => Alone(q))
<1>1. phase \in [Procs -> {"start", "filter", "loop", "returned", "failed"}]
  BY DEF LimitTypeOK
<1>1a. listed \in [Procs -> SUBSET Files]
  BY DEF LimitTypeOK
<1>2. /\ phase'[q] # "start"
      /\ \A p \in Procs \ {q} : phase'[p] = phase[p] /\ listed'[p] = listed[p]
  <2>1. CASE \E l \in Limits : Call(q, l)
    BY <1>1, <1>1a, <2>1 DEF Call
  <2>2. CASE \E f \in Files : Filter(q, f)
    BY <1>1, <1>1a, <2>2 DEF Filter
  <2>3. CASE Sort(q) \/ Return(q)
    BY <1>1, <1>1a, <2>3 DEF Sort, Return
  <2>4. CASE Keep(q) \/ Unlink(q)
    BY <1>1, <1>1a, <2>4 DEF Keep, Unlink
  <2>5. CASE \E f \in Files : Dump(q, f)
    BY <1>1, <1>1a, <2>5 DEF Dump
  <2> QED BY <2>1, <2>2, <2>3, <2>4, <2>5 DEF Limit
<1> QED BY <1>2 DEF Alone

LEMMA UndisturbedStep ==
  ASSUME Now <= IntMax, LimitTypeOK, Undisturbed, [LimitNext]_limitVars
  PROVE  Undisturbed'
<1>t. /\ namelist \in [Procs -> Seq(Files)] /\ listed \in [Procs -> SUBSET Files]
      /\ phase \in [Procs -> {"start", "filter", "loop", "returned", "failed"}]
  BY DEF LimitTypeOK
<1>0. CASE UNCHANGED limitVars
  BY <1>0 DEF limitVars, Undisturbed, SeesTheBeginning, Alone
<1>1. ASSUME NEW q \in Procs,
             (\E l \in Limits : Call(q, l)) \/ Limit(q) \/ (\E f \in Files : Dump(q, f)),
             Alone(q) => SeesTheBeginning(q)'
      PROVE  Undisturbed'
  BY <1>1, ActorHasStarted DEF Undisturbed
<1>2. ASSUME NEW q \in Procs, Alone(q), NEW l \in Limits, Call(q, l)
      PROVE  SeesTheBeginning(q)'
  <2>1. /\ SeesTheBeginning(q) /\ phase[q] = "start" /\ phase'[q] \in {"failed", "filter"}
        /\ UNCHANGED <<mtime, first, listed, namelist>>
    BY <1>2, <1>t DEF Call, Undisturbed
  <2> QED BY <2>1 DEF SeesTheBeginning
<1>3. ASSUME NEW q \in Procs, Alone(q), NEW f \in Files, Filter(q, f)
      PROVE  SeesTheBeginning(q)'
  <2>1. /\ SeesTheBeginning(q) /\ phase[q] = "filter"
        /\ UNCHANGED <<mtime, first, phase, namelist>>
        /\ listed'[q] = IF agefilter(f) THEN listed[q] \cup {f} ELSE listed[q]
    BY <1>3, <1>t DEF Filter, Undisturbed
  <2>2. agefilter(f) => f \in DOMAIN first
    BY <2>1 DEF agefilter, SeesTheBeginning
  <2> QED BY <2>1, <2>2 DEF SeesTheBeginning
<1>4. ASSUME NEW q \in Procs, Alone(q), Sort(q)
      PROVE  SeesTheBeginning(q)'
  <2>1. PICK s \in Orders(q) : namelist' = [namelist EXCEPT ![q] = s]
    BY <1>4 DEF Sort
  <2>2. /\ SeesTheBeginning(q) /\ phase[q] = "filter" /\ phase'[q] = "loop"
        /\ UNCHANGED <<mtime, first, listed>> /\ namelist'[q] = s
    BY <1>4, <2>1, <1>t DEF Sort, Undisturbed
  <2>3. listed[q] \subseteq DOMAIN mtime /\ mtime = first
    BY <2>2 DEF SeesTheBeginning
  <2>4. NewestFirst(s) /\ DOMAIN s = 1..Len(s)
    <3>1. TimesAreSteady(q)
      BY <1>4, <2>3 DEF TimesAreSteady
    <3>2. NewestFirst(s)
      BY <2>1, <3>1 DEF Orders
    <3>3. s \in Seq(Files)
      BY <2>1, <1>t, OrderType
    <3> QED BY <3>2, <3>3
  <2>5. \A i, j \in 1..Len(s) : i < j => first[s[i]] >= first[s[j]]
    BY <2>3, <2>4 DEF NewestFirst
  <2> QED BY <2>2, <2>5 DEF SeesTheBeginning
<1>5. ASSUME NEW q \in Procs, Alone(q), Keep(q) \/ Unlink(q) \/ Return(q)
      PROVE  SeesTheBeginning(q)'
  <2>1. /\ SeesTheBeginning(q) /\ phase[q] = "loop" /\ phase'[q] \in {"loop", "returned"}
        /\ UNCHANGED <<first, listed, namelist>>
    BY <1>5, <1>t DEF Keep, Unlink, Return, Undisturbed
  <2> QED BY <2>1 DEF SeesTheBeginning
<1>6. ASSUME NEW q \in Procs, Alone(q), NEW f \in Files, Dump(q, f)
      PROVE  SeesTheBeginning(q)'
  <2>1. /\ SeesTheBeginning(q) /\ phase[q] \in {"returned", "failed"}
        /\ UNCHANGED <<first, phase, listed, namelist>>
    BY <1>6 DEF Dump, Undisturbed
  <2> QED BY <2>1 DEF SeesTheBeginning
<1> QED
  BY <1>0, <1>1, <1>2, <1>3, <1>4, <1>5, <1>6 DEF LimitNext, Limit

LEMMA UndisturbedInit == LimitInit => Undisturbed
BY DEF LimitInit, Undisturbed, SeesTheBeginning

\* The list is unlinked from its newest end: of the entries that an undisturbed
\* process found, none that it keeps is newer than one that it removes, if an int can
\* hold the difference of two times.
THEOREM KeepsTheOldest ==
  ASSUME Now <= IntMax
  PROVE  LimitSpec => []OldestAreKept
<1> DEFINE Inv == LimitTypeOK /\ Undisturbed /\ RemovedAreGone
<1>1. Inv /\ SparesTheLimit => OldestAreKept
  <2> SUFFICES ASSUME Inv, SparesTheLimit, NEW p \in Procs, Finished(p), Alone(p),
                      NEW f \in removed[p], NEW g \in listed[p] \ removed[p]
               PROVE  first[f] >= first[g]
    BY DEF OldestAreKept
  <2> DEFINE s == namelist[p]
             k == Len(s) - Allowed(p)
  <2>1. removed[p] = {s[i] : i \in 1..k} /\ Len(s) \in Nat /\ k \in Int /\ k <= Len(s)
    <3>1. namelist \in [Procs -> Seq(Files)] /\ limits \in [Procs -> Limits \cup {0}]
      BY DEF LimitTypeOK
    <3>2. limits[p] \in Int /\ Len(s) \in Nat
      <4>1. namelist[p] \in Seq(Files) /\ limits[p] \in Limits \cup {0}
        BY <3>1
      <4>2. Limits \subseteq Int
        BY WordsFit
      <4>3. limits[p] \in Int
        <5>1. CASE limits[p] \in Limits
          BY <4>2, <5>1, Zenon
        <5>2. CASE limits[p] = 0
          BY <5>2
        <5> QED BY <4>1, <5>1, <5>2, Zenon
      <4>4. Len(s) \in Nat
        BY <4>1
      <4> QED BY <4>3, <4>4
    <3>3. Allowed(p) \in Nat
      BY <3>2 DEF Allowed
    <3> QED BY <3>2, <3>3 DEF SparesTheLimit
  <2>2. /\ \A i, j \in 1..Len(s) : i < j => first[s[i]] >= first[s[j]]
        /\ \E j \in 1..Len(s) : s[j] = g
    BY DEF Undisturbed, SeesTheBeginning, RemovedAreGone, Finished
  <2>3. PICK i \in 1..k : f = s[i]
    BY <2>1
  <2>4. PICK j \in 1..Len(s) : s[j] = g
    BY <2>2
  <2>5. j \notin 1..k
    BY <2>1, <2>4
  <2> HIDE DEF s, k
  <2>6. i \in 1..Len(s) /\ i < j
    BY <2>1, <2>3, <2>4, <2>5
  <2> QED BY <2>2, <2>3, <2>4, <2>6
<1>2. LimitInit => Inv
  BY LimitTypeInit, UndisturbedInit, RemovedInit
<1>3. Inv /\ [LimitNext]_limitVars => Inv'
  BY LimitTypeStep, UndisturbedStep, RemovedStep
<1> HIDE DEF Inv
<1> QED BY <1>1, <1>2, <1>3, UnlinksWhatIsOver, PTL DEF LimitSpec

-----------------------------------------------------------------------------
\* Every step of the whole is one of main(), or leaves the state of main() alone.
LEMMA StepParses == [StartupNext]_allVars => [Next]_vars
<1> SUFFICES ASSUME [StartupNext]_allVars PROVE [Next]_vars
  OBVIOUS
<1>1. CASE UNCHANGED allVars
  BY <1>1 DEF allVars
<1>2. CASE BeforeLimit \/ LimitDone
  BY <1>2 DEF BeforeLimit, LimitDone, Next, Step
<1>3. CASE InLimit /\ UNCHANGED vars
  BY <1>3
<1>4. CASE OtherStep
  BY <1>4 DEF OtherStep
<1>5. CASE StartupOver
  BY <1>5 DEF StartupOver, Next
<1> QED BY <1>1, <1>2, <1>3, <1>4, <1>5 DEF StartupNext, MainStep

\* The options of pdfgrep are read as main() by itself reads them, whatever happens
\* in the cache directory: the detailed specification implements OptionParsing.
THEOREM StartupParses == StartupSpec => Spec
<1>1. StartupInit => Init
  BY DEF StartupInit
<1> QED BY <1>1, StepParses, PTL DEF StartupSpec, Spec

\* The limit that main() passes on is an int.
LEMMA StepLimits ==
  ASSUME ParsingInv, [StartupNext]_allVars
  PROVE  [LimitNext]_limitVars
<1>1. CASE UNCHANGED allVars
  BY <1>1 DEF allVars
<1>2. CASE (BeforeLimit \/ LimitDone) /\ UNCHANGED limitVars
  BY <1>2
<1>3. CASE InLimit
  <2>1. limit \in Limits /\ Me \in Procs
    BY MeAssumption DEF ParsingInv, ParsingTypeOK
  <2> QED BY <1>3, <2>1 DEF InLimit, CallLimit, LimitNext
<1>4. CASE OtherStep
  <2>1. PICK p \in Procs \ {Me} : \/ \E l \in OtherLimits : Call(p, l)
                                  \/ Limit(p)
                                  \/ \E f \in Files : Dump(p, f)
    BY <1>4 DEF OtherStep
  <2>2. OtherLimits \subseteq Limits
    BY MeAssumption
  <2> QED BY <2>1, <2>2 DEF LimitNext
<1>5. CASE StartupOver
  BY <1>5 DEF StartupOver
<1> QED BY <1>1, <1>2, <1>3, <1>4, <1>5 DEF StartupNext, MainStep

\* And what happens in the cache directory is what limit_cachesize() does in several
\* processes, whatever limit is read from the environment: the detailed
\* specification implements CacheLimit.
THEOREM StartupLimits == StartupSpec => LimitSpec
<1>1. StartupInit => Init /\ LimitInit
  BY DEF StartupInit
<1>2. ParsingInv /\ [StartupNext]_allVars => ParsingInv'
  BY StepParses, ParsingStep
<1>3. ParsingInv /\ [StartupNext]_allVars => [LimitNext]_limitVars
  BY StepLimits
<1> QED BY <1>1, <1>2, <1>3, ParsingInit, PTL DEF StartupSpec, LimitSpec

\* So the search that begins gets options it can work with and what the command line
\* says, if it is right, and a cache directory with at most the limit of old entries,
\* the oldest of them, from which no young or hidden file is gone.
THEOREM StartupKeepsItsPromises ==
  ASSUME Now <= IntMax
  PROVE  StartupSpec => [](/\ HandsOver /\ RejectsWhatIsWrong /\ LaterOptionsWin
                           /\ EveryArgumentCounts
                           /\ KeepsToTheLimit /\ YoungAndHiddenStay /\ OldestAreKept)
BY StartupParses, StartupLimits, HandsOverWorkingOptions, RejectsIfAndOnlyIfWrong, LastOneWins,
   NothingIsLost, LimitIsKept, YoungFilesStay, KeepsTheOldest, PTL

\* And the types of both parts hold for the whole.
THEOREM StartupTypeCorrect == StartupSpec => []StartupTypeOK
<1>1. ParsingTypeOK /\ LimitTypeOK => StartupTypeOK
  BY DEF StartupTypeOK
<1> QED BY <1>1, StartupParses, StartupLimits, ParsingTypeCorrect, LimitTypeCorrect, PTL

-----------------------------------------------------------------------------
\* The limit, from the environment to the directory.

\* Before the call nothing has happened to the directory; the limit that is passed on
\* is the one that was read.
Passed ==
  /\ pc \in {"options", "patterns", "colors", "settings", "cache"} => phase[Me] = "start"
  /\ phase[Me] # "start" => limits[Me] = limit
  /\ pc = "limit" \/ (pc = "files" /\ options.use_cache) => limit = CacheLimitOf(start.env)

\* The sorted list has every file that was taken once.
Sorted ==
  \A p \in Procs : phase[p] \in {"loop", "returned"} =>
    namelist[p] \in Bijection(1..Cardinality(listed[p]), listed[p])

LEMMA StepPasses ==
  ASSUME ParsingInv, LimitTypeOK, Passed, [StartupNext]_allVars
  PROVE  Passed'
<1>t. phase \in [Procs -> {"start", "filter", "loop", "returned", "failed"}] /\ Me \in Procs
        /\ limits \in [Procs -> Limits \cup {0}]
  BY MeAssumption DEF LimitTypeOK
<1>1. CASE UNCHANGED allVars
  BY <1>1 DEF allVars, vars, limitVars, Passed
<1>2. CASE BeforeLimit /\ UNCHANGED limitVars
  <2>1. pc \in {"options", "patterns", "colors", "settings", "cache"} /\ phase[Me] = "start"
    BY <1>2 DEF BeforeLimit, OptionStep, HelpOrVersion, Unknown, Flag, PageCount, PageNumber,
       Recursive, OnlyFilenames, Filename, Color, Listed, Engine, Number, PageRange, Regexp,
       PatternFile, AtOption, CheckUsage, MakeEngine, ReadPair, ColorsDone, Settle, Stage,
       NoCache, FindCache, Passed
  <2>2. phase' = phase
    BY <1>2 DEF limitVars
  <2>3. CASE NoCache
    <3>1. pc' = "files" /\ ~options'.use_cache
      BY <2>3 DEF NoCache, Stage, ParsingInv, ParsingTypeOK, OptionsType
    <3> QED BY <2>1, <2>2, <3>1 DEF Passed
  <2>4. CASE FindCache
    BY <2>1, <2>2, <2>4 DEF FindCache, Stage, Passed
  <2>5. CASE BeforeLimit /\ ~NoCache /\ ~FindCache
    <3>1. pc' \notin {"limit", "files"}
      BY <2>1, <2>5 DEF BeforeLimit, OptionStep, HelpOrVersion, Unknown, Flag, PageCount,
         PageNumber, Recursive, OnlyFilenames, Filename, Color, Listed, Engine, Number,
         PageRange, Regexp, PatternFile, Took, Fails, Aborts, Leaves, CheckUsage, MakeEngine,
         ReadPair, ColorsDone, Settle, Stage
    <3> QED BY <2>1, <2>2, <3>1 DEF Passed
  <2> QED BY <1>2, <2>3, <2>4, <2>5
<1>3. CASE LimitDone /\ UNCHANGED limitVars
  BY <1>3 DEF LimitDone, CacheLimited, Stage, limitVars, Passed
<1>4. CASE InLimit /\ UNCHANGED vars
  <2>1. pc = "limit" /\ UNCHANGED <<pc, limit, options, start>>
    BY <1>4 DEF InLimit, vars
  <2>2. phase'[Me] # "start" => limits'[Me] = limit
    <3>1. CASE CallLimit
      BY <3>1, <1>t DEF CallLimit, Call
    <3>2. CASE Limit(Me)
      BY <3>2, <1>t DEF Limit, Filter, Sort, Keep, Unlink, Return, Passed
    <3> QED BY <1>4, <3>1, <3>2 DEF InLimit
  <2> QED BY <2>1, <2>2 DEF Passed
<1>5. CASE OtherStep
  <2>1. pc = "limit" /\ UNCHANGED <<pc, limit, options, start>>
    BY <1>5 DEF OtherStep, vars
  <2>2. PICK p \in Procs \ {Me} : \/ \E l \in OtherLimits : Call(p, l)
                                  \/ Limit(p)
                                  \/ \E f \in Files : Dump(p, f)
    BY <1>5 DEF OtherStep
  <2>3. phase'[Me] = phase[Me] /\ limits'[Me] = limits[Me]
    BY <2>2, <1>t DEF Call, Limit, Filter, Sort, Keep, Unlink, Return, Dump
  <2> QED BY <2>1, <2>3 DEF Passed
<1>6. CASE StartupOver
  BY <1>6, <1>1 DEF StartupOver, Over, allVars
<1> QED BY <1>1, <1>2, <1>3, <1>4, <1>5, <1>6 DEF StartupNext, MainStep

LEMMA StepSorts ==
  ASSUME LimitTypeOK, Sorted, [LimitNext]_limitVars
  PROVE  Sorted'
<1>t. /\ phase \in [Procs -> {"start", "filter", "loop", "returned", "failed"}]
      /\ namelist \in [Procs -> Seq(Files)] /\ listed \in [Procs -> SUBSET Files]
  BY DEF LimitTypeOK
<1>1. CASE UNCHANGED limitVars
  BY <1>1 DEF limitVars, Sorted
<1>2. ASSUME NEW p \in Procs, Sort(p) PROVE Sorted'
  <2>1. PICK s \in Orders(p) : namelist' = [namelist EXCEPT ![p] = s]
    BY <1>2 DEF Sort
  <2>2. s \in Bijection(1..Cardinality(listed[p]), listed[p])
    BY <2>1 DEF Orders
  <2>3. namelist'[p] = s /\ \A q \in Procs \ {p} : namelist'[q] = namelist[q] /\ phase'[q] = phase[q]
    BY <1>2, <1>t, <2>1 DEF Sort
  <2>4. listed' = listed
    BY <1>2 DEF Sort
  <2> QED BY <2>2, <2>3, <2>4 DEF Sorted
<1>3. ASSUME NEW p \in Procs, (\E l \in Limits : Call(p, l)) \/ Keep(p) \/ Unlink(p) \/ Return(p)
                                \/ \E f \in Files : Dump(p, f)
      PROVE  Sorted'
  <2>1. UNCHANGED <<listed, namelist>>
    BY <1>3 DEF Call, Keep, Unlink, Return, Dump
  <2>2. \A q \in Procs : phase'[q] \in {"loop", "returned"} => phase[q] \in {"loop", "returned"}
    BY <1>3, <1>t DEF Call, Keep, Unlink, Return, Dump
  <2> QED BY <2>1, <2>2 DEF Sorted
<1>4. ASSUME NEW p \in Procs, NEW f \in Files, Filter(p, f) PROVE Sorted'
  <2>1. /\ UNCHANGED <<phase, namelist>> /\ phase[p] = "filter"
        /\ \A q \in Procs \ {p} : listed'[q] = listed[q]
    BY <1>4, <1>t DEF Filter
  <2> QED BY <2>1 DEF Sorted
<1> QED BY <1>1, <1>2, <1>3, <1>4 DEF LimitNext, Limit

LEMMA PassesInit == StartupInit => Passed /\ Sorted
BY MeAssumption DEF StartupInit, Init, LimitInit, Passed, Sorted

\* An int survives its way through strtoul() and the two conversions.
LEMMA IntLimit ==
  ASSUME NEW t \in NumberText, Written(t) \in 0..IntMax
  PROVE  LimitOf(t) = t.magnitude /\ t.magnitude \in 0..IntMax
<1>1. t.magnitude \in Nat /\ t.negative \in BOOLEAN
  BY DEF NumberText
<1>2. t.magnitude \in 0..IntMax /\ (t.negative => t.magnitude = 0)
  BY <1>1, WordsAreWide DEF Written
<1>3. Strtoul(t) = t.magnitude
  BY <1>1, <1>2, WordsAssumption DEF Strtoul, Overflows, ULongMax
<1>4. t.magnitude % (UIntMax + 1) = t.magnitude
  BY <1>2, WordsAreWide DEF UIntMax
<1> QED BY <1>2, <1>3, <1>4, WordsAreWide DEF LimitOf, ToSigned

\* The beginning of a list in which nothing stands twice.
LEMMA BeginningOfList ==
  ASSUME NEW S, IsFiniteSet(S), NEW s \in Bijection(1..Cardinality(S), S), NEW k \in Int,
         k <= Cardinality(S)
  PROVE  Cardinality({s[i] : i \in 1..k}) = IF k > 0 THEN k ELSE 0
<1>1. Cardinality(S) \in Nat
  BY FS_CardinalityType
<1> DEFINE T == {s[i] : i \in 1..k}
           f == [i \in 1..k |-> s[i]]
<1>2. f \in Bijection(1..k, T)
  <2>1. \A i, j \in 1..k : s[i] = s[j] => i = j
    BY <1>1 DEF Bijection, Injection, IsInjective
  <2> QED BY <2>1 DEF Bijection, Injection, Surjection, IsInjective
<1> HIDE DEF f, T
<1>3. IsFiniteSet(1..k) /\ Cardinality(1..k) = IF k > 0 THEN k ELSE 0
  BY FS_Interval
<1>4. Cardinality(T) = Cardinality(1..k)
  BY <1>2, <1>3, FS_Bijection DEF ExistsBijection
<1> QED BY <1>3, <1>4 DEF T

\* The limit that is written in the environment, or 200, is the one that holds in the
\* directory, if there are not more files than an int can count.
THEOREM LimitReachesTheDirectory ==
  ASSUME Cardinality(Files) <= IntMax
  PROVE  StartupSpec => []LimitIsRespected
<1> DEFINE Inv == ParsingInv /\ LimitTypeOK /\ Passed /\ Sorted
<1>1. StartupInit => Inv
  BY ParsingInit, LimitTypeInit, PassesInit DEF StartupInit
<1>2. Inv /\ [StartupNext]_allVars => Inv'
  BY StepParses, ParsingStep, StepLimits, LimitTypeStep, StepPasses, StepSorts
<1>3. Inv /\ KeepsToTheLimit => LimitIsRespected
  <2> SUFFICES ASSUME Inv, KeepsToTheLimit, Searches, options.use_cache,
                      phase[Me] = "returned",
                      Limited => Written(start.env.limit) \in 0..IntMax
               PROVE  /\ Cardinality({f \in listed[Me] \cap DOMAIN mtime : Old(mtime[f])}
                                        \ Undeletable) <= LimitGiven
                      /\ Cardinality(removed[Me])
                           = Max({0, Cardinality(listed[Me]) - LimitGiven})
    BY DEF LimitIsRespected
  <2>1. limits[Me] = LimitGiven /\ LimitGiven \in 0..IntMax
    <3>1. limits[Me] = CacheLimitOf(start.env) /\ start.env \in EnvType
      BY SituationsAssumption DEF Passed, Searches, ParsingInv
    <3>2. start.env.limit \in NumberText
      BY <3>1 DEF EnvType
    <3> QED BY <3>1, <3>2, IntLimit, LimitAssumption DEF CacheLimitOf, LimitGiven, Limited
  <2>2. /\ Me \in Procs /\ listed[Me] \in SUBSET Files /\ IsFiniteSet(listed[Me])
        /\ Cardinality(listed[Me]) \in 0..IntMax
        /\ namelist[Me] \in Bijection(1..Cardinality(listed[Me]), listed[Me])
    <3>1. Me \in Procs /\ listed[Me] \in SUBSET Files
      BY MeAssumption DEF LimitTypeOK
    <3>2. /\ IsFiniteSet(listed[Me]) /\ Cardinality(listed[Me]) <= Cardinality(Files)
          /\ Cardinality(listed[Me]) \in Nat /\ Cardinality(Files) \in Nat
      BY <3>1, DirectoryAssumption, FS_Subset, FS_CardinalityType
    <3> QED BY <3>1, <3>2, WordsAreWide DEF Sorted
  <2>3. Len(namelist[Me]) = Cardinality(listed[Me])
    <3>1. namelist[Me] \in [1..Cardinality(listed[Me]) -> listed[Me]]
      BY <2>2 DEF Bijection, Injection
    <3> QED BY <2>2, <3>1
  <2>4. Finished(Me) /\ Allowed(Me) = LimitGiven
    BY <2>1, <2>2, <2>3, WordsAreWide DEF Finished, Allowed, IntMin
  <2> DEFINE k == Cardinality(listed[Me]) - LimitGiven
  <2>5. removed[Me] = {namelist[Me][i] : i \in 1..k}
    BY <2>2, <2>3, <2>4 DEF KeepsToTheLimit, SparesTheLimit
  <2>6. k \in Int /\ k <= Cardinality(listed[Me])
    BY <2>1, <2>2
  <2> HIDE DEF k
  <2>7. Cardinality(removed[Me]) = IF k > 0 THEN k ELSE 0
    BY <2>2, <2>5, <2>6, BeginningOfList
  <2>8. Max({0, k}) = IF k > 0 THEN k ELSE 0
    BY <2>6 DEF Max
  <2> QED BY <2>2, <2>4, <2>7, <2>8 DEF KeepsToTheLimit, AtMostTheLimit, k
<1> HIDE DEF Inv
<1> QED BY <1>1, <1>2, <1>3, StartupLimits, LimitIsKept, PTL DEF StartupSpec
=============================================================================
