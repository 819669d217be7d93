------------------------------ MODULE CacheLimit ------------------------------
(***************************************************************************)
(* limit_cachesize() of src/cache.cc: pdfgrep processes that share the     *)
(* cache directory list the entries older than a day, unlink those over    *)
(* the limit, and go on to write cache files of their own.                 *)
(*                                                                         *)
(* Each stat() and unlink() is a step of its own: other processes unlink   *)
(* and rewrite files in between.                                           *)
(***************************************************************************)
EXTENDS Numbers, Sequences, SequencesExt, FiniteSetsExt

CONSTANTS
  Procs,
  Files,        \* names in the cache directory
  Hidden,       \* those that begin with a dot
  Undeletable,  \* unlink() fails for these, as for a directory
  Now, Day,     \* the time (it stands still), and the age up to which entries
                \*   are not listed
  Contents,     \* what the directory may hold: functions from names to mtimes
  Limits        \* values of the parameter `entries`

ASSUME DirectoryAssumption ==
  /\ Now \in Nat /\ Day \in Nat /\ IsFiniteSet(Files)
  /\ Hidden \subseteq Files /\ Undeletable \subseteq Files
  /\ \A c \in Contents : DOMAIN c \subseteq Files /\ \A f \in DOMAIN c : c[f] \in 0..Now
ASSUME LimitsAssumption == Limits \subseteq IntMin..IntMax

VARIABLES
  mtime,     \* the directory: the files that exist, with their times
  first,     \* history: the directory at the beginning
  phase,     \* of each process: "start", "filter", "loop", "returned", "failed"
  todo,      \* directory entries scandir has not yet looked at
  listed,    \* those it has taken
  namelist, n, entries, \* locals of limit_cachesize
  limits,    \* history: the parameter `entries`
  removed    \* history: what each process has called unlink for

limitVars == <<mtime, first, phase, todo, listed, namelist, n, entries, limits, removed>>

Old(t) == Now - t > Day

-----------------------------------------------------------------------------
LimitInit ==
  /\ mtime \in Contents /\ first = mtime
  /\ phase = [p \in Procs |-> "start"]
  /\ todo = [p \in Procs |-> {}] /\ listed = [p \in Procs |-> {}]
  /\ namelist = [p \in Procs |-> <<>>] /\ n = [p \in Procs |-> 0]
  /\ entries = [p \in Procs |-> 0] /\ limits = [p \in Procs |-> 0]
  /\ removed = [p \in Procs |-> {}]

\* limit_cachesize(cache, limit) calls scandir(), which may fail.
Call(p, limit) ==
  /\ phase[p] = "start"
  /\ entries' = [entries EXCEPT ![p] = limit]
  /\ limits' = [limits EXCEPT ![p] = limit]
  /\ \/ phase' = [phase EXCEPT ![p] = "failed"] /\ UNCHANGED todo
     \/ /\ phase' = [phase EXCEPT ![p] = "filter"]
        /\ todo' = [todo EXCEPT ![p] = DOMAIN mtime]
  /\ UNCHANGED <<mtime, first, listed, namelist, n, removed>>

\* (mutant) files whose names begin with a dot are cache entries.
OldOnly(f) == f \in DOMAIN mtime /\ Old(mtime[f])
agefilter(f) == f \notin Hidden /\ f \in DOMAIN mtime /\ Old(mtime[f])

\* readdir() yields the entries in any order, and agefilter() is called for each.
Filter(p, f) ==
  /\ phase[p] = "filter" /\ f \in todo[p]
  /\ todo' = [todo EXCEPT ![p] = @ \ {f}]
  /\ listed' = [listed EXCEPT ![p] = IF agefilter(f) THEN @ \cup {f} ELSE @]
  /\ UNCHANGED <<mtime, first, phase, namelist, n, entries, limits, removed>>

\* (mutant) the oldest files come first.
OldestFirst(s) == \A i, j \in DOMAIN s : i < j => mtime[s[i]] <= mtime[s[j]]
NewestFirst(s) == \A i, j \in DOMAIN s : i < j => mtime[s[i]] >= mtime[s[j]]

\* agesort() looks at the times anew at every comparison, takes files that have
\* disappeared for equal to all others, and returns a difference as an int: qsort()
\* may leave any order behind if a file disappears, if other processes rewrite files
\* meanwhile, or if a difference is no int.
Alone(p) == \A q \in Procs \ {p} : phase[q] = "start"
TimesAreSteady(p) == listed[p] \subseteq DOMAIN mtime /\ Alone(p) /\ Now <= IntMax
Orders(p) ==
  {s \in Bijection(1..Cardinality(listed[p]), listed[p]) : TimesAreSteady(p) => NewestFirst(s)}
Sort(p) ==
  /\ phase[p] = "filter" /\ todo[p] = {}
  /\ \E s \in Orders(p) :
       /\ namelist' = [namelist EXCEPT ![p] = s]
       /\ n' = [n EXCEPT ![p] = Len(s)]
  /\ phase' = [phase EXCEPT ![p] = "loop"]
  /\ UNCHANGED <<mtime, first, todo, listed, entries, limits, removed>>

\* `entries--`: below INT_MIN the result is undefined, the number may wrap around
\* or stay below zero.
Decremented(e) == IF e > IntMin THEN {e - 1} ELSE {IntMax, IntMin}

\* (mutant) one entry too many is skipped.
SkippedWithMinusOne(e) == e >= -1
Skipped(e) == e >= 0

Keep(p) ==
  /\ phase[p] = "loop" /\ n[p] > 0
  /\ \E e \in Decremented(entries[p]) :
       Skipped(e) /\ entries' = [entries EXCEPT ![p] = e]
  /\ n' = [n EXCEPT ![p] = @ - 1]
  /\ UNCHANGED <<mtime, first, phase, todo, listed, namelist, limits, removed>>

\* The result of unlink() is not looked at.
Unlink(p) ==
  /\ phase[p] = "loop" /\ n[p] > 0
  /\ \E e \in Decremented(entries[p]) :
       ~Skipped(e) /\ entries' = [entries EXCEPT ![p] = e]
  /\ LET f == namelist[p][n[p]]
     IN  /\ mtime' = [g \in DOMAIN mtime \ ({f} \ Undeletable) |-> mtime[g]]
         /\ removed' = [removed EXCEPT ![p] = @ \cup {f}]
  /\ n' = [n EXCEPT ![p] = @ - 1]
  /\ UNCHANGED <<first, phase, todo, listed, namelist, limits>>

Return(p) ==
  /\ phase[p] = "loop" /\ n[p] = 0
  /\ phase' = [phase EXCEPT ![p] = "returned"]
  /\ UNCHANGED <<mtime, first, todo, listed, namelist, n, entries, limits, removed>>

\* A search begins after that, and ends with Cache::dump().
Dump(p, f) ==
  /\ phase[p] \in {"returned", "failed"} /\ f \notin Hidden \cup Undeletable
  /\ mtime' = [g \in DOMAIN mtime \cup {f} |-> IF g = f THEN Now ELSE mtime[g]]
  /\ UNCHANGED <<first, phase, todo, listed, namelist, n, entries, limits, removed>>

Limit(p) == (\E f \in Files : Filter(p, f)) \/ Sort(p) \/ Keep(p) \/ Unlink(p) \/ Return(p)
LimitNext ==
  \E p \in Procs : \/ \E limit \in Limits : Call(p, limit)
                   \/ Limit(p)
                   \/ \E f \in Files : Dump(p, f)

LimitSpec == LimitInit /\ [][LimitNext]_limitVars

-----------------------------------------------------------------------------
LimitTypeOK ==
  /\ DOMAIN mtime \subseteq Files /\ \A f \in DOMAIN mtime : mtime[f] \in 0..Now
  /\ first \in Contents
  /\ phase \in [Procs -> {"start", "filter", "loop", "returned", "failed"}]
  /\ todo \in [Procs -> SUBSET Files] /\ listed \in [Procs -> SUBSET Files]
  /\ namelist \in [Procs -> Seq(Files)] /\ n \in [Procs -> Nat]
  /\ entries \in [Procs -> IntMin..IntMax] /\ limits \in [Procs -> Limits \cup {0}]
  /\ removed \in [Procs -> SUBSET Files]
  /\ \A p \in Procs : n[p] <= Len(namelist[p])

\* How many entries a process may leave.
Allowed(p) == IF limits[p] < 0 THEN 0 ELSE limits[p]
\* It has returned, and has not counted below INT_MIN.
Finished(p) == phase[p] = "returned" /\ limits[p] - Len(namelist[p]) >= IntMin

\* "At most 200 cache entries older than a day are retained" (manual): of the
\* entries a process found at most the limit are left, whatever the others do
\* meanwhile.  (Entries that cannot be unlinked are left all the same.)
AtMostTheLimit ==
  \A p \in Procs : Finished(p) =>
    Cardinality({f \in listed[p] \cap DOMAIN mtime : Old(mtime[f])} \ Undeletable)
      <= Allowed(p)

\* And no more than that is unlinked: "Skip the first N cache entries".  They are
\* the last ones of the list.
SparesTheLimit ==
  \A p \in Procs : Finished(p) =>
    removed[p] = {namelist[p][i] : i \in 1..(Len(namelist[p]) - Allowed(p))}

\* So a process keeps to its limit, whatever the others do.
KeepsToTheLimit == AtMostTheLimit /\ SparesTheLimit

\* Entries that were not yet a day old, and hidden files, are never removed, by
\* however many processes.
YoungAndHiddenStay ==
  \A f \in DOMAIN first : f \in Hidden \/ ~Old(first[f]) => f \in DOMAIN mtime

\* The list is sorted newest first and unlinked from its beginning: an undisturbed
\* process keeps the oldest entries (if times are as far apart as an int can tell).
OldestAreKept ==
  \A p \in Procs : (Finished(p) /\ Alone(p)) =>
    \A f \in removed[p], g \in listed[p] \ removed[p] : first[f] >= first[g]
=============================================================================
