------------------------------- MODULE Startup --------------------------------
(***************************************************************************)
(* pdfgrep from its command line to its file loop: main() as in            *)
(* OptionParsing calls limit_cachesize() as in CacheLimit, while other     *)
(* pdfgrep processes do the same to the cache directory or already search. *)
(***************************************************************************)
EXTENDS OptionParsing, CacheLimit

CONSTANTS
  Me,           \* the process whose main() this is
  OtherLimits,  \* limits the other processes run with
  Empty,        \* the empty directory
  Stocked       \* bound: situations in which there are files in the directory

ASSUME MeAssumption ==
  Me \in Procs /\ Limits = IntMin..IntMax /\ OtherLimits \subseteq Limits /\ Empty \in Contents

allVars == <<vars, limitVars>>

StartupInit == Init /\ LimitInit /\ (start \notin Stocked => mtime = Empty)

\* main() before and after its call of limit_cachesize().
BeforeLimit ==
  \/ OptionStep \/ CheckUsage \/ MakeEngine \/ ReadPair \/ ColorsDone \/ Settle
  \/ NoCache \/ FindCache
LimitDone == phase[Me] \in {"returned", "failed"} /\ CacheLimited

CallLimit == Call(Me, limit)

InLimit == pc = "limit" /\ (CallLimit \/ Limit(Me))

MainStep ==
  \/ (BeforeLimit \/ LimitDone) /\ UNCHANGED limitVars
  \/ InLimit /\ UNCHANGED vars

\* What the others do matters from the call on.
OtherStep ==
  /\ pc = "limit" /\ UNCHANGED vars
  /\ \E p \in Procs \ {Me} : \/ \E l \in OtherLimits : Call(p, l)
                             \/ Limit(p)
                             \/ \E f \in Files : Dump(p, f)

StartupOver == Over /\ UNCHANGED limitVars

StartupNext == MainStep \/ OtherStep \/ StartupOver
StartupSpec == StartupInit /\ [][StartupNext]_allVars

-----------------------------------------------------------------------------
StartupTypeOK == ParsingTypeOK /\ LimitTypeOK

\* "At most 200 cache entries older than a day are retained" (manual), or as many
\* as PDFGREP_CACHE_LIMIT says, from the environment to the directory: when the
\* search begins, no more of the old entries that were found there are left, and
\* no more than necessary were removed.  This needs a number up to INT_MAX: those
\* from there to UINT_MAX count as 0, larger ones wrap around.
Limited == start.env.limited
LimitGiven == IF Limited THEN start.env.limit.magnitude ELSE DefaultLimit
LimitIsRespected ==
  (/\ Searches /\ options.use_cache /\ phase[Me] = "returned"
   /\ Limited => Written(start.env.limit) \in 0..IntMax) =>
     /\ Cardinality({f \in listed[Me] \cap DOMAIN mtime : Old(mtime[f])} \ Undeletable)
          <= LimitGiven
     /\ Cardinality(removed[Me]) = Max({0, Cardinality(listed[Me]) - LimitGiven})
=============================================================================
