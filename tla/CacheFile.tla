------------------------------ MODULE CacheFile -------------------------------
(***************************************************************************)
(* The cache file of one PDF (src/cache.cc): the Cache constructor reads   *)
(* it and dump() rewrites it in place, both through stdio-like buffers, in *)
(* chunks of any size.  Several processes may do so at once, each may be   *)
(* killed at any point, a write may fail and the file may be unlinked.     *)
(*                                                                         *)
(* A file is a sequence of bytes: NUL, the indicator "C", the version and  *)
(* the characters of labels and texts.                                     *)
(***************************************************************************)
EXTENDS Integers, Sequences, SequencesExt, FiniteSetsExt

CONSTANTS
  Procs,        \* pdfgrep processes that search this PDF with --cache
  Doc,          \* its pages as rendered: [label, text], sequences of characters
  NUL,          \* the byte that ends a field and fills a hole
  InitialFiles, \* files an older version may have left
  BufSize,      \* a chunk is at least this long, or the rest; 1: short writes too
  MaxStarts     \* bound: process starts

CACHE_VERSION == "1"
Indicator == "C"
Byte == STRING
Inodes == 1..(Cardinality(Procs) + 1)

ASSUME ProcsAssumption == IsFiniteSet(Procs)
ASSUME ByteAssumption ==
  {NUL, Indicator, CACHE_VERSION} \subseteq Byte /\ NUL \notin {Indicator, CACHE_VERSION}
\* The texts of the PDF have no NUL in them.
ASSUME DocAssumption ==
  Doc \in Seq([label: Seq(Byte \ {NUL}), text: Seq(Byte \ {NUL})])
ASSUME BoundsAssumption == MaxStarts \in Nat /\ BufSize \in Nat \ {0}

VARIABLES
  entry,    \* the inode the file name refers to, 0 if there is no such file
  content,  \* the bytes of each inode
  pc,       \* "idle", "reading", "searching", "dumping", "writing"
  fd, pos,  \* the open inode of a process and its offset
  buf,      \* bytes read so far, or bytes not yet written
  mem,      \* the Cache object: [valid, pages]
  starts

vars == <<entry, content, pc, fd, pos, buf, mem, starts>>

NoCache == [valid |-> FALSE, pages |-> <<>>]

-----------------------------------------------------------------------------
\* The file format.

Record(page) == Append(page.label, NUL) \o Append(page.text, NUL)
Records(pages) == FlattenSeq([i \in 1..Len(pages) |-> Record(pages[i])])
FileOf(first, pages) == <<first, CACHE_VERSION, NUL>> \o Records(pages)

\* std::getline(fd, field, NUL), called again and again: field k of the bytes
\* s.  The last field need not be terminated, but then it must not be empty.
Ends(s) == {i \in DOMAIN s : s[i] = NUL}
Terminated(s) == Cardinality(Ends(s))
End(s, k) ==
  IF k = 0 THEN 0
  ELSE IF k > Terminated(s) THEN Len(s) + 1
  ELSE CHOOSE i \in Ends(s) : Cardinality({j \in Ends(s) : j <= i}) = k
Field(s, k) == SubSeq(s, End(s, k - 1) + 1, End(s, k) - 1)
Readable(s, k) ==
  k <= Terminated(s) \/ (k = Terminated(s) + 1 /\ Field(s, k) # <<>>)

\* operator>> on a CachePage: at the end of the file the label is read, but the
\* attempt to read the text then fails.
PageReadable(s, k) == 2 * k <= Terminated(s) /\ Readable(s, 2 * k + 1)

\* (mutant) a file that was never completed is read as well.
AnyIndicator(bytes) == bytes # <<>>
IsComplete(bytes) == bytes # <<>> /\ Head(bytes) = Indicator

IsCurrent(s) == Readable(s, 1) /\ Field(s, 1) = <<CACHE_VERSION>>

\* The Cache constructor.  From an empty file the indicator is not assigned:
\* whatever it holds, the version that follows is not the right one.
Load(bytes) ==
  LET s == Tail(bytes)
      n == Cardinality({k \in 1..Len(s) : PageReadable(s, k)})
  IN  IF ~IsComplete(bytes) \/ ~IsCurrent(s) THEN NoCache
      ELSE [valid |-> TRUE,
            pages |-> [k \in 1..n |-> [label |-> Field(s, 2 * k),
                                       text  |-> Field(s, 2 * k + 1)]]]

\* What an older version has left is not taken for a cache of this one.
ASSUME InitialFilesAssumption ==
  \A file \in InitialFiles : file \in Seq(Byte) /\ ~Load(file).valid

\* write(2) at an offset: a gap behind the end of the file reads as zeros.
WriteAt(file, offset, chunk) ==
  [i \in 1..Max({Len(file), offset + Len(chunk)}) |->
     IF offset < i /\ i <= offset + Len(chunk) THEN chunk[i - offset]
     ELSE IF i <= Len(file) THEN file[i] ELSE NUL]

\* How many of the next `rest` bytes one read(2) or write(2) transfers.
Chunks(rest) == {n \in 1..rest : n >= BufSize \/ n = rest}

\* The pages in memory once the pages up to k have been searched: set_page()
\* for those the cache did not have.
Extended(pages, k) ==
  [i \in 1..Max({k, Len(pages)}) |->
     IF i <= Len(pages) THEN pages[i] ELSE Doc[i]]

-----------------------------------------------------------------------------
Init ==
  /\ \E file \in InitialFiles \cup {<<>>} :
       /\ content = [i \in Inodes |-> IF i = 1 THEN file ELSE <<>>]
       /\ entry \in IF file = <<>> THEN {0, 1} ELSE {1}
  /\ pc = [p \in Procs |-> "idle"]
  /\ fd = [p \in Procs |-> 0] /\ pos = [p \in Procs |-> 0]
  /\ buf = [p \in Procs |-> <<>>]
  /\ mem = [p \in Procs |-> NoCache]
  /\ starts = 0

\* ifstream fd(cache_file)
OpenForReading(p) ==
  /\ pc[p] = "idle" /\ starts < MaxStarts
  /\ starts' = starts + 1
  /\ IF entry = 0
     THEN pc' = [pc EXCEPT ![p] = "searching"] /\ UNCHANGED fd
     ELSE pc' = [pc EXCEPT ![p] = "reading"] /\ fd' = [fd EXCEPT ![p] = entry]
  /\ UNCHANGED <<entry, content, pos, buf, mem>>

ReadChunk(p) ==
  /\ pc[p] = "reading"
  /\ \E n \in Chunks(Len(content[fd[p]]) - pos[p]) :
       /\ buf' = [buf EXCEPT ![p] = @ \o SubSeq(content[fd[p]], pos[p] + 1, pos[p] + n)]
       /\ pos' = [pos EXCEPT ![p] = @ + n]
  /\ UNCHANGED <<entry, content, pc, fd, mem, starts>>

\* read(2) returns 0: the constructor has seen all it will see.
EndOfFile(p) ==
  /\ pc[p] = "reading" /\ pos[p] >= Len(content[fd[p]])
  /\ mem' = [mem EXCEPT ![p] = Load(buf[p])]
  /\ pc' = [pc EXCEPT ![p] = "searching"]
  /\ fd' = [fd EXCEPT ![p] = 0] /\ pos' = [pos EXCEPT ![p] = 0]
  /\ buf' = [buf EXCEPT ![p] = <<>>]
  /\ UNCHANGED <<entry, content, starts>>

\* The search, up to some page, with set_page() for what was not cached.
Search(p) ==
  /\ pc[p] = "searching"
  /\ \E k \in 0..Len(Doc) : mem' = [mem EXCEPT ![p].pages = Extended(@, k)]
  /\ pc' = [pc EXCEPT ![p] = "dumping"]
  /\ UNCHANGED <<entry, content, fd, pos, buf, starts>>

\* ofstream fd(cache_file): created if missing, truncated if not.
OpenForWriting(p) ==
  /\ pc[p] = "dumping"
  /\ \E i \in IF entry # 0 THEN {entry}
              ELSE {j \in Inodes : \A q \in Procs : fd[q] # j} :
       /\ entry' = i
       /\ content' = [content EXCEPT ![i] = <<>>]
       /\ fd' = [fd EXCEPT ![p] = i]
  /\ buf' = [buf EXCEPT ![p] = FileOf(NUL, mem[p].pages)]
  /\ pc' = [pc EXCEPT ![p] = "writing"]
  /\ UNCHANGED <<pos, mem, starts>>

\* The buffer of the stream is full, or flush().
WriteChunk(p) ==
  /\ pc[p] = "writing"
  /\ \E n \in Chunks(Len(buf[p])) :
       /\ content' = [content EXCEPT ![fd[p]] = WriteAt(@, pos[p], SubSeq(buf[p], 1, n))]
       /\ buf' = [buf EXCEPT ![p] = SubSeq(@, n + 1, Len(@))]
       /\ pos' = [pos EXCEPT ![p] = @ + n]
  /\ UNCHANGED <<entry, pc, fd, mem, starts>>

\* (mutant) the descriptor stays open.
GoneOpen(p) ==
  /\ pc' = [pc EXCEPT ![p] = "idle"]
  /\ UNCHANGED <<entry, starts, fd, pos, buf, mem>>

\* The process is gone: its descriptors are closed, its memory is lost.
Gone(p) ==
  /\ pc'  = [pc EXCEPT ![p] = "idle"]
  /\ fd'  = [fd EXCEPT ![p] = 0] /\ pos' = [pos EXCEPT ![p] = 0]
  /\ buf' = [buf EXCEPT ![p] = <<>>]
  /\ mem' = [mem EXCEPT ![p] = NoCache]
  /\ UNCHANGED <<entry, starts>>

\* (mutant) the indicator is written before the pages are flushed.
MarkEarly(p) ==
  /\ pc[p] = "writing"
  /\ content' = [content EXCEPT ![fd[p]] = WriteAt(@, 0, <<Indicator>>)]
  /\ Gone(p)

\* Everything is flushed: seekp(0) and the indicator byte.
Mark(p) ==
  /\ pc[p] = "writing" /\ buf[p] = <<>>
  /\ content' = [content EXCEPT ![fd[p]] = WriteAt(@, 0, <<Indicator>>)]
  /\ Gone(p)

\* The process is killed, or it gives up: the file cannot be opened for writing,
\* or a write fails and the stream ignores all that follows, the 'C' included.
Stop(p) == pc[p] # "idle" /\ Gone(p) /\ UNCHANGED content

\* limit_cachesize() of another pdfgrep, or the user.
Unlink ==
  /\ entry # 0
  /\ entry' = 0
  /\ UNCHANGED <<content, pc, fd, pos, buf, mem, starts>>

Next ==
  \/ \E p \in Procs :
       \/ OpenForReading(p) \/ ReadChunk(p) \/ EndOfFile(p) \/ Search(p)
       \/ OpenForWriting(p) \/ WriteChunk(p) \/ Mark(p) \/ Stop(p)
  \/ Unlink

Spec == Init /\ [][Next]_vars

-----------------------------------------------------------------------------
TypeOK ==
  /\ entry \in Inodes \cup {0}
  /\ content \in [Inodes -> Seq(Byte)]
  /\ pc \in [Procs -> {"idle", "reading", "searching", "dumping", "writing"}]
  /\ fd \in [Procs -> Inodes \cup {0}]
  /\ \A p \in Procs : fd[p] # 0 <=> pc[p] \in {"reading", "writing"}
  /\ pos \in [Procs -> Nat]
  /\ buf \in [Procs -> Seq(Byte)]
  /\ \A p \in Procs : /\ mem[p].valid \in BOOLEAN
                      /\ mem[p].pages \in Seq([label: Seq(Byte), text: Seq(Byte)])
  /\ starts \in 0..MaxStarts

\* The comment in dump(): the indicator is 'C' only once all pages are flushed.
\* A file that carries the 'C' and the current version is a complete dump of the
\* first pages of the PDF, also after a crash, a failed write or an unlink.
MarkedIsComplete ==
  \A i \in Inodes :
    Load(content[i]).valid =>
      \E k \in 0..Len(Doc) : content[i] = FileOf(Indicator, SubSeq(Doc, 1, k))

\* The file behaves as a register that is read and written in one step: a
\* process reads it when it opens it, and it is written by the 'C'.  So a process
\* never sees a page that is truncated, shifted or missing (CacheFileProofs).
Atomic ==
  INSTANCE AtomicCache
    WITH disk <- IF entry = 0 THEN NoCache ELSE Load(content[entry]),
         mem  <- [p \in Procs |-> IF pc[p] = "reading" THEN Load(content[fd[p]])
                                  ELSE mem[p]]
IsAtomic == Atomic!Spec
=============================================================================
