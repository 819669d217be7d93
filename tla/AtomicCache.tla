----------------------------- MODULE AtomicCache ------------------------------
(***************************************************************************)
(* What the cache file promises to the processes that use it: a register   *)
(* that holds nothing or the pages some process saved, read and written    *)
(* in one step.  It may lose what it holds at any time.                    *)
(***************************************************************************)
EXTENDS Naturals, Sequences

CONSTANTS Procs, \* the pdfgrep processes that search this PDF
          Doc    \* the rendered pages of the PDF, a sequence

VARIABLES disk,  \* the register: [valid, pages]
          mem    \* the Cache object of each process: [valid, pages]

NoCache == [valid |-> FALSE, pages |-> <<>>]

\* The pages a process has in memory after rendering up to page k.
Extended(pages, k) ==
  [i \in 1..(IF k > Len(pages) THEN k ELSE Len(pages)) |->
     IF i <= Len(pages) THEN pages[i] ELSE Doc[i]]

Init == disk = NoCache /\ mem = [p \in Procs |-> NoCache]

Load(p) == mem' = [mem EXCEPT ![p] = disk] /\ UNCHANGED disk
Render(p) ==
  /\ \E k \in 0..Len(Doc) : mem' = [mem EXCEPT ![p].pages = Extended(@, k)]
  /\ UNCHANGED disk
Save(p) ==
  /\ disk' = [valid |-> TRUE, pages |-> mem[p].pages]
  /\ mem' = [mem EXCEPT ![p] = NoCache]
Exit(p) == mem' = [mem EXCEPT ![p] = NoCache] /\ UNCHANGED disk
Lose == disk' = NoCache /\ UNCHANGED mem

Next == (\E p \in Procs : Load(p) \/ Render(p) \/ Save(p) \/ Exit(p)) \/ Lose
Spec == Init /\ [][Next]_<<disk, mem>>
=============================================================================
