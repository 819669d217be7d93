------------------------------ MODULE MCCacheFile -----------------------------
(* Small instances of CacheFile. *)
EXTENDS CacheFile

\* Two pages: one with a label and a text that a chunk can cut in two, one
\* without a label.
TwoPages == << [label |-> <<"i">>, text |-> <<"a", "b">>],
               [label |-> <<>>, text |-> <<"c">>] >>

\* One page without text in the middle.
ThreePages == << [label |-> <<"i">>, text |-> <<"a", "b">>],
                 [label |-> <<"i", "i">>, text |-> <<>>],
                 [label |-> <<>>, text |-> <<"c">>] >>

\* A complete file of another version, and one that was never finished.
OldFiles == { <<"C", "0", NUL, "x", NUL, "y", NUL>>, <<NUL, "0", NUL, "x">> }
=============================================================================
