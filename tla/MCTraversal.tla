----------------------------- MODULE MCTraversal ------------------------------
(* Small instances of Traversal. *)
EXTENDS Traversal, TLC

\* top/ { a, alias -> a, sub/ { c, up -> top, closed/ {} } }, and b, notes elsewhere
MCNodes == {"top", "sub", "closed", "a", "b", "c", "notes", "up", "alias"}
MCTree ==
  [kind    |-> [n \in MCNodes |-> IF n \in {"top", "sub", "closed"} THEN "dir"
                                  ELSE IF n \in {"up", "alias"} THEN "link" ELSE "file"],
   entries |-> [n \in MCNodes |->
                  CASE n = "top" -> {"a", "alias", "sub"}
                    [] n = "sub" -> {"c", "up", "closed"}
                    [] OTHER -> {}],
   target  |-> ("up" :> "top" @@ "alias" :> "a") @@ [n \in MCNodes |-> n]]

Document(l, p, m) == [loads |-> l, password |-> p, matches |-> m]
Contents == {Document(TRUE, "", 0), Document(TRUE, "", 1), Document(FALSE, "", 0)}
Plain == Document(TRUE, "", 0)

\* Some files are free, the others are plain.
DocumentsOf(free) ==
  {[n \in MCNodes |-> IF n \in free THEN f[n] ELSE Plain] : f \in [free -> Contents]}
\* One has a match, the other cannot be loaded.
TwoDocuments == {f \in DocumentsOf({"a", "c"}) : Plain \notin {f["a"], f["c"]} /\ f["a"] # f["c"]}

Default ==
  [recursive |-> "NONE", quiet |-> FALSE, passwords |-> <<"">>,
   includes |-> MCNodes, excludes |-> {}, args |-> <<>>]

\* Files, links, a directory, one file twice, or nothing (an empty file of patterns
\* takes the only argument); without -r and -R.
FileOptions ==
  {[Default EXCEPT !.args = a, !.quiet = q] :
     q \in BOOLEAN, a \in {<<>>, <<"a">>, <<"a", "b">>, <<"alias", "top", "c">>, <<"b", "b">>}}

\* -r on a link to a directory, -r and -R on the working directory and on both a
\* file and a directory.  With -R the way begins without a link: the bound on
\* links then leaves no file out, only further rounds of the cycle.
Selections ==
  {[Default EXCEPT !.includes = {"a", "alias", "c"}, !.excludes = {"a", "b"}],
   [Default EXCEPT !.includes = {"a", "alias"}]}
RecursiveOptions ==
  {[o EXCEPT !.args = a, !.recursive = r] :
     o \in Selections, r \in Recursion \ {"NONE"}, a \in {<<>>, <<"notes", "top">>}}
  \cup {[o EXCEPT !.args = <<"up">>, !.recursive = "DONT_FOLLOW_SYMLINKS"] : o \in Selections}

\* The first match may be below a directory, with other directories still open.
QuietOptions ==
  {[Default EXCEPT !.quiet = TRUE, !.args = <<"notes", "top">>, !.recursive = r] :
     r \in Recursion \ {"NONE"}}

AllOptions == FileOptions \cup RecursiveOptions \cup QuietOptions

\* One encrypted file and two passwords.
PasswordDocuments ==
  {[n \in MCNodes |-> IF n = "a" THEN Document(TRUE, p, 1) ELSE Plain] :
     p \in {"", "first", "second"}}
PasswordOptions ==
  {[Default EXCEPT !.args = <<a>>, !.passwords = ps] :
     a \in {"a", "c"}, ps \in {<<"">>, <<"first">>, <<"first", "second">>}}
=============================================================================
