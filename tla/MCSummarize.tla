----------------------------- MODULE MCSummarize -----------------------------
(* Programs for Summarize.                                                 *)
EXTENDS Summarize, TLC

CONSTANTS f, g, a, b, c, d

Symmetry == Permutations(Threads)

\* Two methods in one file, one in another, of which a line cannot be split, and one
\* that is written in C.
FourMethods ==
  (a :> [type |-> "iseq", spath |-> f, first |-> 1, lines |-> {2, 3}])
  @@ (b :> [type |-> "iseq", spath |-> f, first |-> 5, lines |-> {6}])
  @@ (c :> [type |-> "iseq", spath |-> g, first |-> 1, lines |-> {2}])
  @@ (d :> [type |-> "cfunc", spath |-> g, first |-> 1, lines |-> {1}])

OneUnreadable == (f :> {}) @@ (g :> {1})
AllReadable == [x \in Files |-> {}]

\* One method with a line from which it may return early.
OneMethod == a :> [type |-> "iseq", spath |-> f, first |-> 1, lines |-> {2, 3}]

\* A method defined beyond line 2^15, with the short scaled down to 2^4.
FarMethod == a :> [type |-> "iseq", spath |-> f, first |-> 9, lines |-> {10, 11}]

\* A class body ends between the two methods of f.
OneClass == {<<f, 4>>}

NoClass == {}

SourceLines == [x \in Files |-> 11]
=============================================================================
