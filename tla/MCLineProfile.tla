---------------------------- MODULE MCLineProfile ----------------------------
(* Programs for LineProfile: which constructs of a method keep its profile  *)
(* exact, and which do not.  Lines are written file by file, top to bottom. *)
EXTENDS LineProfile, TLC

CONSTANTS f, g, h

Symmetry == Permutations(Threads)

In(file, edges) == {<<<<file, e[1]>>, <<file, e[2]>>>> : e \in edges}

\* A straight-line method of three lines in f; its line 2 calls one of a single
\* line in g.
StraightEntries == {<<f, 1>>}
StraightFlow == In(f, {<<1, 2>>, <<2, 3>>})
StraightCalls == {<<<<f, 2>>, <<g, 1>>>>}
StraightExits == {<<f, 3>>, <<g, 1>>}

\* What is proved of straight-line programs is proved of this one.
ASSUME Flow = StraightFlow =>
         TimesFit /\ \E rank \in [Files -> 0 .. 1] : StraightProgram(rank)

\* An if in f: line 1 branches to 2 or 3, which join at the end, 4.  A loop in g, between
\* lines 1 and 4, that is gone through at least once (its condition is tested without
\* an event).  A method of lines 1 to 3 in h whose line 2 calls one of a single line
\* further down.
ThreeEntries == {<<f, 1>>, <<g, 1>>, <<h, 1>>}
ThreeFlow ==
  In(f, {<<1, 2>>, <<1, 3>>, <<2, 4>>, <<3, 4>>})
    \union In(g, {<<1, 2>>, <<2, 3>>, <<3, 2>>, <<3, 4>>})
    \union In(h, {<<1, 2>>, <<2, 3>>})
ThreeCalls == In(h, {<<2, 4>>})
ThreeExits == {<<f, 4>>, <<g, 4>>, <<h, 3>>, <<h, 4>>}
=============================================================================
