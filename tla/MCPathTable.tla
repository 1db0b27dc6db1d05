---------------------------- MODULE MCPathTable ----------------------------
(* One file, loaded twice: two Strings of the same contents. *)
EXTENDS PathTable

CONSTANTS t1, t2, p1, s1, s2

MCPathOf == [s \in {s1, s2} |-> p1]
=============================================================================
