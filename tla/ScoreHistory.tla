---------------------------- MODULE ScoreHistory ----------------------------
(***************************************************************************)
(* SourceInfo with a clock that may be set back, and the exact sum of the  *)
(* intervals that the stopwatches of each line have shown.                 *)
(*                                                                         *)
(* sinfo_measure reads CLOCK_REALTIME into an unsigned number, subtracts   *)
(* and adds without looking at the sign (sinfo.c:254, 293), and            *)
(* SourceInfo#lines reads the result with LL2NUM (sinfo.c:124).  An        *)
(* interval that ends before it began passes through as a huge unsigned    *)
(* number.                                                                 *)
(***************************************************************************)
EXTENDS SourceInfo

CONSTANT ExactBound  \* bound on the exact sums, so that there are finitely many

ASSUME ExactAssumption == ExactBound \in Nat /\ 2 * ExactBound < TimeMod

VARIABLE exact  \* exact[f][i]: a history variable, a true integer

Indexes == 0 .. MaxLine - 1

\* What the thread's stopwatch of the line shows when this step reads it out.
\* A container that is freed reads nothing out.
Reading(th, f, i) ==
  IF /\ process'[th] # NoEntries
     /\ has_value(StartOf(th, f, i))
     /\ ~has_value(StartOf(th, f, i)')
  THEN clock - StartOf(th, f, i)
  ELSE 0

InitHistory ==
  /\ Init
  /\ exact = [f \in Files |-> [i \in Indexes |-> 0]]

NextHistory ==
  /\ Next
  /\ exact' = [f \in Files |-> [i \in Indexes |->
                 exact[f][i] + SumFunction([th \in Threads |-> Reading(th, f, i)])]]
  /\ \A f \in Files, i \in Indexes : exact'[f][i] \in -ExactBound .. ExactBound

SpecHistory == InitHistory /\ [][NextHistory]_<<vars, exact>>

\* The lines that Ruby sees are the exact sums, negative ones included: the
\* wrap of the subtraction, that of the addition and the signed reading cancel
\* out as long as the sum itself fits in the signed type.  A line that was
\* never scored has an exact sum of zero.
ReportIsExact ==
  \A f \in Files, i \in Indexes :
    exact[f][i] = IF i < SizeOf(scoring[f])
                  THEN sinfo_m_lines(scoring[f])[i]
                  ELSE 0
=============================================================================
