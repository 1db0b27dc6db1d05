----------------------------- MODULE LineTimers -----------------------------
(***************************************************************************)
(* What the measuring half of PLine (ext/pline/sinfo.c) promises, without  *)
(* its tables, its growing arrays and its cached previous lines.  Every    *)
(* thread keeps one stopwatch per source line; the stopwatches of a file   *)
(* feed one total per line, shared by all threads.                         *)
(*                                                                         *)
(* When a thread reaches a line, at most one stopwatch is read out: one of *)
(* the same thread, in the same file, of a smaller line.  It is read once, *)
(* at the instant the thread reaches the new line, and stopped.            *)
(***************************************************************************)
EXTENDS Integers

CONSTANTS
  Threads,   \* execution contexts: Ruby threads
  Files,     \* source files, by path
  MaxLine,   \* the largest line number of any file
  TimeMod    \* times are unsigned numbers of 64 bits: TimeMod stands for 2^64

VARIABLES
  running,   \* running[th][f][i]: when the stopwatch was started, 0 if stopped
  total,     \* total[f][i]: what the stopwatches of the line have read so far
  now        \* the system clock

vars == <<running, total, now>>

Index == 0 .. MaxLine - 1
Stopped == 0

Init ==
  /\ running = [th \in Threads |-> [f \in Files |-> [i \in Index |-> Stopped]]]
  /\ total = [f \in Files |-> [i \in Index |-> 0]]
  /\ now \in Nat \ {0}

\* The thread starts the stopwatch of line i and reads out that of line p.
ReachLine(th, f, i, p) ==
  /\ p < i
  /\ running' = [running EXCEPT ![th][f][i] = now, ![th][f][p] = Stopped]
  /\ total' = IF running[th][f][p] = Stopped
              THEN total
              ELSE [total EXCEPT ![f][p] =
                      (@ + (now - running[th][f][p])) % TimeMod]
  /\ UNCHANGED now

\* The thread starts the stopwatch of line i and reads out none.
ReachFirstLine(th, f, i) ==
  /\ running' = [running EXCEPT ![th][f][i] = now]
  /\ UNCHANGED <<total, now>>

\* The stopwatches of a thread that ends are never read out.
Abandon(th) ==
  /\ running' = [running EXCEPT ![th] = [f \in Files |-> [i \in Index |-> Stopped]]]
  /\ UNCHANGED <<total, now>>

\* The system clock moves, in either direction.
ClockMoves ==
  /\ now' \in Nat \ {0}
  /\ UNCHANGED <<running, total>>

Next ==
  \/ \E th \in Threads, f \in Files, i, p \in Index : ReachLine(th, f, i, p)
  \/ \E th \in Threads, f \in Files, i \in Index : ReachFirstLine(th, f, i)
  \/ \E th \in Threads : Abandon(th)
  \/ ClockMoves

Spec == Init /\ [][Next]_vars
=============================================================================
