----------------------------- MODULE LineProfile -----------------------------
(***************************************************************************)
(* A program run under PLine: threads call profiled methods, every line    *)
(* they reach fires the event that profiler_linetrace_callback hands to    *)
(* sinfo_measure, and a history variable keeps the time each line really   *)
(* took.  The profile is what SourceInfo makes of the events.              *)
(*                                                                         *)
(* The program is a constant: which line may follow which, which lines     *)
(* call which methods.  A method's last event is that of its RETURN trace. *)
(* There is one event per line reached; nothing tells PLine that a method  *)
(* has been entered, has returned, or has been left by an exception.       *)
(***************************************************************************)
EXTENDS SourceInfo, Sequences

CONSTANTS
  Entries,   \* locations of the first lines of the methods called from outside
  Flow,      \* pairs of locations: after the first, the method goes on to the second
  Calls,     \* pairs of locations: the first calls the method that starts at the second
  Exits,     \* locations from which a method returns
  Raises,    \* exceptions may leave methods
  MaxDepth   \* bound on the call stack

Locations == Files \X (1 .. MaxLine)
FileOf(loc) == loc[1]
LineOf(loc) == loc[2]

ASSUME ProgramAssumption ==
  /\ Entries \subseteq Locations
  /\ Flow \subseteq Locations \X Locations
  /\ \A edge \in Flow : FileOf(edge[1]) = FileOf(edge[2])
  /\ Calls \subseteq Locations \X Locations
  /\ Exits \subseteq Locations
  /\ Raises \in BOOLEAN
  /\ MaxDepth \in Nat

VARIABLES
  stack,   \* per thread, the profiled methods it is in: where, and since when
  worked   \* history: the time between reaching the line and the method going on

programVars == <<stack, worked>>

Busy(th) == stack[th] # <<>>
Top(th) == stack[th][Len(stack[th])]
Below(th) == SubSeq(stack[th], 1, Len(stack[th]) - 1)

\* profiler_linetrace_callback, for a line of a source file.
Event(th, loc) == sinfo_measure(th, FileOf(loc), LineOf(loc))

Frame(loc) == [at |-> loc, since |-> clock]

\* The thread calls a profiled method from code that is not profiled.
Enter(th, loc) ==
  /\ ~Busy(th)
  /\ loc \in Entries
  /\ Event(th, loc)
  /\ stack' = [stack EXCEPT ![th] = <<Frame(loc)>>]
  /\ UNCHANGED worked

\* The method goes on to its next line.
Advance(th, loc) ==
  /\ Busy(th)
  /\ <<Top(th).at, loc>> \in Flow
  /\ Event(th, loc)
  /\ stack' = [stack EXCEPT ![th] = Append(Below(th), Frame(loc))]
  /\ worked' = [worked EXCEPT ![Top(th).at] = @ + (clock - Top(th).since)]

\* The line calls another profiled method.
Call(th, loc) ==
  /\ Busy(th)
  /\ Len(stack[th]) < MaxDepth
  /\ <<Top(th).at, loc>> \in Calls
  /\ Event(th, loc)
  /\ stack' = [stack EXCEPT ![th] = Append(@, Frame(loc))]
  /\ UNCHANGED worked

\* The method returns: its RETURN trace has fired when it reached the line.
Return(th) ==
  /\ Busy(th)
  /\ Top(th).at \in Exits
  /\ stack' = [stack EXCEPT ![th] = Below(th)]
  /\ UNCHANGED <<worked, vars>>

\* An exception leaves one or more methods.
Raise(th) ==
  /\ Raises
  /\ \E n \in 0 .. Len(stack[th]) - 1 :
       stack' = [stack EXCEPT ![th] = SubSeq(@, 1, n)]
  /\ UNCHANGED <<worked, vars>>

\* The thread ends and is collected.
ThreadEnds(th) ==
  /\ ~Busy(th)
  /\ sinfo_container_free(th)
  /\ UNCHANGED programVars

ClockTicks == Tick /\ UNCHANGED programVars

InitProfile ==
  /\ Init
  /\ stack = [th \in Threads |-> <<>>]
  /\ worked = [loc \in Locations |-> 0]

NextProfile ==
  \/ \E th \in Threads :
       \/ \E loc \in Locations : Enter(th, loc) \/ Advance(th, loc) \/ Call(th, loc)
       \/ Return(th)
       \/ Raise(th)
       \/ ThreadEnds(th)
  \/ ClockTicks

SpecProfile == InitProfile /\ [][NextProfile]_<<vars, programVars>>

-----------------------------------------------------------------------------
(* Straight-line programs.                                                 *)

FirstLines == Entries \union {call[2] : call \in Calls}

\* The lines that threads may reach.
Reachable == FirstLines \union {edge[2] : edge \in Flow}

\* A method runs from top to bottom and leaves out no line that another call reaches,
\* though it may return or be left at any of them.
TopToBottom ==
  \A edge \in Flow :
    /\ LineOf(edge[1]) < LineOf(edge[2])
    /\ \A loc \in Reachable : FileOf(loc) = FileOf(edge[1]) =>
         LineOf(loc) <= LineOf(edge[1]) \/ LineOf(edge[2]) <= LineOf(loc)

\* Nothing is profiled in the file of a method above its first line: each file has one.
OneMethodPerFile ==
  \A first \in FirstLines, loc \in Reachable :
    FileOf(loc) = FileOf(first) => LineOf(first) <= LineOf(loc)

\* Methods call methods of a higher rank only.
NoRecursion(rank) == \A call \in Calls : rank[FileOf(call[1])] < rank[FileOf(call[2])]

StraightProgram(rank) == TopToBottom /\ OneMethodPerFile /\ NoRecursion(rank)

\* No score can wrap: 2^64 nanoseconds are more than 500 years of one thread.
TimesFit == Cardinality(Threads) * (MaxClock - 1) < TimeMod

-----------------------------------------------------------------------------
(* Properties.                                                             *)

ScoreAt(loc) == Score(FileOf(loc), line2idx(LineOf(loc)))

\* No line is charged time that was not spent on it.
NeverOvercharged == \A loc \in Locations : ScoreAt(loc) <= worked[loc]

\* Every line from which a method went on is charged all the time it took.
NeverUndercharged == \A loc \in Locations : ScoreAt(loc) >= worked[loc]

\* What keeps a straight-line method exact: while a thread is at a line, the
\* stopwatch it started there still runs, whatever other threads, earlier
\* calls that an exception cut short, and callees in other files have done.
StopwatchRuns ==
  \A th \in Threads : \A d \in 1 .. Len(stack[th]) :
    LET frame == stack[th][d]
    IN StartOf(th, FileOf(frame.at), line2idx(LineOf(frame.at))) = frame.since

\* What the README says of PLine, that it profiles each line of the methods specified,
\* holds of the methods of one file at least: each of their lines is charged
\* the time it took, or it would be if the stopwatches running there were read out now.
SomeFileIsExact ==
  \E f \in Files : \A i \in 0 .. MaxLine - 1 :
    Score(f, i) + SumFunction([th \in Threads |-> Pending(th, f, i)]) >= worked[<<f, i + 1>>]
=============================================================================
