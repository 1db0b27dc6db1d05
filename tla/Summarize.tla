------------------------------ MODULE Summarize ------------------------------
(***************************************************************************)
(* lib/pline/summarize.rb: the report that at_exit makes, while threads    *)
(* that the main thread has not waited for still profile and are measured. *)
(*                                                                         *)
(* summarize groups the registered methods by file; then, file by file, it *)
(* takes the file's scores, reads the source, and prints the methods whose *)
(* last line has a score.  Every call of a Ruby method may let other       *)
(* threads run.  An exception ends the report for all methods: one of its  *)
(* own statements, of the output, of the to_s that the program has given a *)
(* class, or one that comes from outside.                                  *)
(***************************************************************************)
EXTENDS Profiler

CONSTANT
  Unreadable \* per file, the lines whose bytes are invalid in the encoding they are read in

ASSUME UnreadableAssumption == Unreadable \in [Files -> SUBSET Nat]

VARIABLES
  phase,    \* where summarize is
  next,     \* how many entries of ALL it has grouped
  groups,   \* files: pairs of a path and its entries, in order of insertion
  size,     \* lines.size of the file at hand
  text,     \* source.size of the file at hand
  report,   \* the entries printed, in order
  raised,   \* history: what raised the exception that ended the report, or None
  exit      \* history: the entries of ALL measured when the process exited

summaryVars == <<phase, next, groups, size, text, report, raised, exit>>
vars == <<profileVars, summaryVars>>

\* SourceInfo#lines.size: the table reaches the largest line measured.
LinesSize(f) == Max(measured[f] \union {0})

Ending == {"done", "aborted"}

\* An exception that nothing rescues.
Raise(cause) == phase' = "aborted" /\ raised' = cause

\* An entry with a score for one of its lines; for its last one.
Started(m) == measured[m.spath] \intersect Definition[m.method].lines # {}
Ended(m) == m.eline \in measured[m.spath]
Entries(s) == {s[i] : i \in 1 .. Len(s)}

\* The process exits: at_exit{summarize}
AtExit ==
  /\ phase = "running"
  /\ phase' = "group"
  /\ exit' = [started |-> {m \in Entries(ALL) : Started(m)},
              ended   |-> {m \in Entries(ALL) : Ended(m)}]
  /\ UNCHANGED <<profileVars, next, groups, size, text, report, raised>>

\* minfos = files[m.spath] ||= []; minfos << m
AddTo(gs, m) ==
  IF \E k \in 1 .. Len(gs) : gs[k].spath = m.spath
  THEN [k \in 1 .. Len(gs) |->
          IF gs[k].spath = m.spath
          THEN [gs[k] EXCEPT !.minfos = Append(@, m)] ELSE gs[k]]
  ELSE Append(gs, [spath |-> m.spath, minfos |-> <<m>>])

\* ALL.each: a method registered meanwhile is met as well.
Group ==
  /\ phase = "group"
  /\ IF next < Len(ALL)
     THEN /\ groups' = AddTo(groups, ALL[next + 1])
          /\ next' = next + 1
          /\ UNCHANGED phase
     ELSE /\ phase' = "find"
          /\ UNCHANGED <<groups, next>>
  /\ UNCHANGED <<profileVars, size, text, report, raised, exit>>

File == Head(groups).spath
Minfos == Head(groups).minfos

\* Faulty, for the mutants: return unless sinfo, redo unless sinfo.
StopHere == phase' = "done" /\ UNCHANGED groups
StayOnFile == phase' = "find" /\ UNCHANGED groups

\* next unless sinfo, and the next file after the last method of one.
NextFile == phase' = "find" /\ groups' = Tail(groups)

\* SourceInfo.find(spath) and SourceInfo#lines
FindScores ==
  /\ phase = "find"
  /\ IF groups = <<>>
     THEN phase' = "done" /\ UNCHANGED <<groups, size>>
     ELSE IF measured[File] = {}
     THEN NextFile /\ UNCHANGED size
     ELSE /\ phase' = "read"
          /\ size' = LinesSize(File)
          /\ UNCHANGED groups
  /\ UNCHANGED <<profileVars, next, text, report, raised, exit>>

\* File.readlines(spath)
ReadSource ==
  /\ phase = "read"
  /\ IF source[File] = None
     THEN Raise("file") /\ UNCHANGED text
     ELSE phase' = "print" /\ text' = source[File] /\ UNCHANGED raised
  /\ UNCHANGED <<profileVars, next, groups, size, report, exit>>

\* Faulty, for the mutants: the test for a score is missing.
Unconditional(m) == TRUE

\* next if lines.size < m.eline
HasScores(m) == ~(size < m.eline)

\* The place of line l in an array of scores: -1 is the last.
Index(l) == IF l = 0 THEN size - 1 ELSE l - 1

\* lines[(m.sline - 1)..(m.eline - 1)]: the numbers of its rows.  There is no such
\* array, but nil, where it would start beyond the end.
SliceIsNil(m) == Index(m.sline) \notin 0 .. size
Rows(m) ==
  {m.sline + i - Index(m.sline) :
     i \in {j \in Index(m.sline) .. Index(m.eline) : j < size}}

\* source[line - 1], to be split: nil cannot be, nor invalid bytes.
SourceLine(l) == IF l = 0 THEN text ELSE l
RowFits(l) == SourceLine(l) \in (1 .. text) \ Unreadable[File]
RowsFit(m) == ~SliceIsNil(m) /\ \A l \in Rows(m) : RowFits(l)

NextMethod == groups' = [groups EXCEPT ![1].minfos = Tail(@)]

\* minfos.each: the scores of the method, @@output.puts, m.description, which calls
\* to_s of the method's class, build_message, and @@output.puts again.  What runs
\* in those calls meanwhile does not change what is read here.
PrintMethod ==
  /\ phase = "print"
  /\ \/ /\ Minfos = <<>>
        /\ NextFile
        /\ UNCHANGED <<report, raised>>
     \/ /\ Minfos # <<>>
        /\ LET m == Head(Minfos)
           IN \/ /\ ~HasScores(m)
                 /\ NextMethod
                 /\ UNCHANGED <<phase, report, raised>>
              \/ /\ HasScores(m) /\ RowsFit(m)
                 /\ NextMethod
                 /\ report' = Append(report, m)
                 /\ UNCHANGED <<phase, raised>>
              \/ /\ HasScores(m) /\ ~RowsFit(m)
                 /\ Raise("rows")
                 /\ UNCHANGED <<groups, report>>
              \/ /\ HasScores(m) /\ ~SliceIsNil(m)
                 /\ \E cause \in {"output", "description"} : Raise(cause)
                 /\ UNCHANGED <<groups, report>>
  /\ UNCHANGED <<profileVars, next, size, text, exit>>

\* A signal, Thread#raise, or what any Ruby method may meet: no memory, no
\* descriptor, no right to read the file.
Interrupted ==
  /\ phase \in {"group", "find", "read", "print"}
  /\ Raise("outside")
  /\ UNCHANGED <<profileVars, next, groups, size, text, report, exit>>

Init ==
  /\ InitProfiler
  /\ phase = "running"
  /\ next = 0
  /\ groups = <<>>
  /\ size = 0
  /\ text = 0
  /\ report = <<>>
  /\ raised = None
  /\ exit = [started |-> {}, ended |-> {}]

summarize == Group \/ FindScores \/ ReadSource \/ PrintMethod

\* Once the report has ended, the process does.
Elsewhere == NextProfiler /\ phase \notin Ending /\ UNCHANGED summaryVars

Next ==
  \/ Elsewhere
  \/ AtExit
  \/ Group
  \/ FindScores
  \/ ReadSource
  \/ PrintMethod
  \/ Interrupted

\* The main thread runs at_exit, and is scheduled again and again.
Spec == Init /\ [][Next]_vars /\ WF_vars(summarize)

-----------------------------------------------------------------------------
(* Properties.                                                             *)

\* Some group holds the entry.
In(gs, m) == \E k \in 1 .. Len(gs) : m \in Entries(gs[k].minfos)

\* A report that reaches its end has left out no method that was registered and
\* had reached its last line when the process exited, whatever other threads
\* registered, measured or removed meanwhile, and whichever files came before.  One
\* that is cut short has passed over none on its way: what it has not printed is
\* in the group at hand or in one after it, or was still to be grouped.
NothingDueForgotten ==
  /\ phase = "done" => exit.ended \subseteq Entries(report)
  /\ phase = "aborted" =>
       \A m \in exit.ended :
         \/ m \in Entries(report)
         \/ In(groups, m)
         \/ \E i \in next + 1 .. Len(ALL) : ALL[i] = m

\* Where one of the report's own statements raises, and not the output, the program's
\* to_s or something outside, the source is not what it was when the method was
\* profiled, or the method has a line of bytes that cannot be split.  In
\* particular no score is ever missing for a row, and no row is asked for beyond the
\* scores or the source (summarize.rb:110-120, 46).
AbortedForCause ==
  phase = "aborted" /\ raised \in {"file", "rows"} =>
    \/ source[File] # SourceLength[File]
    \/ /\ raised = "rows"
       /\ \E l \in Unreadable[File] :
            Head(Minfos).sline <= l /\ l <= Head(Minfos).eline

\* The report ends, whatever the other threads do, provided what it calls of the
\* program and the output returns.
SummaryEnds == phase = "group" ~> phase \in Ending

\* What the README says of PLine: each line of the method is profiled.  The
\* range of lines of a registered method is the range it has in its source.
RangeOfMethod ==
  \A m \in Entries(ALL) :
    /\ m.sline = Definition[m.method].first
    /\ m.eline = Max(Definition[m.method].lines)

\* What the README says of PLine: you get a profile of the methods you
\* specified.  A method registered and measured before the process exited is
\* in the report, if that reaches its end.
MeasuredIsReported ==
  phase = "done" => exit.started \subseteq Entries(report)
=============================================================================
