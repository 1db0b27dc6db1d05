----------------------------- MODULE SourceInfo -----------------------------
(***************************************************************************)
(* ext/pline/sinfo.c: the tables of line scores and the measurement made   *)
(* at each line event.                                                     *)
(*                                                                         *)
(* Three string tables map a source path to a pline_src_info, an array     *)
(* with one cell per line that grows on demand:                            *)
(*   scoring  nanoseconds charged to the line          (global)            *)
(*   preline  index of the line that precedes the line (global, a cache)   *)
(*   process  when the thread reached the line         (one per thread)    *)
(* The callback runs under the VM's global lock and gives it up nowhere,   *)
(* so one measurement is one step; an allocation inside it may raise       *)
(* NoMemoryError and leave the measurement half way.                       *)
(***************************************************************************)
EXTENDS Integers, FiniteSetsExt

CONSTANTS
  Threads,     \* execution contexts: Ruby threads
  Files,       \* source files, by path
  MaxLine,     \* the largest line number an event carries
  MaxClock,    \* bound on the clock
  TimeMod,     \* pline_time_t is unsigned and wraps at TimeMod (2^64)
  ClockSteps,  \* CLOCK_REALTIME may be set back
  MemoryFails, \* an allocation may raise NoMemoryError
  Qnil         \* no entry in a table; no container; no fault

ASSUME ThreadsAssumption == IsFiniteSet(Threads)
ASSUME LineAssumption == MaxLine \in Nat
ASSUME TimeAssumption ==
  /\ MaxClock \in Nat \ {0}
  /\ TimeMod \in Nat
  /\ MaxClock < TimeMod
ASSUME FlagAssumption == ClockSteps \in BOOLEAN /\ MemoryFails \in BOOLEAN

VARIABLES
  scoring,  \* scoring_sinfo_table
  preline,  \* preline_sinfo_table
  process,  \* the process_sinfo_table in each thread's container
  clock,    \* CLOCK_REALTIME
  stepped,  \* history: the clock has been set back
  fault     \* the event whose handling left the bounds of an array, or Qnil

vars == <<scoring, preline, process, clock, stepped, fault>>

Lines == 0 .. MaxLine
NOVALUE == 0
NoPrev == -1
has_value(v) == v # NOVALUE
line2idx(l) == l - 1

-----------------------------------------------------------------------------
(* pline_src_info: an array of lines and its size.                         *)

IsInfo(sinfo, Values) ==
  \E n \in Lines : sinfo \in [size : {n}, lines : [0 .. n - 1 -> Values]]

ASSUME NilAssumption == ~IsInfo(Qnil, Int)

\* A table keyed by path: an entry per file, Qnil where there is none.
IsTable(table, Values) ==
  /\ table = [f \in Files |-> table[f]]
  /\ \A f \in Files : table[f] = Qnil \/ IsInfo(table[f], Values)

NoEntries == [f \in Files |-> Qnil]

\* A fresh SourceInfo has no lines yet.
sinfo_s_alloc == [size |-> 0, lines |-> [i \in {} |-> 0]]

\* sinfo_find_*_sinfo_force: look the path up, insert a fresh entry if absent.
FindForce(table, f) ==
  IF table[f] = Qnil THEN [table EXCEPT ![f] = sinfo_s_alloc] ELSE table

\* A faulty sinfo_expand_*_sinfo, for the mutants: the size is not updated.
SizeForgotten(sinfo, line, initial) ==
  IF sinfo.size < line
  THEN [size |-> sinfo.size, lines |-> [i \in 0 .. line - 1 |-> initial]]
  ELSE sinfo

\* sinfo_expand_*_sinfo: grow to the line, old cells kept, new ones initialised.
Expand(sinfo, line, initial) ==
  IF sinfo.size < line
  THEN [size |-> line,
        lines |-> [i \in 0 .. line - 1 |->
                     IF i < sinfo.size THEN sinfo.lines[i] ELSE initial]]
  ELSE sinfo

ExpandEntry(table, f, line, initial) ==
  [table EXCEPT ![f] = Expand(@, line, initial)]

SizeOf(sinfo) == IF sinfo = Qnil THEN 0 ELSE sinfo.size

InBounds(sinfo, i) == i \in 0 .. sinfo.size - 1

\* LL2NUM: the unsigned score read as a signed number of the same width.
Unsigned(score) == score  \* faulty, ULL2NUM, for the mutants
Signed(score) == IF 2 * score < TimeMod THEN score ELSE score - TimeMod

\* SourceInfo#lines: the scores as Ruby sees them.
sinfo_m_lines(sinfo) == [i \in 0 .. sinfo.size - 1 |-> Signed(sinfo.lines[i])]

-----------------------------------------------------------------------------
(* The allocations of sinfo_measure, in the order it makes them.  Each     *)
(* table is given as it stands after the first k of them.                  *)

Allocations == 6

\* Does the k-th allocation have anything to allocate?  The second makes the
\* thread's container, if need be, and the entry in it.
Allocates(k, th, f, line) ==
  CASE k = 1 -> scoring[f] = Qnil
    [] k = 2 -> process[th][f] = Qnil
    [] k = 3 -> preline[f] = Qnil
    [] k = 4 -> SizeOf(scoring[f]) < line
    [] k = 5 -> SizeOf(process[th][f]) < line
    [] k = 6 -> SizeOf(preline[f]) < line

\* Faulty, for the mutants: the score array is sized once, when it is made.
ScoringSizedOnce(k, f, line) ==
  IF k < 4 \/ scoring[f] # Qnil
  THEN FindForce(scoring, f)
  ELSE ExpandEntry(FindForce(scoring, f), f, line, 0)

ScoringAfter(k, f, line) ==
  IF k < 1 THEN scoring
  ELSE IF k < 4 THEN FindForce(scoring, f)
  ELSE ExpandEntry(FindForce(scoring, f), f, line, 0)

ProcessAfter(k, th, f, line) ==
  IF k < 2 THEN process[th]
  ELSE IF k < 5 THEN FindForce(process[th], f)
  ELSE ExpandEntry(FindForce(process[th], f), f, line, NOVALUE)

PrelineAfter(k, f, line) ==
  IF k < 3 THEN preline
  ELSE IF k < 6 THEN FindForce(preline, f)
  ELSE ExpandEntry(FindForce(preline, f), f, line, NoPrev)

-----------------------------------------------------------------------------
(* The measurement.                                                        *)

\* Faulty searches for the line before cidx, for the mutants: one starts at the
\* line itself, one stops short of the first line, one takes any line.
PreviousOrSelf(cached, starts, cidx) ==
  IF cached >= 0
  THEN {cached}
  ELSE {i \in 0 .. cidx :
          /\ has_value(starts[i])
          /\ \A j \in i + 1 .. cidx : ~has_value(starts[j])}

PreviousAboveFirst(cached, starts, cidx) ==
  IF cached >= 0
  THEN {cached}
  ELSE {i \in 1 .. cidx - 1 :
          /\ has_value(starts[i])
          /\ \A j \in i + 1 .. cidx - 1 : ~has_value(starts[j])}

PreviousAnywhere(cached, starts, cidx) ==
  IF cached >= 0
  THEN {cached}
  ELSE {i \in DOMAIN starts \ {cidx} :
          /\ has_value(starts[i])
          /\ \A j \in DOMAIN starts \ {cidx} : j > i => ~has_value(starts[j])}

\* The line before cidx, as a set of at most one index: the cached one, or else
\* the nearest earlier line this thread has reached and not yet charged for.
Previous(cached, starts, cidx) ==
  IF cached >= 0
  THEN {cached}
  ELSE {i \in 0 .. cidx - 1 :
          /\ has_value(starts[i])
          /\ \A j \in i + 1 .. cidx - 1 : ~has_value(starts[j])}

\* Every access the rest of sinfo_measure makes is within its array.
AccessesFit(sco, pro, pre, cidx) ==
  /\ InBounds(pre, cidx)
  /\ InBounds(pro, cidx)
  /\ \A pidx \in Previous(pre.lines[cidx], pro.lines, cidx) :
       InBounds(pro, pidx) /\ InBounds(sco, pidx)

\* Faulty, for the mutants: the previous line's stopwatch is left running; the
\* wrong one of the two is.
RestartOne(starts, cidx, pidx, t) == [starts EXCEPT ![cidx] = t]
RestartSwapped(starts, cidx, pidx, t) == [starts EXCEPT ![cidx] = NOVALUE, ![pidx] = t]

\* The line's stopwatch starts, the previous line's stops.
Restart(starts, cidx, pidx, t) == [starts EXCEPT ![cidx] = t, ![pidx] = NOVALUE]

\* score += t - s, in unsigned arithmetic.
Charge(score, t, s) == (score + (t - s)) % TimeMod

\* sinfo_measure: all allocations succeed and all accesses fit.
sinfo_measure(th, f, line) ==
  LET sco  == ScoringAfter(Allocations, f, line)
      pro  == ProcessAfter(Allocations, th, f, line)
      pre  == PrelineAfter(Allocations, f, line)
      cidx == line2idx(line)
      prev == Previous(pre[f].lines[cidx], pro[f].lines, cidx)
      t    == clock
  IN /\ AccessesFit(sco[f], pro[f], pre[f], cidx)
     /\ \/ /\ prev = {}
           /\ scoring' = sco
           /\ preline' = pre
           /\ process' = [process EXCEPT ![th] = [pro EXCEPT ![f].lines[cidx] = t]]
        \/ \E pidx \in prev :
             LET s == pro[f].lines[pidx]
             IN /\ preline' = [pre EXCEPT ![f].lines[cidx] = pidx]
                /\ scoring' = IF has_value(s)
                     THEN [sco EXCEPT ![f].lines[pidx] = Charge(@, t, s)]
                     ELSE sco
                /\ process' = [process EXCEPT ![th] =
                     [pro EXCEPT ![f].lines = Restart(@, cidx, pidx, t)]]
     /\ UNCHANGED <<clock, stepped, fault>>

\* sinfo_measure, when an access falls outside its array.  What the program
\* does from there on is undefined: the fault is recorded and nothing follows.
OutOfBounds(th, f, line) ==
  /\ ~AccessesFit(ScoringAfter(Allocations, f, line)[f],
                  ProcessAfter(Allocations, th, f, line)[f],
                  PrelineAfter(Allocations, f, line)[f],
                  line2idx(line))
  /\ fault' = [thread |-> th, file |-> f, line |-> line]
  /\ UNCHANGED <<scoring, preline, process, clock, stepped>>

\* sinfo_measure, when the allocation after the k-th raises NoMemoryError.
MeasureFails(th, f, line, k) ==
  /\ MemoryFails
  /\ Allocates(k + 1, th, f, line)
  /\ scoring' = ScoringAfter(k, f, line)
  /\ process' = [process EXCEPT ![th] = ProcessAfter(k, th, f, line)]
  /\ preline' = PrelineAfter(k, f, line)
  /\ UNCHANGED <<clock, stepped, fault>>

\* The thread is collected, and with it the container among its locals.
sinfo_container_free(th) ==
  /\ process[th] # NoEntries
  /\ process' = [process EXCEPT ![th] = NoEntries]
  /\ UNCHANGED <<scoring, preline, clock, stepped, fault>>

Tick ==
  /\ clock < MaxClock
  /\ clock' = clock + 1
  /\ UNCHANGED <<scoring, preline, process, stepped, fault>>

StepBack ==
  /\ ClockSteps
  /\ clock > 1
  /\ clock' = clock - 1
  /\ stepped' = TRUE
  /\ UNCHANGED <<scoring, preline, process, fault>>

Init ==
  /\ scoring = NoEntries
  /\ preline = NoEntries
  /\ process = [th \in Threads |-> NoEntries]
  /\ clock = 1
  /\ stepped = FALSE
  /\ fault = Qnil

Next ==
  \/ /\ fault = Qnil
     /\ \E th \in Threads :
          \/ sinfo_container_free(th)
          \/ \E f \in Files, line \in Lines :
               \/ sinfo_measure(th, f, line)
               \/ OutOfBounds(th, f, line)
               \/ \E k \in 0 .. Allocations - 1 : MeasureFails(th, f, line, k)
  \/ Tick
  \/ StepBack

Spec == Init /\ [][Next]_vars

-----------------------------------------------------------------------------
(* Properties.                                                             *)

Faults == [thread : Threads, file : Files, line : Lines]

\* Type invariant: the tables hold arrays of exactly their recorded size.
TypeOK ==
  /\ IsTable(scoring, 0 .. TimeMod - 1)
  /\ IsTable(preline, NoPrev .. MaxLine - 1)
  /\ process = [th \in Threads |-> process[th]]
  /\ \A th \in Threads : IsTable(process[th], 0 .. MaxClock)
  /\ clock \in 1 .. MaxClock
  /\ stepped \in BOOLEAN
  /\ fault \in Faults \union {Qnil}

\* Memory safety of sinfo_measure.  The three arrays grow separately, one
\* of them belongs to the thread, and the previous line is read from a cache
\* that another thread may have filled with the size of its own array in
\* view: still an access leaves its array only for an event of line 0, whose
\* index is -1 (sinfo.c:277).
OnlyLineZeroFaults == fault # Qnil => fault.line = 0

\* The previous line cached for a line is an earlier one, and a line that
\* some measurement has reached to its end, so that its score exists.
CachedPrevIsScored ==
  \A f \in Files : preline[f] # Qnil =>
    \A i \in 0 .. preline[f].size - 1 :
      LET prev == preline[f].lines[i]
      IN prev >= 0 => /\ prev < i
                      /\ scoring[f] # Qnil
                      /\ InBounds(scoring[f], prev)

\* A cell of a table, 0 where the array does not reach or does not exist.
CellOf(sinfo, i) == IF i < SizeOf(sinfo) THEN sinfo.lines[i] ELSE 0

Score(f, i) == CellOf(scoring[f], i)
StartOf(th, f, i) == CellOf(process[th][f], i)

\* The time since the thread reached the line, while it is not yet charged.
Pending(th, f, i) ==
  IF has_value(StartOf(th, f, i)) THEN clock - StartOf(th, f, i) ELSE 0

\* As long as the clock has not been set back, no instant of a thread is counted
\* twice on the same line: what a line has been charged and what threads are
\* still to charge it never exceed the time that has passed for each thread.
TimeIsNotInvented ==
  ~stepped =>
    \A f \in Files, i \in 0 .. MaxLine - 1 :
      Score(f, i) + SumFunction([th \in Threads |-> Pending(th, f, i)])
        <= Cardinality(Threads) * (clock - 1)

-----------------------------------------------------------------------------
(* The stopwatches of LineTimers, read off the tables.                     *)

Timers == INSTANCE LineTimers WITH
  running <- [th \in Threads |-> [f \in Files |->
                [i \in 0 .. MaxLine - 1 |-> StartOf(th, f, i)]]],
  total   <- [f \in Files |-> [i \in 0 .. MaxLine - 1 |-> Score(f, i)]],
  now     <- clock

\* Growing arrays, tables made on demand, the shared cache of previous lines
\* and measurements cut short by NoMemoryError are invisible: each event
\* starts one stopwatch and reads out at most one, of the same thread and an
\* earlier line, and charges exactly what it shows.
ImplementsLineTimers == Timers!Spec
=============================================================================
