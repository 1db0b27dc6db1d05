# PLine in TLA+

PLine is a line profiler for Ruby 1.9.2 and 1.9.3: a C extension
(`ext/pline/*.c`) that measures, and a little Ruby (`lib/pline/*.rb`) that
registers methods and prints the report. This directory models it, checks the
models with TLC and proves theorems about them with TLAPS.

## 1. The system

### Components

| component | state | operations |
|---|---|---|
| measurement, `sinfo.c` | two global string tables (`scoring`, `preline`) and one per thread (`process`, in a container among the thread's locals); each maps a path to an array of line cells that grows on demand | `sinfo_measure` at each line event; `SourceInfo.find`, `SourceInfo#lines` for the report; marking and freeing by the garbage collector |
| line events, `profiler.c` | none of its own | `profiler_linetrace_callback`: find file and line, call `sinfo_measure` |
| injection, `iseq.c` | the VM's instruction sequences, each operand in two copies | `iseq_find` (accepts methods written in Ruby), `iseq_inject` (turns LINE and RETURN traces into END traces, recursively) |
| method information, `minfo.c` | one immutable record per method: object, name, path, first and last line | `MethodInfo.new`, accessors |
| profiling, `profiler.c`, `lib/pline/minfo.rb` | `hooked`, the hook in the VM, `MethodInfo::ALL` | `PLine.profile`, `MethodInfo.register`, `MethodInfo.each` |
| report, `lib/pline/summarize.rb`, `lib/pline.rb` | the output and the unit | `summarize`, run by `at_exit`; `build_message`, the layout of one table |
| helpers, `lib/pline/util.rb` | none | logging, `bug()` |
| build, `pline.c.rb`, `extconf.rb`, `depend`, gemspec | none | generate and compile the extension |
| the VM's code, `ruby_source/<version>/` | control frames, variables, inline caches, crefs of the threads that run | the functions behind `send`, `yield`, `return`, `break`, `super`, `==`, `@x`, constants (`vm_insnhelper.c`), with their types and macros (`vm_core.h`, `vm_insnhelper.h`, `method.h`, ...) |

### Interactions

`PLine.profile` calls `iseq_find`, then `MethodInfo.new` (which calls
`File.exist?`), then `iseq_inject`, then installs the hook on the END event the
first time, then `MethodInfo.register`. From then on each line the method
reaches fires an event whose callback runs in the thread that reached it and
writes the tables. At exit `summarize` groups `MethodInfo::ALL` by file and reads
the scores of each file and its source. The tables of scores and of previous
lines are shared by all threads; the table of start times belongs to a thread.
The END event is also fired by the VM itself, where a class body ends.

`pline.c.rb` includes a copy of the VM's own code (`vm_core.h`, `iseq.h`,
`vm_insnhelper.h`, `vm_insnhelper.c`, `vm_exec.h`), which is compiled into the extension. The
extension uses its types (instruction sequences, blocks, method entries) and calls
none of its static functions: they are what runs the programs that are measured, in
the interpreter. They are modelled as such; what they do decides which method is
looked up, which lines are reached and which frames an exception leaves. There is one
copy for each of the two versions.

### What is hard

- The measurement keeps three arrays per file that grow separately, one of them
  per thread, and uses an index read in one as an index into the others. The
  index of the "previous line" is computed once, from the pending lines of
  whichever thread came first, and used by all threads ever after.
- Nothing tells PLine that a method is entered, returns or is left by an
  exception: there is only "this thread reached this line of this file". The
  line before is sought by number, not by the order of execution.
- Any allocation may raise `NoMemoryError` and leave a measurement half way.
- Times are unsigned and come from a clock that can be set back.
- `profile` runs Ruby methods between its C parts, where threads are switched
  and where exceptions and `Thread#kill` arrive.
- The report runs beside threads that still profile and are measured; files
  change between profiling and report.
- Line numbers pass through 16-bit fields, one tagged as a Fixnum and one not.
- The tables' keys point into Ruby Strings that they neither copy nor mark, and a
  thread's container is marked from before it has its table.
- An exception in one method's table ends the report of all methods: of the source, of
  a line that cannot be split, of the output, of the program's own `to_s`.
- The VM moves arguments in place, with cursors that overlap; goes back into the
  middle of its dispatch; finds activations by comparing pointers to variables
  that move from the stack to the heap; and trusts caches by a counter that wraps.

`PROJECT.json` lists each hazard at its line, with the properties that cover it.

### What makes each component correct

- measurement: no access outside an array; the cache names earlier lines that
  have a score; each interval is charged once, to the line whose stopwatch it
  is, and no time is invented; the sum that Ruby sees is the exact sum.
- line events: where the profile of a program equals the time its lines took,
  and where it does not.
- injection: every line of the method and of what it holds reports; no other
  event is touched; both copies of an operand agree; the recursion ends.
- method information: the range of lines is that of the source.
- profiling: an event is measured once, a registered method reports.
- report: no method that is due is left out or passed over; the report ends; no score is
  missing and no row out of range, so that its own statements raise only where
  the source has changed or a line cannot be split.
- keys of the tables: what is registered never dangles, scores are found under the path
  they were measured for.
- the VM: every argument reaches its parameter once; what was asked for is what runs;
  no pointer outlives its variables; break, return, retry, super and `$~` go to the
  activation they are written in; a cache never answers for a class or a method that
  has changed; names are those of the bodies around the code.

## 2. Modules

```
LineTimers            one stopwatch per thread and line: the promise
   ^ refined by
SourceInfo            sinfo.c: tables, arrays, cache, NoMemoryError, clock
   ^            ^
ScoreHistory    LineProfile   a running program and the profile it gets
exact sums         ^
   ^               |
MeasurementProofs  (TLAPS)
   |
   v
SumTheorems           induction over sets, sums, remainders (TLAPS)

PathTable             sinfo.c and minfo.c beside the garbage collector
   ^
PathTableProofs (TLAPS)

InstructionSequence   iseq.c: iseq_inject over all small programs
   ^
InstructionSequenceProofs (TLAPS)

MethodInfo            minfo.c: the range of lines, with 16-bit fields
   ^
Profiler              PLine.profile in several threads, events of the methods
   ^
Summarize             summarize at exit, beside those threads
   ^
ReportProofs (TLAPS)

VmArguments           vm_insnhelper.c: arguments to parameters, as functions
   ^
VmCalls               a call: its arguments, the dispatch loop, what runs
   ^
VmCallsProofs (TLAPS)

VmFrames              control frames, variables, break/return/retry, super, $~
   ^
VmFramesProofs (TLAPS)

VmCaches  VmNames     an inline cache; constants and class variables
      ^   ^
      MCVmLookup      explores the two, one at a time
          ^
VmLookupProofs (TLAPS)
```

`MC*.tla` and the `.cfg` files give the constants their values. Definitions keep
the names of the source. Operators introduced by "Faulty, for the mutants" are
plausible mistakes in the code; nothing uses them in the models, and each property
of a passing run is violated when one of them takes the place of the definition
next to it (the list is in `PROJECT.json`).

### SourceInfo and LineTimers

`scoring`, `preline` and `process` are the three tables; an entry is `Qnil` or a
record of a size and an array of exactly that size. `sinfo_measure` is one step:
the callback runs under the VM's global lock and calls nothing that gives it up.
Its six allocations are counted, in the order of the code: entry in each table (the
second with the thread's container), then growth of each array. `MeasureFails`
stops after the k-th. `OutOfBounds` is the same handler where an access would
leave its array: what follows is undefined, so only `fault` is set and nothing
else happens from then on. `sinfo_container_free` is a thread that ends.
`Tick` and `StepBack` are CLOCK_REALTIME. `stepped` is a history variable.

Lines range over `0 .. MaxLine`: `profiler_source_location` lets 0 through
(only negative lines are refused), and that is the one event that faults.

`LineTimers` has neither tables nor cache nor allocations. An event starts one
stopwatch and reads out at most one, of the same thread, the same file and an
earlier line. `ImplementsLineTimers` is `Timers!Spec` under the mapping at the
end of `SourceInfo`: a cell beyond its array, or of an entry that is not there, is 0.

`ScoreHistory` adds a history variable, the exact sum of the intervals read out
for each line, as true integers. `ReportIsExact` says that `SourceInfo#lines`
gives those sums, when the clock goes back too: the wrap of the subtraction, that of
the addition and the signed reading cancel out.

### LineProfile

The program is a constant: pairs of locations for "goes on to" and for "calls", the
entries and the exits. `Enter`, `Advance` and `Call` reach a line and do
`sinfo_measure` for it in the same step. `Return`, `Raise` (an exception leaves one
or more methods) and `ThreadEnds` fire no event. `worked` is a history
variable, the time between reaching a line and the method going on to its next.
`NeverOvercharged` and `NeverUndercharged` compare the scores with it.

The two hold of straight-line programs, and `StraightProgram` says what those are: a method runs
from top to bottom and leaves out no line that another call reaches (`TopToBottom`), though it may
return or be left by an exception anywhere; each file has one method (`OneMethodPerFile`); and methods
call each other in one direction only (`NoRecursion`, by a rank of the files). `TimesFit` is that no
score wraps. TLC evaluates all three on the program of `profile_straight`.

An `if`, a loop or a call within the file breaks this, as section 4 says. `SomeFileIsExact` asks less than
the README promises: of several files, one has all its lines charged, or would have if the
stopwatches left running were read out now. One trace that violates it shows a loss in every file, and
one that nothing makes good.

### InstructionSequence

Every program of three sequences is an initial state: any instructions that carry
a sequence as an operand (`putiseq`, `defineclass`, `send`, `invokesuper`), traces
and others, nested in any way. The C recursion is a stack of frames, one
instruction per step. `seq` holds instructions with operands, `enc` the encoded copy that the VM
executes. The operand types are those of `insns_info.inc`, so that the positions
written into `iseq.c` are compared with an independent table. Instructions are
numbered one by one, not by words. Catch tables are part of a program since the
bodies of rescue clauses hang off them.

### MethodInfo, Profiler, Summarize

`Find` is `profile` up to the call of `MethodInfo.new`; `Inject` is everything from
its return to the call of `register`, which is C throughout; `Register` ends the call.
`Interrupt` is an exception or a kill in either Ruby method. A call that finds no
method or no file raises and changes nothing. `Reach` is an injected method
reaching a line, `EndOfClass` the VM's own END event, `Edit` a source file that is removed
or emptied. The tables of scores are reduced to the set of lines measured: the report
depends on which line is the last.

`Summarize` has one step per Ruby call at which threads may be switched: `Group`
(one entry of `ALL`, entries registered meanwhile included), `FindScores`,
`ReadSource`, `PrintMethod`. `exit` remembers what had been measured when the process
exited. `PrintMethod` is the body of the inner loop for one method: it is left out, or printed, or the
body raises. `raised` remembers why: `"rows"` is a nil among the scores or the lines of the source, or a line
that `split` refuses since its bytes are invalid in the encoding it was read in (`Unreadable`, a
constant); `"description"` the `to_s` of the method's class, which the program may have defined;
`"output"` a `puts` that fails. `ReadSource` raises `"file"` where the file is gone. `Interrupted` is
what can come at any call from outside (`"outside"`): a signal, `Thread#raise`, no memory, no
right to read. Nothing rescues any of these, so each ends the report for all methods.

### PathTable

A file that is loaded twice has two `filename` Strings with the same contents
(`Strings`, `PathOf`). `code` says of each if its code is loaded, dropped by the program,
collected, or its memory used again; a key of a table is the String that was
inserted. `sinfo_find` compares contents, so it finds any key that still reads like the path.
`Collect` frees the Strings that `minfo_mark` does not reach, at any time between two steps. The SourceInfos in
the tables are never freed while they are there (each thread's container and
`rb_gc_register_mark_object` mark them), so that they are not state here.

`fault` is a use of memory that is not there, and two are reached. `st_lookup` compares the path with
the keys of the same hash (`Compared`) through their `char*`: where such a key's String has been freed, the
lookup reads what is in that memory (`Contents`), or the process ends there
(`ComparesFreed`). And the collector may run inside `sinfo_container_s_alloc`, where the object is
on the C stack and has no table: the mark function then goes through a null
pointer. Where `NoMemoryError` is raised in its place, the object without a
table is garbage (`halfMade`) and is freed through the null pointer later. No property speaks
of `fault`: both happen, and nothing in the repository says that they do not.
What is stated is whose keys can dangle, and what is then still found.

### VmArguments and VmCalls

`VmArguments` has no state: each function goes from the cells of the operand
stack to what the C function leaves in them. The cursor arithmetic is the code's
(`argv += m`, the copy that is set aside if the post arguments are in the way), the
values are opaque. `VmCalls` holds the registers of `vm_call_method`. Each case of its switch is an
action; `pc` is `"start"` at the label `start_method_dispatch` and `"normal"` at
`normal_method_dispatch`. A class is its distance from the receiver's class; each has an entry for the
name or none. Calls are constants: `MCVmCalls` gives all lists of parameters with
enough arguments to go wrong on either side, and all entries and visibilities
along three classes. The properties state what should come of a call from the call alone: they
do not use the functions above but restate the language.

### VmFrames

A frame has its kind, its instruction sequence, where in it the thread is (`site`: a call
with that block written at it, another call, or none), `dfp` and `lfp`; `vars_at` is what `dfp[0]` and
`lfp[-1]` hold. A place of variables is used again when its frame is popped, unless a Proc was made:
`MakeProc` moves the variables around the block to the heap, and the blocks of the
methods among them become Procs, as `vm_make_env_each` does. Instruction sequences are a constant,
and what code does is free within what its sequence can contain (`CanBreak`,
`CanRetry`, `CanReturn` are the rules of `compile.c`), and nested at most four deep
(`NestingAssumption`). `vm_throw` answers where to unwind;
`Unwind` and `Raise` are `vm_exec`. Any exception may come at any point, and goes to some rescue clause on the
stack: also those of a push that would overflow the stack (`SystemStackError`) and of a `yield`
without a block (`LocalJumpError`), which are not taken themselves.

Of `break` the code asks that the activation the block was written in is at a call with a literal
block; it computes `base_iseq` on the way and does not compare it, so that it need not
be the same block. `return` out of a class body takes any lambda of the same
home (1.9.3), or runs off the end of the chain (1.9.2, `throw_return_192`). A lambda
that is yielded to runs as a block. `BreakEndsItsCall` and `ReturnIsLexical` say so.

### VmCaches and VmNames

`VmCaches` has one instruction with an inline cache, `==` or a variable, beside a program that defines,
removes and includes methods, makes objects and classes, and gives objects a
class of their own. `Address` is the memory of one class after another.
`INC_VM_STATE_VERSION` comes around after `Versions` steps. In 1.9.2 the macro does not clear the
caches then (`Inc192`, with which both properties fail); 1.9.3 does. Floats
are treated like strings in `opt_eq_func`.

In `VmNames` an activation has the cref its code would find (`blocks`, `cref_stack`), and
apart from that the bodies and evals it is written in (`within`), which only
the properties use. The table of the constant is not state: `ConstantsAreLexical`
quantifies over all of them. A file that is loaded on the way and leaves the constant to
be loaded ends the search of the bodies (`if (am == klass) break`), and in 1.9.2 an eval right in
the program searches the class of self; the property says so too. The two modules share
no state, so `MCVmLookup` explores them one at a time.

### Which lines a definition stands for

`vm_insnhelper.c` is there twice. Most functions are the same in both versions, line by
line; where a model has several definitions for one function the map in `PROJECT.json`
may name the lines of 1.9.3 for one and those of 1.9.2 for another. Where the versions differ
(`Missing192`/`Missing193`, `throw_return_192`/`throw_return`, `vm_get_ev_const_192`/`vm_get_ev_const`,
`Optimized`, `Inc192`) there is a definition for each. Definitions
marked external are other parts of the VM (`vm.c`, `insns.def`, `compile.c`, `gc.c`), which
are not in the repository, or the program that is measured.

## 3. Runs

| run | instance | what it shows |
|---|---|---|
| measurement | 2 threads, 1 file, lines 0..3, clock 1..2 with steps back, time modulo 5, sums within -2..2, allocations fail | `TypeOK`, `OnlyLineZeroFaults`, `CachedPrevIsScored`, `TimeIsNotInvented`, `ReportIsExact`, `ImplementsLineTimers` |
| profile_straight | 2 threads, a method of three lines that calls one in another file, exceptions, thread ends, clock 1..3 | the profile is exact: `NeverOvercharged`, `NeverUndercharged`, `StopwatchRuns` |
| profile_three_constructs | one thread, three files: an `if` whose branches join, a loop of two lines between two others, a method that calls one further down its file; clock 1..4 | violation of `SomeFileIsExact` |
| inject_walk | all programs of three sequences, two methods profiled in turn | `TypeOK`, `InjectedThroughout`, `EncodedAgrees`, `OnlyLinesChange`, `InjectReturns` |
| inject_rescue | methods with a catch table | violation of `RescueLinesToo` |
| report | 2 threads, 4 methods (one in C, one with a line that cannot be split), 2 files, a class body, 2 calls of `profile` | `TypeOK`, `EventsMeasuredOnce`, `NothingDueForgotten`, `AbortedForCause`, `RangeOfMethod`, `SummaryEnds` |
| report_early_return | one method with an early return | violation of `MeasuredIsReported` |
| report_far_lines | one method beyond the range of a tagged short | violation of `RangeOfMethod` |
| path_table | 2 threads, one file loaded twice, 3 events | `DanglingKeyIsUnregistered`, `ScoresAreFound` |
| vm_calls | all lists of up to two parameters of each kind, 3 classes, up to 7 arguments | `CallBindsAsDeclared`, `BlockBindsCutAndFilled`, `CCodeGetsArguments`, `AssignmentTakesApart`, `RunsWhatWasAsked`, `StackIsBalanced`, `BlockReachesTheBody`, `DispatchEnds` |
| vm_frames | 4 frames, one in a second thread, a block in a block of a method, a rescue clause with exceptions at any point, a class body in a block | `PointersAreLive`, `ThrowsLand`, `ReturnIsLexical`, `BreakEndsItsCall`, `SuperIsOfTheMethod`, `SpecialsAreOfTheMethod` |
| vm_lookup | 2 objects, 6 classes, a version that wraps at 3; 2 bodies (one singleton), 3 activations, nesting 4, 3 classes with the constant | `EqCallsTheMethod`, `IvarsAreOwn`, `NamesAreLexical` |

### Bounds, and why they are enough

- *Lines.* A measurement relates the line reached, its cached previous line and
  the pending lines between them: three lines suffice for a pending line to be
  skipped, and growing an array past two others' sizes takes two events.
- *Threads.* The cache is filled by one thread and used by another: two.
- *Files.* `sinfo_measure` touches one file's entries; a second file is there in
  `profile_straight`, where a callee must not disturb the caller.
- *Clock and TimeMod.* The clock needs to move between two events, and `TimeMod` to
  be so small that the unsigned operations do wrap. `ExactBound` keeps the sums
  within the signed range, the condition for `ReportIsExact`.
- *MaxDepth* 2: a caller and a callee. Deeper stacks repeat that pair.
- *Constructs.* Each of the three needs one tick to lose time, so three in all: clock 1..4.
- *Programs.* Three sequences give a block in a block and one sequence held twice;
  `MaxWalks` 2 gives a second walk over what the first has changed.
- *MaxProfiles* 2: two calls of `profile` at once, of one method or of two.
- *ShortMod* is 16 in place of 2^16; the methods of `report` stay below half of
  it, the one of `report_far_lines` does not.
- *Strings* 2: a file and its second load. `MaxEvents` 3 counts under one key, under another
  and under the first again.
- *Parameters* 2 of each kind and 7 arguments: every count from one too few to one too many,
  and arguments that overlap with post parameters. *Depth* 3: an entry that
  changes the visibility, one above it, and the body. Arities of C functions are -2, -1 and counts
  on both sides of the arguments.
- *Nesting* of four, a method and blocks in blocks in it: `Chain` goes up that far.
- *Frames* 4: a method, its block, the block in that and a call from there; or a lambda that
  calls the method it is in. One Proc, with those its making entails.
- *Versions* 3: the cache is filled, the version comes around to the same number.
- *MaxNesting* 4: the program, a body, an eval and a body in that.
- Deadlock is checked where the system can always go on: `measurement`, the `profile_*`
  runs, `vm_frames` and `vm_lookup`. In the others it stops: no more methods to
  profile, the report ended, the process gone after a memory fault, the call over.

### Fairness

- `WF(iseq_inject)`: a C function that nothing interrupts goes on. `Begin`, the call
  of `profile`, is not fair.
- `WF(summarize)`: the main thread runs `at_exit` and is scheduled again and again
  by the VM's timer. Other threads are not fair; they may register methods while
  `Group` iterates, which their bound `MaxProfiles` keeps finite. What the report calls, the program's
  `to_s` and the output, is taken to return or raise. A program that registers
  methods faster than `ALL.each` meets them for ever is outside the model.
- `WF(vm_call_method)`: the dispatch is a loop in C, in which nothing waits.
- The other modules state safety only: no event, call or collection has to happen.

## 4. What the runs found

These are disagreements between what the repository's README says and what the code does,
each with a violated run. The first three are three files of one run, `profile_three_constructs`:

- *Branches.* The line after an `if` keeps, as its previous line, the last line of
  the branch taken first. The last line of the other branch is never
  charged: its stopwatch runs until it is
  started anew or its thread ends (`sinfo.c:278`, file `f`).
- *While loops.* The first line of the body keeps the line above the loop as its previous one, so
  that the last line of the body is read out only when the loop is left: all
  iterations but the last are lost (`sinfo.c:289`, file `g`).
- *Calls within a file.* A profiled callee further down the file stops the stopwatch of the
  line that calls it (`sinfo.c:280`, file `h`). The README's Attention section
  warns of recursive calls and of blocks, of none of these three.
- *Rescue clauses* hang off the catch table, which `iseq_inject` does not follow: their
  lines are never measured (`iseq.c:98`).
- *Early returns.* A method whose last line nobody reached is left out of the report
  although its other lines were measured (`summarize.rb:113`).
- *Far lines.* The first line of a method beyond line 32767 wraps (`minfo.c:74`).

In the vendored VM code the models met, without a statement of the repository to hold it
to: 1.9.2 forgets the block of a call whose method stands for `method_missing`; a
protected method that is called as such is not asked for `$SAFE`; 1.9.2 keeps its caches
when the version comes around. In PLine's own code, likewise: an event of line 0 reaches before its
arrays (`OnlyLineZeroFaults` excuses it by name); lookups compare through freed keys, and a
container is marked or freed before it has its table (section *PathTable*). These
are told here and are no findings.

## 5. What is proved

`MeasurementProofs` proves, for any finite set of threads, any files, any number of
lines, any bound on the clock and any modulus above it:

- `TypeCorrect`: `Spec => []TypeOK`
- `CacheIsSafe`: `Spec => []CachedPrevIsScored`
- `MemorySafe`: `Spec => []OnlyLineZeroFaults`
- `Refinement`: `Spec => ImplementsLineTimers`
- `TimeIsCounted`: `Spec => []TimeIsNotInvented`
- `ReportIsTheSum`: `SpecHistory => []ReportIsExact`

The assumptions are those named in `SourceInfo`: `ThreadsAssumption` (finitely many threads, as
sums are taken over them), `LineAssumption`, `TimeAssumption`, `FlagAssumption`, `NilAssumption`
(`Qnil` is no entry), and in `ScoreHistory` that the sums of `ExactBound` are within the signed
range. TLC evaluates them on every run.

`OnlyLineZeroFaults` is not inductive: that an index taken from the cache lies in
the score array of the file follows only from `CachedPrevIsScored`, and that it lies
in the thread's own start array from the index being smaller than the line
at hand, to which that array has just grown. So the invariant is

    IInv == TypeOK /\ CachedPrevIsScored /\ OnlyLineZeroFaults

and the argument goes: tables after any number of the six allocations are
well typed, keep what they held and never shrink (`TablesMidway`); after all six, each array
reaches the line at hand, so every access fits unless the line is 0;
the line that `Previous` finds is smaller than the line at hand, so the new cache
entry is sound; each step of `Next` then keeps the three conjuncts. Both a
completed measurement and one cut short by `NoMemoryError` are covered.

`Refinement` is that the detailed specification implements the abstract one. Making an entry and growing an array show
nothing, as a cell that is not there and one that is new are both 0 (`FoundCells`,
`GrownCells`); so neither does a measurement cut short after any of its six allocations
(`FailureShowsNothing`). One that completes starts the line's own stopwatch, and
where the cached previous line has one running, reads that out and no other (`MeasureShows`); that
the previous line is an earlier one is `IInv`. A thread that ends loses its stopwatches.

`TimeIsCounted` needs more than it says: `TimeInv` adds that no stopwatch was started after
now, or at all before the clock began. A tick adds at most one to what is pending of each thread, an
event moves at most what one thread has pending into the score, and the sum over the
threads changes by that one (`SumChangedAtOne`). The score is a remainder, which is
at most the number it is the remainder of.

`ReportIsTheSum`: the score is the remainder of the exact sum (`ExactInv`), since the remainder of a sum
depends only on the remainders (`RemainderOfSum`), so that a subtraction that wraps, the
addition that wraps and the signed reading together give the exact sum while that is in range.

`SumTheorems` has what these rest on. The provers find no predicate to instantiate a
theorem on induction with, but a property of numbers can be given as the set of those that have it, and then
induction is that this set's complement has no smallest element (`NumbersByInduction`,
`SubsetsByInduction`). That a fold over a finite set is defined at all, and adds
up, is proved that way (`SumsExist`, `SumIs`), and from there what sums do when one
value changes, when all grow, and when all are 0.

Of `LineProfile`, `MeasurementProofs` proves for every program with `StraightProgram(rank)`, for any rank, and `TimesFit`:

- `StopwatchesRun`: `SpecProfile => []StopwatchRuns`
- `NotOvercharged`: `SpecProfile => []NeverOvercharged`
- `NotUndercharged`: `SpecProfile => []NeverUndercharged`

`ProfileInv` is the invariant. Scores are equal to the times worked (`ScoresAreExact`), which needs that the
stopwatch of a line does run when the thread goes on (`StopwatchRuns`). An event reads out the
stopwatch of the cached previous line only, and this is the one that the program goes on
from (`CacheFollows`): between it and the line at hand is no line that a thread reaches, so none
with a stopwatch (`StartsReachable`), whichever thread filled the cache, and whatever an
exception left running above or below. At the first line of a method there is no line before.
Nobody else resets it: a callee is in another file as ranks rise along the stack (`Ranked`), and
other threads have tables of their own. That the unsigned addition does not wrap is `TimeInv`.

`ReportProofs` proves about `PLine.profile` beside `summarize`:

- `MeasuredOnce`: `Spec => []EventsMeasuredOnce`, for any number of threads,
  methods and calls, interrupted anywhere;
- `RangeCorrect`: `Spec => []RangeOfMethod`, provided every line of every method
  is small enough for its tagged Fixnum to fit in the short. `report_far_lines`
  shows that the condition is needed.
- `ProfilerTypes`: `Spec => []TypeOK`. What is injected or in progress is a method written in Ruby
  (`RubyInv`), and every entry of `ALL` is what `MethodInfo.new` made of one.

and about the report, while other threads register, measure and edit:

- `NothingForgotten`: `Spec => []NothingDueForgotten`. The invariant `PlaceInv` follows a due method
  through the report (`DuePlaced`): among the entries of `ALL` still to be met, in a group that is left,
  or printed, also where the report is cut short, for whatever reason. That it is not passed over once its file is at hand needs that the lines measured only grow,
  so that the size taken reaches its last line (`DueSized`).
- `CutShortForCause`: `Spec => []AbortedForCause`, provided each method begins and ends within its source
  (`WithinSource`; beyond the range of the short it may not). It is about the exceptions of the report's own
  statements (`"file"`, `"rows"`); those of the output, of `to_s` and from outside need no cause. The rows
  of such a method are its lines, all with a score as its last one has one, so that only the text can fail it
  (`RowsWithin`). A text that is too short was read after an edit, and an edited source does not change
  back (`TextRead`, `OthersAdd`).

`PathTableProofs` proves about the tables beside the collector, for any number of
threads, paths, loads and events, and `Qnil` apart from numbers (`NilAssumption`):

- `KeysOfRegistered`: `Spec => []DanglingKeyIsUnregistered`. What `minfo_mark`
  reaches is there (`MarkedAreThere`): a call of `profile` in progress has live code, and
  what it registers stays marked.
- `ScoresAreKept`: `Spec => []ScoresAreFound`. A path has no entry and no events, or one entry with
  all of them, or a key that dangles (`ScoresInOneEntry`). That this key is unregistered needs
  `MarkedAreThere` as well.

`VmLookupProofs` proves about the specification of `vm_lookup`, whose steps are those of the caches or those of
the names. About an inline cache, for any number of versions, objects and
variables, from `CacheAssumption` and `ClassAssumption`:

- `MethodsAreFresh`: `Spec => []EqCallsTheMethod`. Between two changes of the
  version no class gets a method and no address another class, so that a cache
  of this version holds what a search finds (`MethodIsCurrent`). A fill is never of a later version than
  the one at hand (`VersionsAscend`), which is where clearing the caches matters when it comes
  around. The built-in `==` is right because the flag is up before such a method is found (`FlagIsRaised`).
- `VariablesAreOwn`: `Spec => []IvarsAreOwn`. The table of a class only grows, so an index
  stays right (`IndexIsCurrent`), names it once (`NamesOnce`), and each slot of an object holds
  what the program wrote under that name, or the object has no such slot (`SlotsHoldOwn`).

About names, for any bodies, any nesting of bodies, evals, blocks and methods, any ancestors
(`AncestorsAssumption` only says that these are lists of classes; `NameAssumption` that the
program's class is not one that a body is written for, and nil no class) and any table of the constant:

- `NamesStayLexical`: `Spec => []NamesAreLexical`. The invariant `NamesInv` is that the cref which `vm_get_cref`
  finds, for each activation and for the one that is kept, is the list of the bodies and evals it
  is written in (`IsWell`). The one step where this is not plain is a block
  with its own cref, in front of the blocks around it: the innermost that has one is
  the new one, or the same as before (`CrefOfBlock`). What follows is about one cref and one table. A search is a
  recursive function over places that stops or goes on and gathers answers; such a function exists, and whatever it
  gathers from the first place was met before the first stop (`GatheredIsMet`), so that what `rb_const_get` and the
  search of the bodies can answer is said without recursion (`IsInherited`, `IsSearched`). An answer
  of the part of the cref below leading evals is one of the whole cref (`SearchedFromRoot`), which joins 1.9.3 with
  1.9.2, and each answer is the place where the constant is to be found after the loads on the way
  (`PlaceFound`), also where the ancestors load it into a class that is also a body around the code.
  `defined?` and `class X` follow from the same description (`FoundWhere`).

`VmFramesProofs` proves about control frames, for any threads, any number of frames and Procs, any
finite set of places for variables (`PlacesAssumption`) and any finite set of instruction sequences nested
at most four deep (`NestingAssumption`), with no code around itself, and no class body without code
around it (`IseqsAssumption`; `NumbersAssumption` only says that nil is no number of a frame):

- `PointersStayLive`: `Spec => []PointersAreLive`
- `SpecialsStayOfTheMethod`: `Spec => []SpecialsAreOfTheMethod`
- `ThrowsAllLand`: `Spec => []ThrowsLand`
- `BreaksEndTheirCall`: `Spec => []BreakEndsItsCall`
- `ReturnsAreLexical`: `Spec => []ReturnIsLexical`
- `SuperIsLexical`: `Spec => []SuperIsOfTheMethod`

The invariant is `Pointers /\ Codes /\ Specials`, whose parts speak of any stacks, Procs and memory, so that they also
hold on the way through a step. `Pointers` says that every place in use can be given a level, how many blocks
it is in its method, and a home, the variables of that method (`Leveled`), which are not kept in
the code: up from a place is one level less, of the same home, so that every chain ends at the home (`HomeIn`).
No two frames share a place (`Distinct`); the place above a block's is further down
the same stack or in the heap (`FrameFits`). Of the block of a running method: it is a Proc,
or part of a frame further down that is at a call; if the method's variables are in the heap it is a Proc
(`PlaceFits`). A step is one of four changes, and each keeps all this: a frame on top
(`PushKeeps`), frames cut off, with the one below them back from its call (`CutKeeps`), variables moved to the heap
(`MoveKeeps`), a note in `svar` (`SpecialKeeps`).

`MakeProc` is the one that needs an argument of its own. It moves the chain of a block, those of the
blocks of the methods so reached, and so on (`Homes`, the smallest set closed under that).
As that set is closed, no variables in the heap are left with a block that is not a Proc, and as all in the set hang
below frames of the stack or are in the heap, the moved places are in use (`ChainOfBlock`, `HangsBelow`).

`Specials` says that what is noted in a place, wherever it was moved to, is what was last written for that
activation (`written`), and that nothing is written for a place that is free; so a place
used again begins with nil.

`Codes` is what `break`, `return` and `super` need. Every place in use can be given a code, that of the frame it was made for, and
what it hangs below is of the code around that (`PlaceCoded`). Each frame runs the code of its place, a class body or a
rescue clause right above the code around it, and no frame
further up has a place the frame's hangs below (`FrameCoded`, `HangsBack`); that last part is why the search down the stack
meets what is around the code from the inside out. The searches are functions
over the frames (`BreaksFrom`, `ReturnsTo`, `AroundOf`): that such a function exists, and ends, is `PathsEnd` of `SumTheorems`, for
any finite path along which a number goes down. From there, a step of the search is an equation (`GoesDown`), and
what it skips is skipped for as long as nothing is in the way (`DownPasses`). For `super`, `OnWay` holds of
every frame the search passes: all methods around the code are still ahead of it, since the code of
one passed would have been the one looked for (`MethodCodeIs`). The proof of `ReturnIsLexical` needed it to be said in full for a
`return` out of a class body, where the code takes a lambda of the same
home even if it is not around the class.

`VmCallsProofs` proves about calls, for any bounds `MaxParams` and `MaxArgs`, any number of classes, any `$SAFE` and any
calls (`CallsAssumption`: `IsCall` says what a call of the VM is; `DepthAssumption`):

- `WhatWasAskedRuns`: `Spec => []RunsWhatWasAsked`
- `StackStaysBalanced`: `Spec => []StackIsBalanced`
- `BlocksReachTheirBody`: `Spec => []BlockReachesTheBody`
- `CallsBindAsDeclared`: `Spec => []CallBindsAsDeclared`
- `BlocksBindCutAndFilled`: `Spec => []BlockBindsCutAndFilled`
- `CCodeIsGivenArguments`: `Spec => []CCodeGetsArguments`
- `AssignmentsTakeApart`: `Spec => []AssignmentTakesApart`
- `DispatchGoesDown`: `Spec => DispatchDescends`. A `ZSUPER` entry is followed by one of a class nearer to the root, or none
  (`KlassFound`); a send starts again from the receiver's class, but with an argument less, and the
  weight of an argument is more than all classes (`LessLeft`). What lies above the entry at hand is known from `IInv` (`KlassIs`).

The invariant is `IInv /\ EndsWell`. What the registers hold at either label is said by the call alone: `Loop(k)` is that
the dispatch has come through `k` sends, so that `id` is the name after them, the stack has the receiver and the arguments
behind that name, `num` counts these, and the flags are those of the call, with `FCALL` added once there was a
send. `Starts` says which entry is at hand before it is judged, the lowest one under that name (or none, also where only
entries that change the visibility are left); `Goes` that the visibility and the safe level, which are those of the lowest entry, have
been found good, and that all entries below the one at hand only change the visibility. A send keeps this with `k + 1`
(`SubSeq` of what was asked for), a `ZSUPER` entry with the next class that has one. `EndsWell` are the three properties of the loop
and `Results`: which function made the outcome, from which arguments. The four properties of
binding then follow from `Results` and lemmas about the functions of `VmArguments`, without the steps.

Those lemmas go by the cells of the frame. The argument cursor of `vm_callee_setup_arg_complex` is
an equation for each part (mandatory, the copy set aside for the post arguments, optional, rest, post, block),
and each cell is written by the part it belongs to and by none that comes later (`ComplexBinds`; `SimpleBinds` is the
case without these). A block first
has its list taken apart and filled up: what `vm_yield_setup_block_args` leaves in the cells is the list that `FilledUp` gives, so far as
any parameter reads it (`PaddedIs`), also where the rest or the post cells overlap those it comes
from (`ComplexIs`); so a block binds as a method would (`BlockIs`, `HeldBinds`). `vm_expandarray` pushes in
the reverse order, so that each position is an equation between indices (`TakesApart`).

`MaxArgs` bounds the elements of arrays too, as the code spreads them on the stack, and `Fits` asks it of the arguments
and of the arrays among them; the code has `CHECK_STACK_OVERFLOW` there.

`InstructionSequenceProofs` proves about the walk, for any set of instruction sequences
and any programs over them (`IsProgram`: instructions have the operands of their table,
and an operand has a larger number than the sequence that holds it):

- `TypeCorrect`: `Spec => []TypeOK`, and `EncodedIsSame`: `Spec => []EncodedAgrees`.
- `AllLinesReplaced`: `Spec => []InjectedThroughout`. The invariant is on the calls of
  `iseq_inject` in progress (`FrameDone`): before the index of each, no line is left, and what
  is held there is clean, but for the sequence the call has gone into. `Clean` is to have no
  line left and hold nothing that has; a call that returns leaves its sequence clean
  (`ReturnKeeps`), and no later step makes a clean one unclean (`CleanStays`). That the operand taken is
  the sequence of the instruction table, for each instruction, is `ChildIsOperand`.
- `OnlyTheMethodsLines`: `Spec => []OnlyLinesChange`. Each call in progress is in something the
  method holds (`WithinMethods`), and instructions only go from a line's trace to an END.
- `RecursionDescends`: `Spec => WalkDescends`. The calls in progress go up in number (`Ascending`), so that what is
  left in them is one number for each sequence (`CallFound`). A step lowers it for the sequence of the call on top
  and leaves it as it is for all with smaller numbers (`LeftBelow`); a new call is for a larger one.

### Only model-checked

The liveness properties `InjectReturns`, `SummaryEnds` and `DispatchEnds`: liveness under fairness the
prover cannot do. Of `InjectReturns` and `DispatchEnds` the other half is proved: `WalkDescends` and
`DispatchDescends` say that no step is idle, in an order that cannot go down for ever (for
the walk, if there are finitely many sequences). What stays with TLC is that such a step can be taken
as long as the end has not been reached. These two are stated beside their
proofs and are in no run.
`SomeFileIsExact`, `RescueLinesToo` and `MeasuredIsReported` are violated. Every other
property of a passing run is stated by a theorem above.

## 6. What is not modelled, and the plan

Not modelled: `util.rb`, the build, the settings of unit and output, the accessors of
`MethodInfo`, the branch of `profiler_source_location` that is compiled out (`#if 0`),
the Windows clock (`sinfo_measure_time` reads another clock there, with the same arithmetic).

Of the VM's code: ensure clauses and the branch of `vm_throw` that continues an exception (no
search is made), constants with an explicit scope (`A::B`) and the class that `super`
goes on from (plain walks over class tables that are not in the repository), the instructions
(`insns.inc`) and native threads (`thread_*.h`), which are included for their declarations.
`build_message` (`summarize.rb:38-95`) lays out a table and changes nothing; that its `split` may
raise is part of `PrintMethod`.

In `VmArguments` an argument that is to be taken
apart is an array or has no conversion: one whose `to_ary` returns something else, a
`TypeError`, is left out.

Next, in this order:

1. *BuildMessage*: the widths of the columns; every line of a table has the same
   length. A pure algorithm, checked over bounded widths.
2. *LineProfile* over more programs: recursion, blocks, the end line of a method (left running when it
   returns, it is read out by whichever line below it comes next; no run states this), with the frames of
   `VmFrames` in place of its own stack.
