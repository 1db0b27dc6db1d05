------------------------------ MODULE Profiler ------------------------------
(***************************************************************************)
(* PLine.profile (ext/pline/profiler.c, iseq_find in iseq.c, MethodInfo in *)
(* minfo.c and lib/pline/minfo.rb) called by several threads, and the line *)
(* events of the methods it has injected.                                  *)
(*                                                                         *)
(* profile looks the method up, makes a MethodInfo for it, injects its     *)
(* instruction sequences, installs the hook and registers the MethodInfo.  *)
(* Making and registering the MethodInfo run Ruby methods, where another   *)
(* thread may be scheduled and where an exception or Thread#kill may end   *)
(* the call; between them there is only C.                                 *)
(***************************************************************************)
EXTENDS Sequences, MethodInfo

CONSTANTS
  Threads,
  Methods,      \* methods of the program
  Files,        \* source files, by path
  Definition,   \* per method: [type, spath, first, lines], see below
  MaxProfiles,  \* bound on the calls of profile that find a method
  ClassEnds,    \* pairs of a file and the line where a class body in it ends
  SourceLength, \* per file, the number of its lines to begin with
  None          \* no method, no file

\* type is the method entry's type, "undefined" if there is no such method;
\* spath, first and lines: the file, the line of `def`, and the lines of the
\* instructions.
ASSUME DefinitionAssumption ==
  \A m \in Methods :
    /\ Definition[m].spath \in Files
    /\ Definition[m].first \in Nat \ {0}
    /\ Definition[m].lines \subseteq Nat \ {0}
    /\ Definition[m].lines # {}
    /\ \A l \in Definition[m].lines : l >= Definition[m].first
ASSUME ProfilesAssumption == MaxProfiles \in Nat /\ None \notin Methods
ASSUME SourceAssumption ==
  /\ None \notin Nat
  /\ SourceLength \in [Files -> Nat]
  /\ ClassEnds \subseteq Files \X (1 .. ShortMod - 1)

VARIABLES
  pc,        \* per thread: in MethodInfo.new, or injected and not yet registered
  target,    \* per thread: the method it is profiling, or None
  source,    \* per file, how many lines it has now, or None if it is gone
  injected,  \* methods whose trace instructions report to the hook
  hooked,    \* static int hooked of profiler_linetrace
  hooks,     \* how often the VM calls the hook for one event
  ALL,       \* MethodInfo::ALL
  measured   \* per file, the lines sinfo_measure has been called for

profileVars == <<pc, target, source, injected, hooked, hooks, ALL, measured>>

\* MethodInfo#initialize: what is read from the instruction sequence.
Info(m) ==
  LET def == Definition[m]
  IN [method |-> m, spath |-> def.spath,
      sline |-> minfo_sline_from_iseq(def.first),
      eline |-> minfo_eline_from_iseq(def.first, def.lines)]

InProgress(th) == pc[th] # "idle"
Profiles == Len(ALL) + Quantify(Threads, InProgress)

\* Faulty, for the mutants: any kind of method will do.
AnyMethod(m) == Definition[m].type # "undefined"

\* iseq_find succeeds for methods written in Ruby only.
iseq_find(m) == Definition[m].type = "iseq"

\* MethodInfo.new raises unless the file exists.
MethodInfoNew(m) == source[Definition[m].spath] # None

\* The call finds the method, and MethodInfo.new the file.  Where it does not,
\* it raises and leaves everything as it was.
Find(th, m) ==
  /\ pc[th] = "idle"
  /\ Profiles < MaxProfiles
  /\ iseq_find(m)
  /\ MethodInfoNew(m)
  /\ pc' = [pc EXCEPT ![th] = "new"]
  /\ target' = [target EXCEPT ![th] = m]
  /\ UNCHANGED <<source, injected, hooked, hooks, ALL, measured>>

\* Faulty, for the mutants: the hook is added at every call.
AddHook == hooks' = hooks + 1 /\ hooked' = TRUE

\* profiler_linetrace(0)
profiler_linetrace ==
  /\ hooked' = TRUE
  /\ hooks' = IF hooked THEN hooks ELSE hooks + 1

\* MethodInfo.new returns; iseq_inject and profiler_linetrace follow at once.
Inject(th) ==
  /\ pc[th] = "new"
  /\ injected' = injected \union {target[th]}
  /\ profiler_linetrace
  /\ pc' = [pc EXCEPT ![th] = "injected"]
  /\ UNCHANGED <<target, source, ALL, measured>>

\* MethodInfo.register
Register(th) ==
  /\ pc[th] = "injected"
  /\ ALL' = Append(ALL, Info(target[th]))
  /\ pc' = [pc EXCEPT ![th] = "idle"]
  /\ target' = [target EXCEPT ![th] = None]
  /\ UNCHANGED <<source, injected, hooked, hooks, measured>>

\* An exception or Thread#kill ends the call in one of its Ruby methods.
Interrupt(th) ==
  /\ pc[th] \in {"new", "injected"}
  /\ pc' = [pc EXCEPT ![th] = "idle"]
  /\ target' = [target EXCEPT ![th] = None]
  /\ UNCHANGED <<source, injected, hooked, hooks, ALL, measured>>

Measure(f, line) ==
  /\ hooked
  /\ measured' = [measured EXCEPT ![f] = @ \union {line}]
  /\ UNCHANGED <<pc, target, source, injected, hooked, hooks, ALL>>

\* An injected method reaches one of its lines.  (An event of line 0 is
\* SourceInfo's subject: it is left out here.)
Reach(m, line) ==
  /\ m \in injected
  /\ line \in Definition[m].lines
  /\ LineOfEntry(line) # 0
  /\ Measure(Definition[m].spath, LineOfEntry(line))

\* A class body, profiled or not, ends: the VM's own use of the END event.
EndOfClass(f, line) ==
  /\ <<f, line>> \in ClassEnds
  /\ Measure(f, line)

\* A file is removed or emptied, or the process changes its directory.
Edit(f) ==
  /\ source[f] \notin {None, 0}
  /\ \E length \in {None, 0} : source' = [source EXCEPT ![f] = length]
  /\ UNCHANGED <<pc, target, injected, hooked, hooks, ALL, measured>>

InitProfiler ==
  /\ pc = [th \in Threads |-> "idle"]
  /\ target = [th \in Threads |-> None]
  /\ source = SourceLength
  /\ injected = {}
  /\ hooked = FALSE
  /\ hooks = 0
  /\ ALL = <<>>
  /\ measured = [f \in Files |-> {}]

NextProfiler ==
  \/ \E th \in Threads :
       \/ \E m \in Methods : Find(th, m)
       \/ Inject(th)
       \/ Register(th)
       \/ Interrupt(th)
  \/ \E m \in Methods : \E line \in Definition[m].lines : Reach(m, line)
  \/ \E end \in ClassEnds : EndOfClass(end[1], end[2])
  \/ \E f \in Files : Edit(f)

-----------------------------------------------------------------------------
(* Properties.                                                             *)

TypeOK ==
  /\ pc \in [Threads -> {"idle", "new", "injected"}]
  /\ target \in [Threads -> Methods \union {None}]
  /\ \A f \in Files : source[f] \in {SourceLength[f], 0, None}
  /\ injected \subseteq Methods
  /\ hooked \in BOOLEAN
  /\ hooks \in Nat
  /\ \A i \in 1 .. Len(ALL) : \E m \in Methods :
       ALL[i] = Info(m) /\ Definition[m].type = "iseq"
  /\ \A f \in Files : measured[f] \subseteq 0 .. ShortMod - 1

\* However many threads profile however many methods, one event is measured
\* once, and a registered method does report its events: when profile returns,
\* its injection and the hook are in place.
EventsMeasuredOnce ==
  /\ hooks <= 1
  /\ \A i \in 1 .. Len(ALL) : ALL[i].method \in injected /\ hooks = 1
=============================================================================
