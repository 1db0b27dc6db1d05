------------------------------ MODULE PathTable ------------------------------
(***************************************************************************)
(* ext/pline/sinfo.c and minfo.c beside the garbage collector: who keeps   *)
(* what alive.                                                             *)
(*                                                                         *)
(* The string tables are keyed by the char* that rb_sourcefile returns,    *)
(* which points into the String `filename' of an instruction sequence.     *)
(* Neither st_insert copies it nor does a table mark the String.  A file   *)
(* loaded twice has two such Strings of the same contents.  MethodInfo     *)
(* marks the String of a registered method; nothing else does once the     *)
(* program has dropped the code.  A lookup compares the path with the keys *)
(* of its hash, through their char*, wherever that points by now.          *)
(*                                                                         *)
(* The containers of the threads are made in two steps, the object first   *)
(* and its table second.                                                   *)
(***************************************************************************)
EXTENDS Integers, FiniteSets

CONSTANTS
  Threads,   \* Ruby threads
  Paths,     \* source paths
  Strings,   \* the filename Strings of the code that is loaded, one per load
  PathOf,    \* PathOf[s]: the contents of String s
  MaxEvents, \* bound on the events measured per path
  Qnil       \* no entry, no container, no call in progress, no fault

ASSUME PathAssumption == PathOf \in [Strings -> Paths]
ASSUME BoundAssumption == MaxEvents \in Nat \ {0}
ASSUME NilAssumption == Qnil \notin Nat

VARIABLES
  code,      \* per String: unborn, live, dropped (no code uses it), freed, reused
  profiling, \* per thread: the call of PLine.profile in progress, or Qnil
  all,       \* the Strings held by MethodInfo::ALL
  hooked,    \* the END event is hooked
  scoring,   \* per key: the events counted in its SourceInfo, or Qnil
  preline,   \* the keys of preline_sinfo_table
  container, \* the threads that have a SourceInfoContainer
  process,   \* per thread, the keys of its container's table
  halfMade,  \* a container whose table could not be made is garbage
  measured,  \* history: the events measured, per path
  fault      \* the use of memory that is not there which ended the process, or Qnil

vars == <<code, profiling, all, hooked, scoring, preline, container, process,
          halfMade, measured, fault>>

Dangling(s) == code[s] \in {"freed", "reused"}

\* What a key reads as now, if it can be read: the freed memory of a String may be
\* used again.
Contents(s) == IF code[s] = "reused" THEN Qnil ELSE PathOf[s]

\* A faulty sinfo_find, for the mutants: a table keyed by address.
SameAddress(keys, s) == keys \cap {s}

\* st_lookup compares the path of s with the keys of the same hash, which is that
\* of the path they had when they were inserted.
Compared(keys, s) == {k \in keys : PathOf[k] = PathOf[s]}

\* sinfo_find in a string table: the keys that read like the path of s.
sinfo_find(keys, s) == {k \in Compared(keys, s) : Contents(k) = PathOf[s]}

\* sinfo_find_*_sinfo_force: s becomes a key if no key reads like it.
FindForce(keys, s) == IF sinfo_find(keys, s) = {} THEN keys \cup {s} ELSE keys

ScoringKeys == {s \in Strings : scoring[s] # Qnil}

ScoringFor(s) ==
  [k \in Strings |-> IF k \in FindForce(ScoringKeys, s) \ ScoringKeys
                     THEN 0 ELSE scoring[k]]

\* sinfo_container_process_sinfo_table: a container for the thread if it has none.
sinfo_container_process_sinfo_table(t) == container \cup {t}

ProcessFor(t, s) == [process EXCEPT ![t] = FindForce(@, s)]

-----------------------------------------------------------------------------
(* The program: code is loaded, and dropped when nothing refers to it.     *)

Load(s) ==
  /\ code[s] = "unborn"
  /\ code' = [code EXCEPT ![s] = "live"]
  /\ UNCHANGED <<profiling, all, hooked, scoring, preline, container, process,
                 halfMade, measured, fault>>

Drop(s) ==
  /\ code[s] = "live"
  /\ code' = [code EXCEPT ![s] = "dropped"]
  /\ UNCHANGED <<profiling, all, hooked, scoring, preline, container, process,
                 halfMade, measured, fault>>

ThreadEnds(t) ==
  /\ t \in container
  /\ container' = container \ {t}
  /\ process' = [process EXCEPT ![t] = {}]
  /\ UNCHANGED <<code, profiling, all, hooked, scoring, preline, halfMade,
                 measured, fault>>

-----------------------------------------------------------------------------
(* PLine.profile, for a method of the code of s.                           *)

\* The MethodInfo is made; it is a local variable of profiler_m_profile.
minfo_m_init(t, s) ==
  /\ profiling[t] = Qnil
  /\ code[s] = "live"
  /\ profiling' = [profiling EXCEPT ![t] = [at |-> "new", path |-> s]]
  /\ UNCHANGED <<code, all, hooked, scoring, preline, container, process,
                 halfMade, measured, fault>>

\* The method is injected and the hook installed; register is being called.
Inject(t) ==
  /\ profiling[t] # Qnil
  /\ profiling[t].at = "new"
  /\ profiling' = [profiling EXCEPT ![t].at = "register"]
  /\ hooked' = TRUE
  /\ UNCHANGED <<code, all, scoring, preline, container, process, halfMade,
                 measured, fault>>

Register(t) ==
  /\ profiling[t] # Qnil
  /\ profiling[t].at = "register"
  /\ all' = all \cup {profiling[t].path}
  /\ profiling' = [profiling EXCEPT ![t] = Qnil]
  /\ UNCHANGED <<code, hooked, scoring, preline, container, process, halfMade,
                 measured, fault>>

\* An exception or a kill arrives in one of the two Ruby methods.
Interrupt(t) ==
  /\ profiling[t] # Qnil
  /\ profiling' = [profiling EXCEPT ![t] = Qnil]
  /\ UNCHANGED <<code, all, hooked, scoring, preline, container, process,
                 halfMade, measured, fault>>

-----------------------------------------------------------------------------
(* sinfo_measure, for an event of the code of s in thread t: a line of an  *)
(* injected method, or the end of a class body, which fires the same event *)
(* in any code.                                                            *)

Fires(s) ==
  /\ hooked
  /\ code[s] = "live"
  /\ measured[PathOf[s]] < MaxEvents

\* One more event in the score of the path of s; s is a key by now, or another is.
Count(s) ==
  LET hit == CHOOSE k \in Strings :
               k \in sinfo_find(FindForce(ScoringKeys, s), s)
  IN [ScoringFor(s) EXCEPT ![hit] = @ + 1]

sinfo_measure(t, s) ==
  /\ Fires(s)
  /\ scoring' = Count(s)
  /\ container' = sinfo_container_process_sinfo_table(t)
  /\ process' = ProcessFor(t, s)
  /\ preline' = FindForce(preline, s)
  /\ measured' = [measured EXCEPT ![PathOf[s]] = @ + 1]
  /\ UNCHANGED <<code, profiling, all, hooked, halfMade, fault>>

\* NoMemoryError for the entry of the thread or for the one of preline; the
\* entries made before it stay.
MeasureFails(t, s) ==
  /\ Fires(s)
  /\ scoring' = ScoringFor(s)
  /\ \/ sinfo_find(process[t], s) = {} /\ UNCHANGED <<container, process>>
     \/ /\ sinfo_find(preline, s) = {}
        /\ container' = sinfo_container_process_sinfo_table(t)
        /\ process' = ProcessFor(t, s)
  /\ UNCHANGED <<code, profiling, all, hooked, preline, halfMade, measured,
                 fault>>

\* A lookup, of an event or of the report (SourceInfo.find), compares through a key
\* whose String is freed.  That is undefined: it reads what Contents says, or what
\* is there cannot be read.  (The order of the keys of one hash is that of
\* insertion or its reverse, so that any of them may be met before the right one.)
ComparesFreed(t, s) ==
  /\ \E k \in Strings :
       /\ Dangling(k)
       /\ \/ Fires(s) /\ k \in Compared(ScoringKeys \cup process[t] \cup preline, s)
          \/ s \in all /\ k \in Compared(ScoringKeys, s)
       /\ fault' = [what |-> "freed key", key |-> k]
  /\ UNCHANGED <<code, profiling, all, hooked, scoring, preline, container, process,
                 halfMade, measured>>

\* sinfo_container_s_alloc: the object is there, its table is not.  What
\* st_init_strtable allocates may run the collector, which marks the object
\* since it is on the C stack, or may raise NoMemoryError.
sinfo_container_s_alloc(t, s) ==
  /\ Fires(s)
  /\ t \notin container
  /\ scoring' = ScoringFor(s)
  /\ \/ fault' = [what |-> "container without table", thread |-> t] /\ UNCHANGED halfMade
     \/ halfMade' = TRUE /\ UNCHANGED fault
  /\ UNCHANGED <<code, profiling, all, hooked, preline, container, process,
                 measured>>

-----------------------------------------------------------------------------
(* The garbage collector.                                                  *)

\* A faulty minfo_mark, for the mutants: the path is forgotten.
MarkNoPath == {}

\* minfo_mark, for each MethodInfo of ALL and for those in the calls in progress,
\* which are on a C stack, as is the instruction sequence they are made from.
minfo_mark ==
  all \cup {profiling[t].path : t \in {u \in Threads : profiling[u] # Qnil}}

\* The Strings that no one marks are freed.  (The SourceInfos in the tables are not:
\* sinfo_container_mark marks those of a thread, rb_gc_register_mark_object the
\* others.)  A container without a table is either marked or freed, through its null
\* table in both cases.
Collect ==
  /\ IF halfMade
     THEN fault' = [what |-> "container without table", thread |-> Qnil] /\ UNCHANGED code
     ELSE /\ code' = [s \in Strings |->
                        IF code[s] = "dropped" /\ s \notin minfo_mark
                        THEN "freed" ELSE code[s]]
          /\ UNCHANGED fault
  /\ UNCHANGED <<profiling, all, hooked, scoring, preline, container, process,
                 halfMade, measured>>

\* The memory of a freed String holds something else.
Reuse(s) ==
  /\ code[s] = "freed"
  /\ code' = [code EXCEPT ![s] = "reused"]
  /\ UNCHANGED <<profiling, all, hooked, scoring, preline, container, process,
                 halfMade, measured, fault>>

-----------------------------------------------------------------------------
Init ==
  /\ code = [s \in Strings |-> "unborn"]
  /\ profiling = [t \in Threads |-> Qnil]
  /\ all = {}
  /\ hooked = FALSE
  /\ scoring = [s \in Strings |-> Qnil]
  /\ preline = {}
  /\ container = {}
  /\ process = [t \in Threads |-> {}]
  /\ halfMade = FALSE
  /\ measured = [p \in Paths |-> 0]
  /\ fault = Qnil

Next ==
  /\ fault = Qnil
  /\ \/ \E s \in Strings : Load(s) \/ Drop(s) \/ Reuse(s)
     \/ \E t \in Threads : ThreadEnds(t) \/ Inject(t) \/ Register(t) \/ Interrupt(t)
     \/ \E t \in Threads, s \in Strings :
          \/ minfo_m_init(t, s)
          \/ sinfo_measure(t, s)
          \/ MeasureFails(t, s)
          \/ ComparesFreed(t, s)
          \/ sinfo_container_s_alloc(t, s)
     \/ Collect

Spec == Init /\ [][Next]_vars

-----------------------------------------------------------------------------
CodeStates == {"unborn", "live", "dropped", "freed", "reused"}

TypeOK ==
  /\ code \in [Strings -> CodeStates]
  /\ profiling \in [Threads -> {Qnil} \cup [at : {"new", "register"}, path : Strings]]
  /\ all \in SUBSET Strings
  /\ hooked \in BOOLEAN
  /\ scoring \in [Strings -> {Qnil} \cup Nat]
  /\ preline \in SUBSET Strings
  /\ container \in SUBSET Threads
  /\ process \in [Threads -> SUBSET Strings]
  /\ halfMade \in BOOLEAN
  /\ measured \in [Paths -> Nat]

\* A key of the tables, of any thread's too, is left dangling only if no
\* method of the code that brought it was ever registered: the class bodies and the
\* interrupted calls of profile do that.  The path of a registered method stays
\* readable for as long as the process lives (minfo_mark, MethodInfo::ALL).
DanglingKeyIsUnregistered ==
  \A s \in Strings :
    /\ s \in ScoringKeys \cup preline \cup UNION {process[t] : t \in Threads}
    /\ Dangling(s)
    => s \notin all

\* SourceInfo.find of the path of a registered method.
sinfo_s_find(p) ==
  {k \in ScoringKeys : PathOf[k] = p /\ Contents(k) = p}

\* What was measured for a path is found under it, under one key, whichever
\* load of the file an event came from, unless a key that nobody registered dangles:
\* the report then misses what was counted before the memory was reused.
ScoresAreFound ==
  \A p \in Paths :
    \/ measured[p] = 0
    \/ \E k \in Strings : sinfo_s_find(p) = {k} /\ scoring[k] = measured[p]
    \/ \E k \in ScoringKeys : PathOf[k] = p /\ Dangling(k) /\ k \notin all
=============================================================================
