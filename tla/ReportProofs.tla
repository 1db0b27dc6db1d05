---------------------------- MODULE ReportProofs ----------------------------
(***************************************************************************)
(* Proofs about PLine.profile and the report, for any number of threads,   *)
(* methods and files: an event is measured once, a method is reported from *)
(* its first line to its last, and the report passes over no method        *)
(* and fails of its own only at a source that has changed or a line that   *)
(* cannot be split, whatever other threads register, measure and edit      *)
(* meanwhile.                                                              *)
(***************************************************************************)
EXTENDS Summarize, WellFoundedInduction, TLAPS

-----------------------------------------------------------------------------
(* Events are measured once.                                               *)

\* What MethodInfo.new makes for the methods of the program.
Known == {Info(m) : m \in Methods}

\* The calls of profile in progress: each has a method, and one that waits to
\* register its method has injected it, with the hook in place.
CallsInProgress ==
  /\ pc \in [Threads -> {"idle", "new", "injected"}]
  /\ target \in [Threads -> Methods \union {None}]
  /\ \A th \in Threads : pc[th] # "idle" => target[th] \in Methods
  /\ \A th \in Threads : pc[th] = "injected" => target[th] \in injected /\ hooked

\* The hook is in the VM once or not at all, as the static variable says.
HookIsOne ==
  /\ hooked \in BOOLEAN
  /\ hooks = IF hooked THEN 1 ELSE 0

\* Every entry of MethodInfo::ALL is of an injected method.
AllInjected ==
  /\ ALL \in Seq(Known)
  /\ \A i \in 1 .. Len(ALL) : ALL[i].method \in injected /\ hooked

MInv == CallsInProgress /\ HookIsOne /\ AllInjected

LEMMA InfoMethod == \A m \in Methods : Info(m).method = m
  BY DEF Info

LEMMA InitMeasuredOnce == Init => MInv
  <1> SUFFICES ASSUME Init PROVE MInv
    OBVIOUS
  <1> USE DEF Init, InitProfiler
  <1>1. CallsInProgress
    BY DEF CallsInProgress
  <1>2. HookIsOne
    BY DEF HookIsOne
  <1>3. AllInjected
    BY DEF AllInjected
  <1>4. QED
    BY <1>1, <1>2, <1>3 DEF MInv

\* Each step of a thread in profile keeps the invariant.
LEMMA ProfilerStep == MInv /\ NextProfiler => MInv'
  <1> SUFFICES ASSUME MInv, NextProfiler PROVE MInv'
    OBVIOUS
  <1> USE DEF MInv
  <1>1. ASSUME NEW th \in Threads, NEW m \in Methods, Find(th, m)
        PROVE  MInv'
    <2>1. CallsInProgress'
      BY <1>1 DEF Find, CallsInProgress
    <2>2. HookIsOne' /\ AllInjected'
      BY <1>1 DEF Find, HookIsOne, AllInjected
    <2>3. QED
      BY <2>1, <2>2
  <1>2. ASSUME NEW th \in Threads, Inject(th)
        PROVE  MInv'
    <2>1. hooked' = TRUE /\ hooks' = 1
      BY <1>2 DEF Inject, profiler_linetrace, HookIsOne
    <2>2. CallsInProgress'
      BY <1>2, <2>1 DEF Inject, CallsInProgress
    <2>3. AllInjected'
      BY <1>2, <2>1 DEF Inject, AllInjected
    <2>4. QED
      BY <2>1, <2>2, <2>3 DEF HookIsOne
  <1>3. ASSUME NEW th \in Threads, Register(th)
        PROVE  MInv'
    <2>1. CallsInProgress'
      BY <1>3 DEF Register, CallsInProgress
    <2>2. HookIsOne'
      BY <1>3 DEF Register, HookIsOne
    <2>3. AllInjected'
      <3>1. target[th] \in Methods /\ target[th] \in injected /\ hooked
        BY <1>3 DEF Register, CallsInProgress
      <3>2. Info(target[th]) \in Known /\ Info(target[th]).method = target[th]
        BY <3>1, InfoMethod DEF Known
      <3>3. ALL' = Append(ALL, Info(target[th])) /\ UNCHANGED <<injected, hooked>>
        BY <1>3 DEF Register
      <3>4. QED
        BY <3>1, <3>2, <3>3 DEF AllInjected
    <2>4. QED
      BY <2>1, <2>2, <2>3
  <1>4. ASSUME NEW th \in Threads, Interrupt(th)
        PROVE  MInv'
    <2>1. CallsInProgress'
      BY <1>4 DEF Interrupt, CallsInProgress
    <2>2. HookIsOne' /\ AllInjected'
      BY <1>4 DEF Interrupt, HookIsOne, AllInjected
    <2>3. QED
      BY <2>1, <2>2
  <1>5. ASSUME UNCHANGED <<pc, target, injected, hooked, hooks, ALL>>
        PROVE  MInv'
    BY <1>5 DEF CallsInProgress, HookIsOne, AllInjected
  <1>6. ASSUME NEW f, NEW line, Measure(f, line)
        PROVE  MInv'
    BY <1>5, <1>6 DEF Measure
  <1>7. ASSUME NEW f, Edit(f)
        PROVE  MInv'
    BY <1>5, <1>7 DEF Edit
  <1>8. QED
    BY <1>1, <1>2, <1>3, <1>4, <1>6, <1>7 DEF NextProfiler, Reach, EndOfClass

LEMMA NextMeasuredOnce == MInv /\ [Next]_vars => MInv'
  <1> SUFFICES ASSUME MInv, [Next]_vars PROVE MInv'
    OBVIOUS
  <1>1. CASE Elsewhere
    BY <1>1, ProfilerStep DEF Elsewhere
  <1>2. ASSUME UNCHANGED profileVars
        PROVE  MInv'
    BY <1>2 DEF MInv, CallsInProgress, HookIsOne, AllInjected, profileVars
  <1>3. CASE AtExit
    BY <1>2, <1>3 DEF AtExit
  <1>4. CASE Group
    BY <1>2, <1>4 DEF Group
  <1>5. CASE FindScores
    BY <1>2, <1>5 DEF FindScores
  <1>6. CASE ReadSource
    BY <1>2, <1>6 DEF ReadSource
  <1>7. CASE PrintMethod
    BY <1>2, <1>7 DEF PrintMethod
  <1>8. CASE Interrupted
    BY <1>2, <1>8 DEF Interrupted
  <1>9. CASE UNCHANGED vars
    BY <1>2, <1>9 DEF vars
  <1>10. QED
    BY <1>1, <1>3, <1>4, <1>5, <1>6, <1>7, <1>8, <1>9 DEF Next

LEMMA MeasuringInvariant == Spec => []MInv
  <1>1. Init => MInv
    BY InitMeasuredOnce
  <1>2. MInv /\ [Next]_vars => MInv'
    BY NextMeasuredOnce
  <1>3. QED
    BY <1>1, <1>2, PTL DEF Spec

\* Whatever threads call PLine.profile, and wherever a call is interrupted, an
\* event is measured at most once, and a method in MethodInfo::ALL has been
\* injected and its events reach the hook.
THEOREM MeasuredOnce == Spec => []EventsMeasuredOnce
  <1>1. MInv => EventsMeasuredOnce
    BY DEF MInv, HookIsOne, AllInjected, EventsMeasuredOnce
  <1>2. QED
    BY <1>1, MeasuringInvariant, PTL

-----------------------------------------------------------------------------
(* The range of lines of a method.                                         *)

\* A Fixnum that fits in the short passes through it, and so does the number.
LEMMA FitsInShort ==
  ASSUME NEW l \in Nat, LONG2FIX(l) < ShortMod
  PROVE  /\ LONG2FIX(l) % ShortMod = LONG2FIX(l)
         /\ LineOfEntry(l) = l
         /\ FIX2LONG(LONG2FIX(l)) = l
  <1>1. \A x \in 0 .. ShortMod - 1 : x % ShortMod = x
    BY ShortAssumption
  <1>2. l \in 0 .. ShortMod - 1 /\ LONG2FIX(l) \in 0 .. ShortMod - 1
    BY ShortAssumption DEF LONG2FIX
  <1>3. FIX2LONG(LONG2FIX(l)) = l
    BY DEF LONG2FIX, FIX2LONG
  <1>4. QED
    BY <1>1, <1>2, <1>3 DEF LineOfEntry

\* The maximum is determined by being one.
LEMMA MaxIs ==
  ASSUME NEW S, S \subseteq Int, NEW x \in S, \A y \in S : y <= x
  PROVE  Max(S) = x
  <1> DEFINE IsMax(y) == y \in S /\ \A z \in S : y >= z
  <1>1. IsMax(x)
    OBVIOUS
  <1>2. \A y : IsMax(y) => y = x
    OBVIOUS
  <1>3. Max(S) = CHOOSE y : IsMax(y)
    BY DEF Max
  <1> HIDE DEF IsMax
  <1>4. QED
    BY <1>1, <1>2, <1>3

\* The last line is the largest number, tagged or not.
LEMMA LastLine ==
  ASSUME NEW first \in Nat, NEW lines \in SUBSET Nat, NEW last \in lines,
         first <= last, \A l \in lines : l <= last,
         LONG2FIX(last) < ShortMod
  PROVE  /\ minfo_sline_from_iseq(first) = first
         /\ minfo_eline_from_iseq(first, lines) = last
         /\ Max(lines) = last
  <1> DEFINE tagged == {line_no(first)} \union {LONG2FIX(LineOfEntry(l)) : l \in lines}
  <1>1. \A l \in lines \union {first} : l \in Nat /\ LONG2FIX(l) < ShortMod
    BY ShortAssumption DEF LONG2FIX
  <1>2. line_no(first) = LONG2FIX(first)
    BY <1>1, FitsInShort DEF line_no
  <1>3. \A l \in lines : LONG2FIX(LineOfEntry(l)) = LONG2FIX(l)
    BY <1>1, FitsInShort
  <1>4. Max(tagged) = LONG2FIX(last)
    <2>1. tagged \subseteq Int
      BY <1>2, <1>3 DEF LONG2FIX
    <2>2. LONG2FIX(last) \in tagged
      BY <1>3
    <2>3. \A y \in tagged : y <= LONG2FIX(last)
      BY <1>2, <1>3 DEF LONG2FIX
    <2>4. QED
      BY <2>1, <2>2, <2>3, MaxIs
  <1>5. minfo_eline_from_iseq(first, lines) = last
    BY <1>1, <1>4, FitsInShort DEF minfo_eline_from_iseq
  <1>6. minfo_sline_from_iseq(first) = first
    BY <1>1, <1>2, FitsInShort DEF minfo_sline_from_iseq
  <1>7. Max(lines) = last
    <2>1. lines \subseteq Int
      OBVIOUS
    <2>2. QED
      BY <2>1, MaxIs
  <1>8. QED
    BY <1>5, <1>6, <1>7

\* Every method has a last line, whose Fixnum fits in the short: it is at most
\* 32767.
LinesFit ==
  \A m \in Methods : \E last \in Definition[m].lines :
    /\ \A l \in Definition[m].lines : l <= last
    /\ LONG2FIX(last) < ShortMod

\* The lines between which a method is reported are those of its source.
THEOREM RangeCorrect == LinesFit => (Spec => []RangeOfMethod)
  <1>1. ASSUME LinesFit, MInv PROVE RangeOfMethod
    <2> SUFFICES ASSUME NEW i \in 1 .. Len(ALL)
                 PROVE  /\ ALL[i].sline = Definition[ALL[i].method].first
                        /\ ALL[i].eline = Max(Definition[ALL[i].method].lines)
      BY DEF RangeOfMethod, Entries
    <2>1. PICK m \in Methods : ALL[i] = Info(m)
      BY <1>1 DEF MInv, AllInjected, Known
    <2>2. PICK last \in Definition[m].lines :
            /\ \A l \in Definition[m].lines : l <= last
            /\ LONG2FIX(last) < ShortMod
      BY <1>1 DEF LinesFit
    <2>3. /\ Definition[m].first \in Nat
          /\ Definition[m].lines \in SUBSET Nat
          /\ Definition[m].first <= last
      BY <2>2, DefinitionAssumption
    <2>4. /\ minfo_sline_from_iseq(Definition[m].first) = Definition[m].first
          /\ minfo_eline_from_iseq(Definition[m].first, Definition[m].lines) = last
          /\ Max(Definition[m].lines) = last
      BY <2>2, <2>3, LastLine
    <2>5. QED
      BY <2>1, <2>4 DEF Info
  <1>2. ASSUME LinesFit PROVE Spec => []RangeOfMethod
    <2>1. MInv => RangeOfMethod
      BY <1>1, <1>2
    <2>2. QED
      BY <2>1, MeasuringInvariant, PTL
  <1>3. QED
    BY <1>2

-----------------------------------------------------------------------------
(* The report.                                                             *)

\* A bounded set of numbers has a maximum.
LEMMA MaxOfBounded ==
  ASSUME NEW n \in Nat, NEW S, S \subseteq 0 .. n, S # {}
  PROVE  Max(S) \in S /\ \A x \in S : x <= Max(S)
<1> DEFINE T == {n - x : x \in S}
<1>1. T \subseteq Nat /\ T # {}
  <2>1. \A x \in S : n - x \in Nat
    OBVIOUS
  <2> QED
    BY <2>1
<1>2. PICK least \in T : \A t \in T : ~(<<t, least>> \in OpToRel(<, Nat))
  BY <1>1, NatLessThanWellFounded, WFMin
<1>3. \A t \in T : least <= t
  <2> SUFFICES ASSUME NEW t \in T PROVE least <= t
    OBVIOUS
  <2>1. t \in Nat /\ least \in Nat
    BY <1>1
  <2>2. t < least => <<t, least>> \in OpToRel(<, Nat)
    BY <2>1 DEF OpToRel
  <2>3. ~(t < least)
    BY <1>2, <2>2
  <2> QED
    BY <2>1, <2>3
<1>4. PICK m \in S : least = n - m
  OBVIOUS
<1>5. \A x \in S : x <= m
  BY <1>3, <1>4
<1>6. S \subseteq Int
  OBVIOUS
<1>7. Max(S) = m
  BY <1>5, <1>6, MaxIs
<1> QED
  BY <1>5, <1>7

\* A method's file is one of the program, its first and last line are numbers.
LEMMA KnownFields ==
  ASSUME NEW e \in Known
  PROVE  e.spath \in Files /\ e.sline \in Nat /\ e.eline \in Nat
<1>1. PICK m \in Methods : e = Info(m)
  BY DEF Known
<1> DEFINE def == Definition[m]
           top == 2 * ShortMod
           tagged == {line_no(def.first)} \union {LONG2FIX(LineOfEntry(l)) : l \in def.lines}
<1>2. def.first \in Nat /\ def.lines \subseteq Nat
  BY DefinitionAssumption
<1>3. \A x \in Nat : x % ShortMod \in 0 .. ShortMod - 1
  BY ShortAssumption
<1>4. tagged \subseteq 0 .. top
  <2>1. line_no(def.first) \in 0 .. top
    BY <1>2, <1>3, ShortAssumption DEF line_no, LONG2FIX
  <2>2. \A l \in def.lines : LONG2FIX(LineOfEntry(l)) \in 0 .. top
    BY <1>2, <1>3, ShortAssumption DEF LineOfEntry, LONG2FIX
  <2> QED
    BY <2>1, <2>2
<1>5. Max(tagged) \in Nat
  <2>1. tagged # {} /\ top \in Nat
    BY ShortAssumption
  <2> HIDE DEF tagged, top
  <2>2. Max(tagged) \in tagged
    BY <1>4, <2>1, MaxOfBounded
  <2>3. Max(tagged) \in 0 .. top
    BY <1>4, <2>2
  <2> QED
    BY <2>1, <2>3
<1>6. minfo_eline_from_iseq(def.first, def.lines) \in Nat
  BY <1>5 DEF minfo_eline_from_iseq, FIX2LONG
<1>7. minfo_sline_from_iseq(def.first) \in Nat
  <2>1. line_no(def.first) \in Nat
    BY <1>2, <1>3, ShortAssumption DEF line_no, LONG2FIX
  <2> QED
    BY <2>1 DEF minfo_sline_from_iseq, FIX2LONG
<1> QED
  BY <1>1, <1>6, <1>7, DefinitionAssumption DEF Info

-----------------------------------------------------------------------------
(* What the program does beside the report.                                *)

\* Lines measured are numbers of 16 bits; a source is as it was, empty or gone.
FilesInv ==
  /\ measured \in [Files -> SUBSET (0 .. ShortMod - 1)]
  /\ DOMAIN source = Files
  /\ \A f \in Files : source[f] \in {SourceLength[f], 0, None}

\* Methods are registered behind the others, lines stay measured, and a source that
\* has changed does not change back.
OthersAdd ==
  /\ ALL' = ALL \/ \E e \in Known : ALL' = Append(ALL, e)
  /\ \A f \in Files : measured[f] \subseteq measured'[f]
  /\ \A f \in Files : source[f] # SourceLength[f] => source'[f] # SourceLength[f]

LEMMA FilesInit == Init => FilesInv
  BY SourceAssumption DEF Init, InitProfiler, FilesInv

LEMMA OthersStep ==
  ASSUME MInv, FilesInv, NextProfiler
  PROVE  FilesInv' /\ OthersAdd
<1>1. ASSUME UNCHANGED <<measured, source>>,
             ALL' = ALL \/ \E e \in Known : ALL' = Append(ALL, e)
      PROVE  FilesInv' /\ OthersAdd
  BY <1>1 DEF FilesInv, OthersAdd
<1>2. ASSUME NEW th \in Threads, Register(th)
      PROVE  FilesInv' /\ OthersAdd
  <2>1. target[th] \in Methods
    BY <1>2 DEF MInv, CallsInProgress, Register
  <2> QED
    BY <1>1, <1>2, <2>1 DEF Register, Known
<1>3. ASSUME NEW f \in Files, NEW line \in 0 .. ShortMod - 1, Measure(f, line)
      PROVE  FilesInv' /\ OthersAdd
  BY <1>3 DEF Measure, FilesInv, OthersAdd
<1>4. ASSUME NEW m \in Methods, NEW line \in Definition[m].lines, Reach(m, line)
      PROVE  FilesInv' /\ OthersAdd
  <2>1. Definition[m].spath \in Files /\ line \in Nat
    BY DefinitionAssumption
  <2>2. LineOfEntry(line) \in 0 .. ShortMod - 1
    BY <2>1, ShortAssumption DEF LineOfEntry
  <2> QED
    BY <1>3, <1>4, <2>1, <2>2 DEF Reach
<1>5. ASSUME NEW end \in ClassEnds, EndOfClass(end[1], end[2])
      PROVE  FilesInv' /\ OthersAdd
  <2>1. end[1] \in Files /\ end[2] \in 1 .. ShortMod - 1
    BY SourceAssumption
  <2>2. end[2] \in 0 .. ShortMod - 1
    BY <2>1, ShortAssumption
  <2> QED
    BY <1>3, <1>5, <2>1, <2>2 DEF EndOfClass
<1>6. ASSUME NEW f \in Files, Edit(f)
      PROVE  FilesInv' /\ OthersAdd
  <2>1. PICK length \in {None, 0} : source' = [source EXCEPT ![f] = length]
    BY <1>6 DEF Edit
  <2>2. SourceLength[f] \notin {None, 0}
    BY <1>6, SourceAssumption DEF Edit, FilesInv
  <2> QED
    BY <1>6, <2>1, <2>2 DEF Edit, FilesInv, OthersAdd
<1> QED
  BY <1>1, <1>2, <1>4, <1>5, <1>6 DEF NextProfiler, Find, Inject, Interrupt

-----------------------------------------------------------------------------
(* The groups.                                                             *)

GroupSet == [spath : Files, minfos : Seq(Known)]
OneFile(g) == \A m \in Entries(g.minfos) : m.spath = g.spath

IsGroups(gs) == gs \in Seq(GroupSet) /\ \A k \in 1 .. Len(gs) : OneFile(gs[k])

LEMMA AppendEntries ==
  ASSUME NEW s \in Seq(Known), NEW m \in Known
  PROVE  Append(s, m) \in Seq(Known) /\ Entries(Append(s, m)) = Entries(s) \cup {m}
<1>1. /\ Append(s, m) \in Seq(Known) /\ Len(Append(s, m)) = Len(s) + 1
      /\ \A i \in 1 .. Len(s) : Append(s, m)[i] = s[i]
      /\ Append(s, m)[Len(s) + 1] = m
  OBVIOUS
<1> QED
  BY <1>1 DEF Entries

LEMMA TailEntries ==
  ASSUME NEW s \in Seq(Known), s # <<>>
  PROVE  /\ Tail(s) \in Seq(Known) /\ Head(s) \in Known
         /\ Entries(s) = Entries(Tail(s)) \cup {Head(s)}
<1>1. /\ Tail(s) \in Seq(Known) /\ Len(Tail(s)) = Len(s) - 1 /\ Len(s) \in Nat \ {0}
      /\ Head(s) = s[1] /\ s[1] \in Known
      /\ \A i \in 1 .. Len(s) - 1 : Tail(s)[i] = s[i + 1]
  OBVIOUS
<1>2. \A i \in 1 .. Len(s) : i = 1 \/ (i - 1 \in 1 .. Len(s) - 1 /\ Tail(s)[i - 1] = s[i])
  BY <1>1
<1>3. \A i \in 1 .. Len(s) - 1 : i + 1 \in 1 .. Len(s)
  BY <1>1
<1>4. ASSUME NEW e \in Entries(s) PROVE e \in Entries(Tail(s)) \cup {Head(s)}
  <2>1. PICK i \in 1 .. Len(s) : e = s[i]
    BY DEF Entries
  <2>2. CASE i = 1
    BY <1>1, <2>1, <2>2
  <2>3. CASE i # 1
    <3>1. i - 1 \in 1 .. Len(Tail(s)) /\ Tail(s)[i - 1] = e
      BY <1>1, <1>2, <2>1, <2>3
    <3> QED
      BY <3>1 DEF Entries
  <2> QED
    BY <2>2, <2>3
<1>5. ASSUME NEW e \in Entries(Tail(s)) PROVE e \in Entries(s)
  <2>1. PICK i \in 1 .. Len(Tail(s)) : e = Tail(s)[i]
    BY DEF Entries
  <2>2. i + 1 \in 1 .. Len(s) /\ e = s[i + 1]
    BY <1>1, <1>3, <2>1
  <2> QED
    BY <2>2 DEF Entries
<1>6. Head(s) \in Entries(s)
  <2>1. 1 \in 1 .. Len(s) /\ Head(s) = s[1]
    BY <1>1
  <2> QED
    BY <2>1 DEF Entries
<1> QED
  BY <1>1, <1>4, <1>5, <1>6

\* A method that is added is in its file's group, beside what was there.
LEMMA AddToGroups ==
  ASSUME NEW gs, IsGroups(gs), NEW m \in Known
  PROVE  /\ IsGroups(AddTo(gs, m))
         /\ In(AddTo(gs, m), m)
         /\ \A e : In(gs, e) => In(AddTo(gs, m), e)
<1>1. CASE \E k \in 1 .. Len(gs) : gs[k].spath = m.spath
  <2> DEFINE new == [k \in 1 .. Len(gs) |->
                       IF gs[k].spath = m.spath
                       THEN [gs[k] EXCEPT !.minfos = Append(@, m)] ELSE gs[k]]
  <2>1. AddTo(gs, m) = new
    BY <1>1 DEF AddTo
  <2>2. ASSUME NEW k \in 1 .. Len(gs)
        PROVE  /\ new[k] \in GroupSet /\ OneFile(new[k])
               /\ Entries(gs[k].minfos) \subseteq Entries(new[k].minfos)
               /\ gs[k].spath = m.spath => m \in Entries(new[k].minfos)
    <3>1. gs[k] \in GroupSet /\ OneFile(gs[k])
      BY DEF IsGroups
    <3>2. gs[k].spath \in Files /\ gs[k].minfos \in Seq(Known)
      BY <3>1 DEF GroupSet
    <3>3. CASE gs[k].spath = m.spath
      <4>1. new[k] = [spath |-> gs[k].spath, minfos |-> Append(gs[k].minfos, m)]
        BY <3>1, <3>3 DEF GroupSet
      <4>2. /\ new[k].spath = gs[k].spath /\ new[k].minfos \in Seq(Known)
            /\ Entries(new[k].minfos) = Entries(gs[k].minfos) \cup {m}
        BY <3>2, <4>1, AppendEntries
      <4>3. new[k] \in GroupSet
        BY <3>2, <4>1, <4>2 DEF GroupSet
      <4> HIDE DEF new
      <4> QED
        BY <3>1, <3>3, <4>2, <4>3 DEF OneFile
    <3>4. CASE gs[k].spath # m.spath
      BY <3>1, <3>4
    <3> QED
      BY <3>3, <3>4
  <2>3. new \in Seq(GroupSet) /\ Len(new) = Len(gs)
    <3>1. Len(gs) \in Nat
      BY DEF IsGroups
    <3>2. new \in [1 .. Len(gs) -> GroupSet]
      BY <2>2
    <3> HIDE DEF new
    <3> QED
      BY <3>1, <3>2
  <2> HIDE DEF new
  <2> QED
    BY <1>1, <2>1, <2>2, <2>3 DEF IsGroups, In
<1>2. CASE ~\E k \in 1 .. Len(gs) : gs[k].spath = m.spath
  <2> DEFINE one == [spath |-> m.spath, minfos |-> <<m>>]
             new == Append(gs, one)
  <2>1. AddTo(gs, m) = new
    BY <1>2 DEF AddTo
  <2>2. one \in GroupSet /\ Entries(one.minfos) = {m} /\ OneFile(one)
    BY KnownFields DEF GroupSet, Entries, OneFile
  <2> HIDE DEF one
  <2>3. /\ new \in Seq(GroupSet) /\ Len(new) = Len(gs) + 1 /\ Len(gs) \in Nat
        /\ new[Len(gs) + 1] = one
        /\ \A k \in 1 .. Len(gs) : new[k] = gs[k]
    BY <2>2 DEF IsGroups
  <2> HIDE DEF new
  <2> QED
    BY <2>1, <2>2, <2>3 DEF IsGroups, In
<1> QED
  BY <1>1, <1>2

\* The next file: all but the first group is left.
LEMMA TailGroups ==
  ASSUME NEW gs, IsGroups(gs), gs # <<>>
  PROVE  /\ IsGroups(Tail(gs)) /\ Head(gs) \in GroupSet /\ OneFile(Head(gs))
         /\ \A e : In(gs, e) => In(Tail(gs), e) \/ e \in Entries(Head(gs).minfos)
<1>1. /\ Tail(gs) \in Seq(GroupSet) /\ Len(Tail(gs)) = Len(gs) - 1 /\ Len(gs) \in Nat \ {0}
      /\ Head(gs) = gs[1] /\ gs[1] \in GroupSet
      /\ \A i \in 1 .. Len(gs) - 1 : Tail(gs)[i] = gs[i + 1]
  BY DEF IsGroups
<1>2. \A i \in 1 .. Len(gs) : i = 1 \/ (i - 1 \in 1 .. Len(gs) - 1 /\ Tail(gs)[i - 1] = gs[i])
  BY <1>1
<1>3. \A i \in 1 .. Len(gs) - 1 : i + 1 \in 1 .. Len(gs)
  BY <1>1
<1>4. 1 \in 1 .. Len(gs)
  BY <1>1
<1> QED
  BY <1>1, <1>2, <1>3, <1>4 DEF IsGroups, In

\* The next method: the first one of the first group is gone.
LEMMA TailMinfos ==
  ASSUME NEW gs, IsGroups(gs), gs # <<>>, Head(gs).minfos # <<>>
  PROVE  LET rest == [gs EXCEPT ![1].minfos = Tail(@)]
         IN /\ IsGroups(rest) /\ rest # <<>> /\ Head(rest).spath = Head(gs).spath
            /\ Head(Head(gs).minfos) \in Known
            /\ Head(Head(gs).minfos).spath = Head(gs).spath
            /\ \A e : In(gs, e) => In(rest, e) \/ e = Head(Head(gs).minfos)
<1> DEFINE tail == [spath |-> gs[1].spath, minfos |-> Tail(gs[1].minfos)]
           rest == [gs EXCEPT ![1] = tail]
<1>1. /\ Len(gs) \in Nat \ {0} /\ 1 \in 1 .. Len(gs) /\ Head(gs) = gs[1]
      /\ gs[1] \in GroupSet /\ OneFile(gs[1])
  BY DEF IsGroups
<1>2. gs[1].spath \in Files /\ gs[1].minfos \in Seq(Known) /\ gs[1].minfos # <<>>
  BY <1>1 DEF GroupSet
<1>3. [gs EXCEPT ![1].minfos = Tail(@)] = rest
  <2>1. gs[1] = [spath |-> gs[1].spath, minfos |-> gs[1].minfos]
    BY <1>1 DEF GroupSet
  <2>2. [gs[1] EXCEPT !.minfos = Tail(gs[1].minfos)] = tail
    BY <2>1
  <2>3. [gs EXCEPT ![1].minfos = Tail(@)]
          = [gs EXCEPT ![1] = [gs[1] EXCEPT !.minfos = Tail(gs[1].minfos)]]
    BY Zenon
  <2> HIDE DEF tail
  <2> QED
    BY <2>2, <2>3
<1>4. /\ Tail(gs[1].minfos) \in Seq(Known) /\ Head(gs[1].minfos) \in Known
      /\ Entries(gs[1].minfos) = Entries(Tail(gs[1].minfos)) \cup {Head(gs[1].minfos)}
  BY <1>2, TailEntries
<1>5. tail \in GroupSet /\ OneFile(tail) /\ tail.spath = gs[1].spath
      /\ tail.minfos = Tail(gs[1].minfos)
  BY <1>1, <1>2, <1>4 DEF GroupSet, OneFile
<1> HIDE DEF tail
<1>6. /\ rest \in Seq(GroupSet) /\ Len(rest) = Len(gs) /\ rest[1] = tail
      /\ \A k \in 2 .. Len(gs) : rest[k] = gs[k]
  BY <1>1, <1>5 DEF IsGroups
<1> HIDE DEF rest
<1>7. \A k \in 1 .. Len(gs) : k = 1 \/ k \in 2 .. Len(gs)
  BY <1>1
<1>8. IsGroups(rest) /\ rest # <<>> /\ Head(rest) = tail
  BY <1>1, <1>5, <1>6, <1>7 DEF IsGroups
<1>9. \A e : In(gs, e) => In(rest, e) \/ e = Head(gs[1].minfos)
  BY <1>1, <1>4, <1>5, <1>6, <1>7 DEF In
<1> QED
  BY <1>1, <1>3, <1>4, <1>5, <1>8, <1>9 DEF OneFile

-----------------------------------------------------------------------------
(* The report.                                                             *)

ReportTypes ==
  /\ phase \in {"running", "group", "find", "read", "print"} \union Ending
  /\ IsGroups(groups)
  /\ next \in Nat
  /\ report \in Seq(Known)
  /\ phase \in {"read", "print"} => groups # <<>>
  /\ phase \in {"read", "print"} => size \in Nat

\* The methods that are due have reached their last line, and keep it.
DueMeasured ==
  /\ exit.ended \subseteq Known
  /\ \A m \in exit.ended : m.eline \in measured[m.spath]

\* Each of them is still to be grouped, still in a group, or in the report.
DuePlaced ==
  /\ phase = "running" => next = 0 /\ exit.ended = {}
  /\ phase = "group" =>
       /\ next <= Len(ALL)
       /\ \A m \in exit.ended :
            In(groups, m) \/ \E i \in next + 1 .. Len(ALL) : ALL[i] = m
  /\ phase = "aborted" =>
       \A m \in exit.ended :
         \/ m \in Entries(report)
         \/ In(groups, m)
         \/ \E i \in next + 1 .. Len(ALL) : ALL[i] = m
  /\ phase \in {"find", "read", "print"} =>
       \A m \in exit.ended : In(groups, m) \/ m \in Entries(report)
  /\ phase = "done" => exit.ended \subseteq Entries(report)

\* The scores of the file at hand reach their last lines.
DueSized ==
  phase \in {"read", "print"} =>
    \A m \in exit.ended : m.spath = File => m.eline <= size

\* A text that is not the source's is of a source that has changed.
TextRead ==
  /\ phase = "print" =>
       text = SourceLength[File] \/ source[File] # SourceLength[File]
  /\ AbortedForCause

\* A method begins and ends within its source.
WithinSource ==
  \A m \in Methods :
    /\ 1 <= Info(m).sline
    /\ Info(m).sline <= Info(m).eline
    /\ Info(m).eline <= SourceLength[Definition[m].spath]

PlaceInv == MInv /\ FilesInv /\ ReportTypes /\ DueMeasured /\ DuePlaced /\ DueSized

LEMMA PlaceInit == Init => PlaceInv
<1> SUFFICES ASSUME Init PROVE PlaceInv
  OBVIOUS
<1>1. MInv /\ FilesInv
  BY InitMeasuredOnce, FilesInit
<1>2. /\ phase = "running" /\ next = 0 /\ groups = <<>> /\ report = <<>>
      /\ exit.ended = {}
  BY DEF Init
<1>3. IsGroups(groups)
  BY <1>2 DEF IsGroups
<1>4. ReportTypes
  BY <1>2, <1>3 DEF ReportTypes
<1>5. DueMeasured /\ DuePlaced /\ DueSized
  BY <1>2 DEF DueMeasured, DuePlaced, DueSized
<1> QED
  BY <1>1, <1>4, <1>5 DEF PlaceInv

\* The lines measured while a file is summarized are those of the program's step
\* or the same: a line that is measured stays so.
LEMMA KeepsMeasured ==
  ASSUME PlaceInv, [Next]_vars
  PROVE  /\ MInv' /\ FilesInv'
         /\ OthersAdd
         /\ exit' = exit => DueMeasured'
<1>1. MInv'
  BY NextMeasuredOnce DEF PlaceInv
<1>2. FilesInv' /\ OthersAdd
  <2>1. CASE Elsewhere
    BY <2>1, OthersStep DEF Elsewhere, PlaceInv
  <2>2. CASE UNCHANGED profileVars
    BY <2>2 DEF profileVars, FilesInv, OthersAdd, PlaceInv
  <2> QED
    BY <2>1, <2>2
       DEF Next, AtExit, Group, FindScores, ReadSource, PrintMethod, Interrupted, vars
<1>3. exit' = exit => DueMeasured'
  <2> SUFFICES ASSUME exit' = exit PROVE DueMeasured'
    OBVIOUS
  <2>1. \A m \in exit.ended : m \in Known /\ m.spath \in Files
    BY KnownFields DEF PlaceInv, DueMeasured
  <2> QED
    BY <1>2, <2>1 DEF PlaceInv, DueMeasured, OthersAdd
<1> QED
  BY <1>1, <1>2, <1>3

LEMMA SizeReaches ==
  ASSUME FilesInv, NEW f \in Files
  PROVE  LinesSize(f) \in Nat /\ \A l \in measured[f] : l <= LinesSize(f)
<1> DEFINE lines == measured[f] \union {0}
<1>1. ShortMod - 1 \in Nat /\ lines \subseteq 0 .. ShortMod - 1 /\ lines # {}
  BY ShortAssumption DEF FilesInv
<1>2. Max(lines) \in lines /\ \A l \in lines : l <= Max(lines)
  <2> HIDE DEF lines
  <2> QED
    BY <1>1, MaxOfBounded
<1> QED
  BY <1>1, <1>2 DEF LinesSize

LEMMA PlaceStep == PlaceInv /\ [Next]_vars => PlaceInv'
<1> SUFFICES ASSUME PlaceInv, [Next]_vars PROVE PlaceInv'
  OBVIOUS
<1>1. MInv' /\ FilesInv' /\ OthersAdd /\ (exit' = exit => DueMeasured')
  BY KeepsMeasured
<1>2. \A m \in exit.ended : m \in Known /\ m.spath \in Files
  BY KnownFields DEF PlaceInv, DueMeasured
<1>3. ALL \in Seq(Known)
  BY DEF PlaceInv, MInv, AllInjected
<1>4. ASSUME UNCHANGED summaryVars PROVE PlaceInv'
  <2>1. ReportTypes' /\ DueSized' /\ DueMeasured'
    BY <1>1, <1>4 DEF summaryVars, PlaceInv, ReportTypes, DueSized, File
  <2>2. /\ Len(ALL') >= Len(ALL) /\ Len(ALL) \in Nat /\ Len(ALL') \in Nat
        /\ \A i \in 1 .. Len(ALL) : ALL'[i] = ALL[i]
    BY <1>1, <1>3 DEF OthersAdd
  <2>3. ASSUME phase = "group", NEW m \in exit.ended
        PROVE  In(groups, m) \/ \E i \in next + 1 .. Len(ALL') : ALL'[i] = m
    <3>1. next \in Nat /\ (In(groups, m) \/ \E i \in next + 1 .. Len(ALL) : ALL[i] = m)
      BY <2>3 DEF PlaceInv, ReportTypes, DuePlaced
    <3> QED
      BY <2>2, <3>1
  <2>4. ASSUME phase = "aborted", NEW m \in exit.ended
        PROVE  \/ m \in Entries(report)
               \/ In(groups, m)
               \/ \E i \in next + 1 .. Len(ALL') : ALL'[i] = m
    <3>1. /\ next \in Nat
          /\ \/ m \in Entries(report)
             \/ In(groups, m)
             \/ \E i \in next + 1 .. Len(ALL) : ALL[i] = m
      BY <2>4 DEF PlaceInv, ReportTypes, DuePlaced
    <3> QED
      BY <2>2, <3>1
  <2>5. DuePlaced'
    <3>1. next \in Nat /\ (phase = "group" => next <= Len(ALL'))
      BY <2>2 DEF PlaceInv, ReportTypes, DuePlaced
    <3> QED
      BY <1>4, <2>3, <2>4, <3>1 DEF summaryVars, PlaceInv, DuePlaced
  <2> QED
    BY <1>1, <2>1, <2>5 DEF PlaceInv
<1>5. CASE AtExit
  <2>1. /\ phase = "running" /\ phase' = "group" /\ next' = next /\ next = 0
        /\ groups' = groups /\ report' = report
        /\ ALL' = ALL /\ measured' = measured
        /\ exit'.ended = {m \in Entries(ALL) : Ended(m)}
    BY <1>5 DEF AtExit, profileVars, PlaceInv, DuePlaced
  <2>2. ReportTypes' /\ DueSized'
    BY <2>1 DEF PlaceInv, ReportTypes, DueSized
  <2>3. DueMeasured'
    BY <1>3, <2>1 DEF DueMeasured, Entries, Ended
  <2>4. DuePlaced'
    BY <1>3, <2>1 DEF DuePlaced, Entries
  <2> QED
    BY <1>1, <2>2, <2>3, <2>4 DEF PlaceInv
<1>6. CASE Group
  <2>1. /\ phase = "group" /\ exit' = exit /\ report' = report /\ ALL' = ALL
        /\ next \in Nat /\ next <= Len(ALL) /\ IsGroups(groups)
        /\ phase' \in {"group", "find"}
    BY <1>6 DEF Group, profileVars, PlaceInv, ReportTypes, DuePlaced
  <2>2. CASE next < Len(ALL)
    <3>1. /\ groups' = AddTo(groups, ALL[next + 1]) /\ next' = next + 1
          /\ phase' = "group" /\ ALL[next + 1] \in Known
      BY <1>3, <1>6, <2>1, <2>2 DEF Group
    <3>2. /\ IsGroups(groups') /\ In(groups', ALL[next + 1])
          /\ \A e : In(groups, e) => In(groups', e)
      BY <2>1, <3>1, AddToGroups
    <3>3. ReportTypes' /\ DueSized'
      BY <2>1, <3>1, <3>2 DEF PlaceInv, ReportTypes, DueSized
    <3>4. ASSUME NEW m \in exit.ended
          PROVE  In(groups', m) \/ \E i \in next + 2 .. Len(ALL) : ALL[i] = m
      <4>1. CASE In(groups, m)
        BY <3>2, <4>1
      <4>2. CASE \E i \in next + 1 .. Len(ALL) : ALL[i] = m
        BY <1>3, <2>1, <3>2, <4>2
      <4> QED
        BY <2>1, <4>1, <4>2 DEF PlaceInv, DuePlaced
    <3>5. DuePlaced'
      BY <1>3, <2>1, <2>2, <3>1, <3>4 DEF DuePlaced
    <3> QED
      BY <1>1, <2>1, <3>3, <3>5 DEF PlaceInv
  <2>3. CASE ~(next < Len(ALL))
    <3>1. groups' = groups /\ next' = next /\ phase' = "find"
      BY <1>6, <2>3 DEF Group
    <3>2. \A m \in exit.ended : In(groups, m)
      BY <1>3, <2>1, <2>3 DEF PlaceInv, DuePlaced
    <3>3. ReportTypes' /\ DueSized' /\ DuePlaced'
      BY <2>1, <3>1, <3>2 DEF PlaceInv, ReportTypes, DueSized, DuePlaced
    <3> QED
      BY <1>1, <2>1, <3>3 DEF PlaceInv
  <2> QED
    BY <2>2, <2>3
<1>7. CASE FindScores
  <2>1. /\ phase = "find" /\ exit' = exit /\ report' = report /\ next' = next
        /\ measured' = measured /\ IsGroups(groups)
        /\ \A m \in exit.ended : In(groups, m) \/ m \in Entries(report)
    BY <1>7 DEF FindScores, profileVars, PlaceInv, ReportTypes, DuePlaced
  <2>2. CASE groups = <<>>
    <3>1. phase' = "done" /\ groups' = groups /\ size' = size
      BY <1>7, <2>2 DEF FindScores
    <3>2. \A m : ~In(groups, m)
      BY <2>2 DEF In
    <3>3. ReportTypes' /\ DueSized' /\ DuePlaced'
      BY <2>1, <3>1, <3>2 DEF PlaceInv, ReportTypes, DueSized, DuePlaced, Ending
    <3> QED
      BY <1>1, <2>1, <3>3 DEF PlaceInv
  <2>3. CASE groups # <<>>
    <3>1. /\ IsGroups(Tail(groups)) /\ Head(groups) \in GroupSet /\ OneFile(Head(groups))
          /\ \A e : In(groups, e) => In(Tail(groups), e) \/ e \in Entries(Minfos)
      BY <2>1, <2>3, TailGroups DEF Minfos
    <3>2. File \in Files /\ \A m \in Entries(Minfos) : m.spath = File
      BY <3>1 DEF File, Minfos, GroupSet, OneFile
    <3>3. CASE measured[File] = {}
      <4>1. phase' = "find" /\ groups' = Tail(groups) /\ size' = size
        BY <1>7, <2>3, <3>3 DEF FindScores, NextFile
      <4>2. \A m \in exit.ended : m \notin Entries(Minfos)
        BY <3>2, <3>3 DEF PlaceInv, DueMeasured
      <4>3. ReportTypes' /\ DueSized' /\ DuePlaced'
        BY <2>1, <3>1, <4>1, <4>2 DEF PlaceInv, ReportTypes, DueSized, DuePlaced
      <4> QED
        BY <1>1, <2>1, <4>3 DEF PlaceInv
    <3>4. CASE measured[File] # {}
      <4>1. phase' = "read" /\ groups' = groups /\ size' = LinesSize(File)
        BY <1>7, <2>3, <3>4 DEF FindScores
      <4>2. LinesSize(File) \in Nat /\ \A l \in measured[File] : l <= LinesSize(File)
        BY <3>2, SizeReaches DEF PlaceInv
      <4>3. DueSized'
        BY <2>1, <4>1, <4>2 DEF PlaceInv, DueMeasured, DueSized, File
      <4>4. ReportTypes' /\ DuePlaced'
        BY <2>1, <2>3, <4>1, <4>2 DEF PlaceInv, ReportTypes, DuePlaced
      <4> QED
        BY <1>1, <2>1, <4>3, <4>4 DEF PlaceInv
    <3> QED
      BY <3>3, <3>4
  <2> QED
    BY <2>2, <2>3
<1>8. CASE ReadSource
  <2>1. /\ phase = "read" /\ exit' = exit /\ report' = report /\ next' = next
        /\ groups' = groups /\ size' = size /\ phase' \in {"aborted", "print"}
    BY <1>8 DEF ReadSource, Raise
  <2>2. ReportTypes' /\ DueSized' /\ DuePlaced'
    BY <2>1 DEF PlaceInv, ReportTypes, DueSized, DuePlaced, Ending, File
  <2> QED
    BY <1>1, <2>1, <2>2 DEF PlaceInv
<1>9. CASE PrintMethod
  <2>1. /\ phase = "print" /\ exit' = exit /\ next' = next /\ size' = size
        /\ IsGroups(groups) /\ groups # <<>> /\ size \in Nat /\ report \in Seq(Known)
        /\ \A m \in exit.ended : In(groups, m) \/ m \in Entries(report)
        /\ \A m \in exit.ended : m.spath = File => m.eline <= size
    BY <1>9 DEF PrintMethod, PlaceInv, ReportTypes, DuePlaced, DueSized
  <2>2. CASE Minfos = <<>>
    <3>1. phase' = "find" /\ groups' = Tail(groups) /\ report' = report
      BY <1>9, <2>2 DEF PrintMethod, NextFile
    <3>2. /\ IsGroups(Tail(groups))
          /\ \A e : In(groups, e) => In(Tail(groups), e) \/ e \in Entries(Minfos)
      BY <2>1, TailGroups DEF Minfos
    <3>3. Entries(Minfos) = {}
      BY <2>2 DEF Entries
    <3>4. ReportTypes' /\ DueSized' /\ DuePlaced'
      BY <2>1, <3>1, <3>2, <3>3 DEF PlaceInv, ReportTypes, DueSized, DuePlaced
    <3> QED
      BY <1>1, <2>1, <3>4 DEF PlaceInv
  <2>3. CASE Minfos # <<>>
    <3> DEFINE m == Head(Minfos)
               rest == [groups EXCEPT ![1].minfos = Tail(@)]
    <3>1. /\ IsGroups(rest) /\ rest # <<>> /\ Head(rest).spath = File
          /\ m \in Known /\ m.spath = File
          /\ \A e : In(groups, e) => In(rest, e) \/ e = m
      BY <2>1, <2>3, TailMinfos DEF Minfos, File
    <3>2. CASE phase' = "aborted" /\ groups' = groups /\ report' = report
      <4>1. ReportTypes' /\ DueSized' /\ DuePlaced'
        BY <2>1, <3>2 DEF PlaceInv, ReportTypes, DueSized, DuePlaced, Ending
      <4> QED
        BY <1>1, <2>1, <4>1 DEF PlaceInv
    <3>3. CASE /\ groups' = rest /\ phase' = phase
               /\ report' = IF HasScores(m) THEN Append(report, m) ELSE report
      <4>1. /\ groups' = rest /\ phase' = phase
            /\ report' = IF HasScores(m) THEN Append(report, m) ELSE report
        BY <3>3
      <4> HIDE DEF rest
      <4>2. /\ report' \in Seq(Known) /\ Entries(report) \subseteq Entries(report')
            /\ HasScores(m) => m \in Entries(report')
        BY <2>1, <3>1, <4>1, AppendEntries
      <4>3. m \in exit.ended => HasScores(m)
        BY <2>1, <3>1, KnownFields DEF HasScores
      <4> HIDE DEF m
      <4>4. File' = File
        BY <3>1, <4>1 DEF File
      <4>5. DuePlaced'
        BY <2>1, <3>1, <4>1, <4>2, <4>3 DEF DuePlaced
      <4>6. ReportTypes' /\ DueSized'
        BY <2>1, <3>1, <4>1, <4>2, <4>4 DEF PlaceInv, ReportTypes, DueSized
      <4> QED
        BY <1>1, <2>1, <4>5, <4>6 DEF PlaceInv
    <3>4. \/ phase' = "aborted" /\ groups' = groups /\ report' = report
          \/ /\ groups' = rest /\ phase' = phase
             /\ report' = IF HasScores(m) THEN Append(report, m) ELSE report
      BY <1>9, <2>3 DEF PrintMethod, NextMethod, Raise
    <3> QED
      BY <3>2, <3>3, <3>4
  <2> QED
    BY <2>2, <2>3
<1>10. CASE Interrupted
  <2>1. /\ phase \in {"group", "find", "read", "print"} /\ phase' = "aborted"
        /\ groups' = groups /\ next' = next /\ report' = report /\ exit' = exit
        /\ ALL' = ALL
    BY <1>10 DEF Interrupted, Raise, profileVars
  <2>2. DuePlaced'
    BY <2>1 DEF PlaceInv, DuePlaced
  <2>3. ReportTypes' /\ DueSized'
    BY <2>1 DEF PlaceInv, ReportTypes, DueSized, Ending
  <2> QED
    BY <1>1, <2>1, <2>2, <2>3 DEF PlaceInv
<1> QED
  BY <1>4, <1>5, <1>6, <1>7, <1>8, <1>9, <1>10 DEF Next, Elsewhere, vars

LEMMA PlaceInvariant == Spec => []PlaceInv
<1>1. Init => PlaceInv
  BY PlaceInit
<1>2. PlaceInv /\ [Next]_vars => PlaceInv'
  BY PlaceStep
<1> QED
  BY <1>1, <1>2, PTL DEF Spec

\* Whatever other threads register, measure and edit while the report is made, a
\* report that reaches its end has every method that was registered and had
\* reached its last line when the process exited, and one that is cut short has
\* passed over none of them.
THEOREM NothingForgotten == Spec => []NothingDueForgotten
<1>1. PlaceInv => NothingDueForgotten
  BY DEF PlaceInv, DuePlaced, NothingDueForgotten
<1> QED
  BY <1>1, PlaceInvariant, PTL

\* A method within its source has its rows where its lines are; one of them fails
\* only where the text is not the source, or its bytes cannot be split.
LEMMA RowsWithin ==
  ASSUME WithinSource, NEW m \in Known, size \in Nat, HasScores(m), ~RowsFit(m),
         text = SourceLength[m.spath]
  PROVE  \E l \in Unreadable[File] : m.sline <= l /\ l <= m.eline
<1>1. PICK method \in Methods : m = Info(method)
  BY DEF Known
<1>2. m.spath = Definition[method].spath
  BY <1>1 DEF Info
<1>3. 1 <= m.sline /\ m.sline <= m.eline /\ m.eline <= text
  BY <1>1, <1>2 DEF WithinSource
<1>4. m.sline \in Nat /\ m.eline \in Nat /\ m.spath \in Files
  BY KnownFields
<1>5. text \in Nat
  BY <1>4, SourceAssumption
<1>6. m.eline <= size
  BY <1>4 DEF HasScores
<1>7. Index(m.sline) = m.sline - 1 /\ Index(m.eline) = m.eline - 1
  BY <1>3, <1>4 DEF Index
<1>8. ~SliceIsNil(m)
  BY <1>3, <1>4, <1>6, <1>7 DEF SliceIsNil
<1>9. PICK l \in Rows(m) : ~RowFits(l)
  BY <1>8 DEF RowsFit
<1>10. PICK i \in Index(m.sline) .. Index(m.eline) : l = m.sline + i - Index(m.sline)
  BY <1>9 DEF Rows
<1>11. l \in Nat /\ m.sline <= l /\ l <= m.eline
  BY <1>3, <1>4, <1>7, <1>10
<1>12. l \in 1 .. text /\ SourceLine(l) = l
  BY <1>3, <1>4, <1>5, <1>11 DEF SourceLine
<1>13. l \in Unreadable[File]
  BY <1>9, <1>12 DEF RowFits
<1> QED
  BY <1>11, <1>13

LEMMA TextStep ==
  ASSUME WithinSource, PlaceInv, TextRead, [Next]_vars
  PROVE  TextRead'
<1>1. OthersAdd
  BY KeepsMeasured
<1>2. ASSUME groups # <<>>
      PROVE  File \in Files /\ SourceLength[File] \in Nat
  BY <1>2, TailGroups, SourceAssumption DEF PlaceInv, ReportTypes, File, GroupSet
<1>3. CASE Elsewhere
  <2>1. /\ phase' = phase /\ groups' = groups /\ text' = text /\ File' = File
        /\ phase \notin Ending
    BY <1>3 DEF Elsewhere, summaryVars, File
  <2>2. phase = "print" => File \in Files
    BY <1>2 DEF PlaceInv, ReportTypes
  <2>3. AbortedForCause'
    BY <2>1 DEF AbortedForCause, Ending
  <2> QED
    BY <1>1, <2>1, <2>2, <2>3 DEF TextRead, OthersAdd
<1>4. CASE ReadSource
  <2>1. /\ phase = "read" /\ File' = File /\ source' = source /\ File \in Files
        /\ SourceLength[File] # None
    BY <1>2, <1>4, SourceAssumption
       DEF ReadSource, File, profileVars, PlaceInv, ReportTypes
  <2>2. CASE source[File] = None
    <3>1. phase' = "aborted" /\ raised' = "file"
      BY <1>4, <2>2 DEF ReadSource, Raise
    <3> QED
      BY <2>1, <2>2, <3>1 DEF TextRead, AbortedForCause
  <2>3. CASE source[File] # None
    BY <1>4, <2>1, <2>3 DEF ReadSource, TextRead, AbortedForCause
  <2> QED
    BY <2>2, <2>3
<1>5. CASE PrintMethod
  <2>1. /\ phase = "print" /\ text' = text /\ source' = source
        /\ IsGroups(groups) /\ groups # <<>> /\ size \in Nat
    BY <1>5 DEF PrintMethod, profileVars, PlaceInv, ReportTypes
  <2>2. CASE Minfos = <<>>
    BY <1>5, <2>2 DEF PrintMethod, NextFile, TextRead, AbortedForCause
  <2>3. CASE Minfos # <<>>
    <3> DEFINE m == Head(Minfos)
               rest == [groups EXCEPT ![1].minfos = Tail(@)]
    <3>1. Head(rest).spath = File /\ m \in Known /\ m.spath = File
      BY <2>1, <2>3, TailMinfos DEF Minfos, File
    <3>2. CASE phase' = "aborted" /\ raised' \in {"output", "description"}
      BY <3>2 DEF TextRead, AbortedForCause
    <3>3. CASE /\ HasScores(m) /\ ~RowsFit(m)
               /\ phase' = "aborted" /\ raised' = "rows" /\ groups' = groups
      <4>1. File' = File /\ Head(Minfos)' = m
        BY <3>3 DEF File, Minfos
      <4>2. \/ source[File] # SourceLength[File]
            \/ \E l \in Unreadable[File] : m.sline <= l /\ l <= m.eline
        <5> HIDE DEF m
        <5>1. CASE text = SourceLength[File]
          BY <2>1, <3>1, <3>3, <5>1, RowsWithin
        <5>2. CASE text # SourceLength[File]
          BY <2>1, <5>2 DEF TextRead
        <5> QED
          BY <5>1, <5>2
      <4> HIDE DEF m
      <4>3. AbortedForCause'
        BY <2>1, <4>1, <4>2, <3>3 DEF AbortedForCause
      <4> QED
        BY <3>3, <4>3 DEF TextRead
    <3>4. CASE groups' = rest /\ phase' = phase
      <4> HIDE DEF rest
      <4>1. File' = File
        BY <3>1, <3>4 DEF File
      <4> QED
        BY <2>1, <3>4, <4>1 DEF TextRead, AbortedForCause
    <3>5. \/ phase' = "aborted" /\ raised' \in {"output", "description"}
          \/ /\ HasScores(m) /\ ~RowsFit(m)
             /\ phase' = "aborted" /\ raised' = "rows" /\ groups' = groups
          \/ groups' = rest /\ phase' = phase
      BY <1>5, <2>3 DEF PrintMethod, NextMethod, Raise
    <3> QED
      BY <3>2, <3>3, <3>4, <3>5
  <2> QED
    BY <2>2, <2>3
<1>6. CASE AtExit \/ Group \/ FindScores
  BY <1>6 DEF AtExit, Group, FindScores, NextFile, TextRead, AbortedForCause
<1>7. CASE Interrupted
  BY <1>7 DEF Interrupted, Raise, TextRead, AbortedForCause
<1>8. CASE UNCHANGED vars
  BY <1>8 DEF vars, profileVars, summaryVars, TextRead, AbortedForCause, File, Minfos
<1> QED
  BY <1>3, <1>4, <1>5, <1>6, <1>7, <1>8 DEF Next

\* Where every method begins and ends within its source, one of the report's own
\* statements raises only if that source has changed since, or a line of the method at
\* hand cannot be split: no missing score and no row out of range ends the report.
THEOREM CutShortForCause == WithinSource => (Spec => []AbortedForCause)
<1> SUFFICES ASSUME WithinSource PROVE Spec => []AbortedForCause
  OBVIOUS
<1>1. Init => TextRead
  BY DEF Init, TextRead, AbortedForCause
<1>2. PlaceInv /\ TextRead /\ [Next]_vars => TextRead'
  BY TextStep
<1>3. TextRead => AbortedForCause
  BY DEF TextRead
<1> QED
  BY <1>1, <1>2, <1>3, PlaceInvariant, PTL DEF Spec

-----------------------------------------------------------------------------
(* Only methods written in Ruby are profiled.                              *)

RubyMethods == {m \in Methods : Definition[m].type = "iseq"}

\* The calls in progress and the injections are for such methods.
RubyInv ==
  /\ \A th \in Threads : InProgress(th) => target[th] \in RubyMethods
  /\ injected \subseteq RubyMethods

LEMMA RubyStep == MInv /\ RubyInv /\ [Next]_vars => RubyInv'
<1> SUFFICES ASSUME MInv, RubyInv, [Next]_vars PROVE RubyInv'
  OBVIOUS
<1> USE DEF RubyInv, InProgress
<1>1. /\ pc = [th \in Threads |-> pc[th]]
      /\ target = [th \in Threads |-> target[th]]
  BY DEF MInv, CallsInProgress
<1>2. ASSUME NEW th \in Threads, NEW m \in Methods, Find(th, m) PROVE RubyInv'
  <2>1. m \in RubyMethods
    BY <1>2 DEF Find, iseq_find, RubyMethods
  <2> QED
    BY <1>1, <1>2, <2>1 DEF Find
<1>3. ASSUME NEW th \in Threads, Inject(th) PROVE RubyInv'
  <2>1. target[th] \in RubyMethods
    BY <1>3 DEF Inject
  <2> QED
    BY <1>1, <1>3, <2>1 DEF Inject
<1>4. ASSUME NEW th \in Threads, Register(th) \/ Interrupt(th) PROVE RubyInv'
  BY <1>1, <1>4 DEF Register, Interrupt
<1>5. ASSUME UNCHANGED <<pc, target, injected>> PROVE RubyInv'
  BY <1>5
<1>6. CASE Elsewhere
  BY <1>2, <1>3, <1>4, <1>5, <1>6 DEF Elsewhere, NextProfiler, Reach, EndOfClass, Measure, Edit
<1>7. CASE ~Elsewhere
  BY <1>5, <1>7
     DEF Next, AtExit, Group, FindScores, ReadSource, PrintMethod, Interrupted, vars,
         profileVars
<1> QED
  BY <1>6, <1>7

\* PLine.profile registers only what MethodInfo.new has made for a method written in
\* Ruby, its states are those of its code, and the measurement is called for lines of
\* 16 bits.
THEOREM ProfilerTypes == Spec => []TypeOK
<1>1. Init => RubyInv
  BY DEF Init, InitProfiler, RubyInv, InProgress
<1>2. ASSUME PlaceInv, RubyInv PROVE TypeOK
  <2>1. MInv /\ FilesInv
    BY <1>2 DEF PlaceInv
  <2>2. /\ pc \in [Threads -> {"idle", "new", "injected"}]
        /\ target \in [Threads -> Methods \union {None}]
        /\ hooked \in BOOLEAN /\ hooks \in Nat
    BY <2>1 DEF MInv, CallsInProgress, HookIsOne
  <2>3. \A f \in Files : /\ source[f] \in {SourceLength[f], 0, None}
                         /\ measured[f] \subseteq 0 .. ShortMod - 1
    BY <2>1 DEF FilesInv
  <2>4. ASSUME NEW i \in 1 .. Len(ALL)
        PROVE  \E m \in Methods : ALL[i] = Info(m) /\ Definition[m].type = "iseq"
    <3>1. ALL[i] \in Known /\ ALL[i].method \in injected
      BY <2>1 DEF MInv, AllInjected
    <3>2. PICK m \in Methods : ALL[i] = Info(m)
      BY <3>1 DEF Known
    <3>3. ALL[i].method = m
      BY <3>2, InfoMethod
    <3> QED
      BY <1>2, <3>1, <3>2, <3>3 DEF RubyInv, RubyMethods
  <2>5. injected \subseteq Methods
    BY <1>2 DEF RubyInv, RubyMethods
  <2> QED
    BY <2>2, <2>3, <2>4, <2>5 DEF TypeOK
<1>3. PlaceInv /\ RubyInv /\ [Next]_vars => RubyInv'
  BY RubyStep DEF PlaceInv
<1> QED
  BY <1>1, <1>2, <1>3, PlaceInvariant, PTL DEF Spec
=============================================================================
