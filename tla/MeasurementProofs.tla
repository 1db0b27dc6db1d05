-------------------------- MODULE MeasurementProofs --------------------------
(***************************************************************************)
(* Proofs about the measurement, for any number of threads, files and      *)
(* lines: SourceInfo's types and memory safety; that each of its steps is  *)
(* one of the stopwatches of LineTimers, or changes nothing that they      *)
(* show; that it charges no time that has not passed; that what the report *)
(* reads is the sum of the intervals charged (ScoreHistory); and that the  *)
(* profile of a straight-line program is exact (LineProfile).              *)
(***************************************************************************)
EXTENDS ScoreHistory, LineProfile, SumTheorems

-----------------------------------------------------------------------------
(* Arrays and tables.                                                      *)

\* An array of SourceInfo has exactly the cells its size says.
LEMMA InfoFields ==
  ASSUME NEW Values, NEW sinfo, IsInfo(sinfo, Values)
  PROVE  /\ sinfo.size \in Lines
         /\ sinfo.lines \in [0 .. sinfo.size - 1 -> Values]
         /\ sinfo = [size |-> sinfo.size, lines |-> sinfo.lines]
  BY DEF IsInfo

LEMMA InfoFromFields ==
  ASSUME NEW Values, NEW n \in Lines, NEW cells \in [0 .. n - 1 -> Values]
  PROVE  IsInfo([size |-> n, lines |-> cells], Values)
  BY DEF IsInfo

\* Qnil is no array.
LEMMA InfoNotNil ==
  ASSUME NEW Values, Values \subseteq Int, NEW sinfo, IsInfo(sinfo, Values)
  PROVE  sinfo # Qnil
  <1>1. PICK n \in Lines : sinfo \in [size : {n}, lines : [0 .. n - 1 -> Values]]
    BY DEF IsInfo
  <1>2. sinfo \in [size : {n}, lines : [0 .. n - 1 -> Int]]
    BY <1>1
  <1>3. QED
    BY <1>2, NilAssumption DEF IsInfo

\* sinfo_s_alloc makes an empty array.
LEMMA FreshInfo ==
  ASSUME NEW Values
  PROVE  IsInfo(sinfo_s_alloc, Values) /\ sinfo_s_alloc.size = 0
  <1>1. 0 \in Lines
    BY LineAssumption DEF Lines
  <1>2. [i \in {} |-> 0] \in [0 .. 0 - 1 -> Values]
    <2>1. 0 .. 0 - 1 = {}
      OBVIOUS
    <2>2. QED
      BY <2>1
  <1>3. QED
    BY <1>1, <1>2, InfoFromFields DEF sinfo_s_alloc

\* sinfo_find_*_force finds or makes an entry and touches no other.
LEMMA FindForceTable ==
  ASSUME NEW Values, NEW table, IsTable(table, Values), NEW f \in Files
  PROVE  /\ IsTable(FindForce(table, f), Values)
         /\ IsInfo(FindForce(table, f)[f], Values)
         /\ FindForce(table, f)[f].size = IF table[f] = Qnil THEN 0 ELSE table[f].size
         /\ table[f] # Qnil => FindForce(table, f) = table
         /\ \A g \in Files \ {f} : FindForce(table, f)[g] = table[g]
  BY FreshInfo DEF IsTable, FindForce

\* sinfo_expand_* reaches the line, keeps the old cells, initialises the rest.
LEMMA ExpandInfo ==
  ASSUME NEW Values, NEW sinfo, IsInfo(sinfo, Values),
         NEW line \in Lines, NEW initial \in Values
  PROVE  LET grown == Expand(sinfo, line, initial)
         IN /\ IsInfo(grown, Values)
            /\ grown.size = IF sinfo.size < line THEN line ELSE sinfo.size
            /\ \A i \in 0 .. grown.size - 1 :
                 grown.lines[i] = IF i < sinfo.size THEN sinfo.lines[i] ELSE initial
  <1>1. /\ sinfo.size \in Lines
        /\ sinfo.lines \in [0 .. sinfo.size - 1 -> Values]
    BY InfoFields
  <1>2. CASE sinfo.size < line
    <2> DEFINE cells == [i \in 0 .. line - 1 |->
                           IF i < sinfo.size THEN sinfo.lines[i] ELSE initial]
    <2>1. cells \in [0 .. line - 1 -> Values]
      BY <1>1, LineAssumption DEF Lines
    <2>2. IsInfo([size |-> line, lines |-> cells], Values)
      BY <2>1, InfoFromFields
    <2>3. Expand(sinfo, line, initial) = [size |-> line, lines |-> cells]
      BY <1>2 DEF Expand
    <2>4. QED
      BY <1>2, <2>2, <2>3
  <1>3. CASE ~(sinfo.size < line)
    BY <1>1, <1>3 DEF Expand, Lines
  <1>4. QED
    BY <1>2, <1>3

\* Growing one entry of a table.
LEMMA ExpandEntryTable ==
  ASSUME NEW Values, NEW table, IsTable(table, Values), NEW f \in Files,
         IsInfo(table[f], Values), NEW line \in Lines, NEW initial \in Values
  PROVE  LET grown == ExpandEntry(table, f, line, initial)
         IN /\ IsTable(grown, Values)
            /\ grown[f] = Expand(table[f], line, initial)
            /\ \A g \in Files \ {f} : grown[g] = table[g]
  BY ExpandInfo DEF IsTable, ExpandEntry

\* What a measurement makes of a table before it looks at any cell: an entry
\* that reaches the line, its old cells kept, the new ones initialised.
Grown(old, new, Values, f, line, initial) ==
  /\ IsTable(new, Values)
  /\ IsInfo(new[f], Values)
  /\ new[f] # Qnil
  /\ line <= new[f].size
  /\ SizeOf(old[f]) <= new[f].size
  /\ \A g \in Files \ {f} : new[g] = old[g]
  /\ \A i \in 0 .. new[f].size - 1 : new[f].lines[i] =
       IF i < SizeOf(old[f]) THEN old[f].lines[i] ELSE initial

\* sinfo_find_*_force followed by sinfo_expand_*.
LEMMA GrownTable ==
  ASSUME NEW Values, Values \subseteq Int, NEW table, IsTable(table, Values),
         NEW f \in Files, NEW line \in Lines, NEW initial \in Values
  PROVE  Grown(table, ExpandEntry(FindForce(table, f), f, line, initial),
               Values, f, line, initial)
  <1> DEFINE found == FindForce(table, f)
             grown == ExpandEntry(found, f, line, initial)
  <1>1. /\ IsTable(found, Values)
        /\ IsInfo(found[f], Values)
        /\ found[f].size = SizeOf(table[f])
        /\ table[f] # Qnil => found[f] = table[f]
        /\ \A g \in Files \ {f} : found[g] = table[g]
    BY FindForceTable DEF SizeOf
  <1>2. /\ IsTable(grown, Values)
        /\ grown[f] = Expand(found[f], line, initial)
        /\ \A g \in Files \ {f} : grown[g] = found[g]
    BY <1>1, ExpandEntryTable
  <1>3. /\ IsInfo(grown[f], Values)
        /\ grown[f].size = IF found[f].size < line THEN line ELSE found[f].size
        /\ \A i \in 0 .. grown[f].size - 1 : grown[f].lines[i] =
             IF i < found[f].size THEN found[f].lines[i] ELSE initial
    BY <1>1, <1>2, ExpandInfo
  <1>4. found[f].size \in Lines
    BY <1>1, InfoFields
  <1>5. line <= grown[f].size /\ found[f].size <= grown[f].size
    BY <1>3, <1>4 DEF Lines
  <1>6. \A i \in 0 .. grown[f].size - 1 : grown[f].lines[i] =
             IF i < SizeOf(table[f]) THEN table[f].lines[i] ELSE initial
    <2>1. CASE table[f] = Qnil
      BY <2>1, <1>1, <1>3 DEF SizeOf
    <2>2. CASE table[f] # Qnil
      BY <2>2, <1>1, <1>3 DEF SizeOf
    <2>3. QED
      BY <2>1, <2>2
  <1>7. grown[f] # Qnil
    BY <1>3, InfoNotNil
  <1> HIDE DEF found, grown
  <1>8. QED
    BY <1>1, <1>2, <1>3, <1>5, <1>6, <1>7 DEF found, grown, Grown

\* Writing the cells of one entry.
LEMMA SetLines ==
  ASSUME NEW Values, NEW table, IsTable(table, Values), NEW f \in Files,
         IsInfo(table[f], Values), NEW cells \in [0 .. table[f].size - 1 -> Values]
  PROVE  LET set == [table EXCEPT ![f].lines = cells]
         IN /\ IsTable(set, Values)
            /\ IsInfo(set[f], Values)
            /\ set[f].size = table[f].size
            /\ set[f].lines = cells
            /\ \A g \in Files \ {f} : set[g] = table[g]
  <1> DEFINE set == [table EXCEPT ![f].lines = cells]
  <1>1. table[f] = [size |-> table[f].size, lines |-> table[f].lines]
        /\ table[f].size \in Lines
    BY InfoFields
  <1>2. set[f] = [size |-> table[f].size, lines |-> cells]
    BY <1>1 DEF IsTable
  <1>3. IsInfo(set[f], Values)
    BY <1>1, <1>2, InfoFromFields
  <1>4. QED
    BY <1>2, <1>3 DEF IsTable

\* Unsigned arithmetic stays below TimeMod.
LEMMA ChargeType ==
  ASSUME NEW score \in Int, NEW t \in Int, NEW s \in Int
  PROVE  Charge(score, t, s) \in 0 .. TimeMod - 1
  <1>1. TimeMod \in Nat \ {0}
    BY TimeAssumption
  <1>2. \A a \in Int : a % TimeMod \in 0 .. TimeMod - 1
    BY <1>1
  <1>3. QED
    BY <1>2 DEF Charge

-----------------------------------------------------------------------------
(* The inductive invariant.                                                *)

IInv == TypeOK /\ CachedPrevIsScored /\ OnlyLineZeroFaults

\* The tables at the end of the allocations of one measurement.
LEMMA MeasuredTables ==
  ASSUME TypeOK, NEW th \in Threads, NEW f \in Files, NEW line \in Lines
  PROVE  LET sco == ScoringAfter(Allocations, f, line)
             pro == ProcessAfter(Allocations, th, f, line)
             pre == PrelineAfter(Allocations, f, line)
         IN /\ Grown(scoring, sco, 0 .. TimeMod - 1, f, line, 0)
            /\ Grown(process[th], pro, 0 .. MaxClock, f, line, NOVALUE)
            /\ Grown(preline, pre, NoPrev .. MaxLine - 1, f, line, NoPrev)
  <1>1. 0 .. TimeMod - 1 \subseteq Int /\ 0 \in 0 .. TimeMod - 1
    BY TimeAssumption
  <1>2. 0 .. MaxClock \subseteq Int /\ NOVALUE \in 0 .. MaxClock
    BY TimeAssumption DEF NOVALUE
  <1>3. NoPrev .. MaxLine - 1 \subseteq Int /\ NoPrev \in NoPrev .. MaxLine - 1
    BY LineAssumption DEF NoPrev
  <1>4. ScoringAfter(Allocations, f, line)
          = ExpandEntry(FindForce(scoring, f), f, line, 0)
    BY DEF ScoringAfter, Allocations
  <1>5. ProcessAfter(Allocations, th, f, line)
          = ExpandEntry(FindForce(process[th], f), f, line, NOVALUE)
    BY DEF ProcessAfter, Allocations
  <1>6. PrelineAfter(Allocations, f, line)
          = ExpandEntry(FindForce(preline, f), f, line, NoPrev)
    BY DEF PrelineAfter, Allocations
  <1> HIDE DEF NoPrev, NOVALUE
  <1>7. /\ IsTable(scoring, 0 .. TimeMod - 1)
        /\ IsTable(process[th], 0 .. MaxClock)
        /\ IsTable(preline, NoPrev .. MaxLine - 1)
    BY DEF TypeOK
  <1>8. QED
    BY <1>1, <1>2, <1>3, <1>4, <1>5, <1>6, <1>7, GrownTable

\* An index of a line that the tables reach, and the line before it: the
\* cached one is earlier and scored by the invariant, the one a search finds
\* is earlier because the search goes down.
LEMMA PreviousIsEarlier ==
  ASSUME TypeOK, CachedPrevIsScored,
         NEW th \in Threads, NEW f \in Files, NEW line \in Lines \ {0}
  PROVE  LET sco  == ScoringAfter(Allocations, f, line)
             pro  == ProcessAfter(Allocations, th, f, line)
             pre  == PrelineAfter(Allocations, f, line)
             cidx == line2idx(line)
         IN /\ cidx \in 0 .. MaxLine - 1
            /\ InBounds(sco[f], cidx) /\ InBounds(pro[f], cidx) /\ InBounds(pre[f], cidx)
            /\ \A pidx \in Previous(pre[f].lines[cidx], pro[f].lines, cidx) :
                 pidx \in 0 .. cidx - 1
  <1> DEFINE sco  == ScoringAfter(Allocations, f, line)
             pro  == ProcessAfter(Allocations, th, f, line)
             pre  == PrelineAfter(Allocations, f, line)
             cidx == line2idx(line)
  <1>1. /\ sco[f].size \in Lines /\ pro[f].size \in Lines /\ pre[f].size \in Lines
        /\ pre[f].lines \in [0 .. pre[f].size - 1 -> NoPrev .. MaxLine - 1]
    BY MeasuredTables, InfoFields DEF Grown
  <1>2. /\ cidx \in 0 .. MaxLine - 1
        /\ InBounds(sco[f], cidx) /\ InBounds(pro[f], cidx) /\ InBounds(pre[f], cidx)
    BY <1>1, MeasuredTables, LineAssumption DEF line2idx, Lines, InBounds, Grown
  <1>3. ASSUME NEW pidx \in Previous(pre[f].lines[cidx], pro[f].lines, cidx)
        PROVE  pidx \in 0 .. cidx - 1
    <2>1. CASE pre[f].lines[cidx] >= 0
      <3> pre[f].lines[cidx] \in NoPrev .. MaxLine - 1
        BY <1>1, <1>2 DEF InBounds
      <3>1. pidx = pre[f].lines[cidx] /\ pidx \in Int
        BY <2>1, <1>3 DEF Previous, NoPrev
      <3>2. cidx < SizeOf(preline[f]) /\ pidx = preline[f].lines[cidx]
        BY <3>1, <1>1, <1>2, <2>1, MeasuredTables DEF InBounds, NoPrev, Grown
      <3>3. preline[f] # Qnil /\ cidx \in 0 .. preline[f].size - 1
        <4>1. preline[f] # Qnil
          BY <3>2, <1>2 DEF SizeOf
        <4>2. IsInfo(preline[f], NoPrev .. MaxLine - 1)
          BY <4>1 DEF TypeOK, IsTable
        <4>3. preline[f].size \in Lines
          BY <4>2, InfoFields
        <4>4. QED
          BY <4>1, <4>3, <3>2, <1>2 DEF SizeOf, Lines
      <3>4. QED
        BY <3>1, <3>2, <3>3, <2>1 DEF CachedPrevIsScored
    <2>2. CASE ~(pre[f].lines[cidx] >= 0)
      BY <2>2, <1>3 DEF Previous
    <2>3. QED
      BY <2>1, <2>2
  <1>4. QED
    BY <1>2, <1>3

\* A thread that writes its own table leaves every table well formed.
LEMMA SetThreadTable ==
  ASSUME TypeOK, NEW th \in Threads, NEW table, IsTable(table, 0 .. MaxClock)
  PROVE  LET after == [process EXCEPT ![th] = table]
         IN /\ after = [u \in Threads |-> after[u]]
            /\ \A u \in Threads : IsTable(after[u], 0 .. MaxClock)
            /\ after[th] = table
            /\ \A u \in Threads \ {th} : after[u] = process[u]
  BY DEF TypeOK

\* A complete measurement.
LEMMA MeasureStep ==
  ASSUME TypeOK, CachedPrevIsScored,
         NEW th \in Threads, NEW f \in Files, NEW line \in Lines,
         sinfo_measure(th, f, line)
  PROVE  TypeOK' /\ CachedPrevIsScored' /\ fault' = fault
  <1> DEFINE sco  == ScoringAfter(Allocations, f, line)
             pro  == ProcessAfter(Allocations, th, f, line)
             pre  == PrelineAfter(Allocations, f, line)
             cidx == line2idx(line)
             prev == Previous(pre[f].lines[cidx], pro[f].lines, cidx)
             values == 0 .. TimeMod - 1
             starts == 0 .. MaxClock
             prevs  == NoPrev .. MaxLine - 1
  <1>1. line \in Lines \ {0}
    BY DEF sinfo_measure, AccessesFit, InBounds, line2idx, Lines
  <1>2. /\ Grown(scoring, sco, values, f, line, 0)
        /\ Grown(process[th], pro, starts, f, line, NOVALUE)
        /\ Grown(preline, pre, prevs, f, line, NoPrev)
    BY MeasuredTables
  <1>3. /\ cidx \in 0 .. MaxLine - 1
        /\ cidx \in 0 .. sco[f].size - 1
        /\ cidx \in 0 .. pro[f].size - 1
        /\ cidx \in 0 .. pre[f].size - 1
        /\ \A pidx \in prev : pidx \in 0 .. cidx - 1
    BY <1>1, PreviousIsEarlier DEF InBounds
  <1>4. /\ sco[f].size \in Lines /\ sco[f].lines \in [0 .. sco[f].size - 1 -> values]
        /\ pro[f].size \in Lines /\ pro[f].lines \in [0 .. pro[f].size - 1 -> starts]
        /\ pre[f].size \in Lines /\ pre[f].lines \in [0 .. pre[f].size - 1 -> prevs]
    BY <1>2, InfoFields DEF Grown
  <1>5. /\ clock \in starts /\ clock \in Nat
        /\ clock' = clock /\ fault' = fault /\ stepped' = stepped
    BY TimeAssumption DEF TypeOK, sinfo_measure
  <1>6. NOVALUE \in starts
    BY TimeAssumption DEF NOVALUE
  \* The cached previous lines of this and of every other file.
  <1>7. ASSUME NEW pc, NEW sc, IsTable(pc, prevs), IsTable(sc, values),
               IsInfo(sc[f], values), pc[f] # Qnil,
               pc[f].size = pre[f].size, sc[f].size = sco[f].size,
               \A i \in 0 .. pre[f].size - 1 :
                 \/ pc[f].lines[i] = pre[f].lines[i]
                 \/ i = cidx /\ pc[f].lines[i] \in 0 .. cidx - 1,
               \A g \in Files \ {f} : pc[g] = preline[g] /\ sc[g] = scoring[g],
               scoring' = sc, preline' = pc
        PROVE  CachedPrevIsScored'
    <2> SUFFICES ASSUME NEW g \in Files, preline'[g] # Qnil,
                        NEW i \in 0 .. preline'[g].size - 1,
                        preline'[g].lines[i] >= 0
                 PROVE  /\ preline'[g].lines[i] < i
                        /\ scoring'[g] # Qnil
                        /\ InBounds(scoring'[g], preline'[g].lines[i])
      BY DEF CachedPrevIsScored, InBounds
    <2>1. CASE g # f
      BY <2>1, <1>7 DEF CachedPrevIsScored
    <2>2. CASE g = f
      <3>1. scoring'[f] # Qnil
        BY <1>7, TimeAssumption, InfoNotNil
      <3>2. i \in Int /\ i \in 0 .. pre[f].size - 1
        BY <2>2, <1>7, <1>4 DEF Lines
      <3>3. CASE pc[f].lines[i] = pre[f].lines[i]
        <4> DEFINE p == pre[f].lines[i]
        <4>1. p \in prevs /\ p \in Int /\ p >= 0
          <5>1. p \in prevs
            BY <3>2, <1>4
          <5>2. p >= 0
            BY <3>3, <2>2, <1>7
          <5>3. QED
            BY <5>1, <5>2 DEF NoPrev
        <4>2. i < SizeOf(preline[f]) /\ p = preline[f].lines[i]
          BY <4>1, <3>2, <1>2 DEF Grown, NoPrev
        <4>3. preline[f] # Qnil
          BY <4>2, <3>2 DEF SizeOf
        <4>4. IsInfo(preline[f], prevs) /\ preline[f].size \in Lines
          BY <4>3, InfoFields DEF TypeOK, IsTable
        <4>5. i \in 0 .. preline[f].size - 1
          BY <4>2, <4>3, <4>4, <3>2 DEF SizeOf, Lines
        <4>6. p < i /\ scoring[f] # Qnil /\ InBounds(scoring[f], p)
          BY <4>1, <4>2, <4>3, <4>5 DEF CachedPrevIsScored
        <4>7. IsInfo(scoring[f], values) /\ scoring[f].size \in Lines
          BY <4>6, InfoFields DEF TypeOK, IsTable
        <4>8. InBounds(sco[f], p)
          <5>1. SizeOf(scoring[f]) <= sco[f].size /\ sco[f].size \in Lines
            BY <1>2, <1>4 DEF Grown
          <5>2. SizeOf(scoring[f]) = scoring[f].size
            BY <4>6 DEF SizeOf
          <5>3. QED
            BY <4>1, <4>6, <4>7, <5>1, <5>2 DEF InBounds, Lines
        <4>9. QED
          BY <2>2, <3>1, <3>3, <4>6, <4>8, <1>7 DEF InBounds
      <3>4. CASE i = cidx /\ pc[f].lines[i] \in 0 .. cidx - 1
        <4> DEFINE p == pc[f].lines[i]
        <4>1. p \in 0 .. i - 1 /\ i \in 0 .. sco[f].size - 1 /\ sco[f].size \in Lines
          BY <3>4, <1>3, <1>4
        <4>2. p < i /\ p \in 0 .. sco[f].size - 1
          BY <4>1 DEF Lines
        <4>3. preline'[g].lines[i] = p /\ scoring'[g].size = sco[f].size
          BY <2>2, <1>7
        <4> HIDE DEF p
        <4>4. QED
          BY <2>2, <3>1, <4>2, <4>3 DEF InBounds
      <3>5. QED
        BY <2>2, <3>2, <3>3, <3>4, <1>7
    <2>3. QED
      BY <2>1, <2>2
  <1> HIDE DEF sco, pro, pre, prev, values, starts, prevs, cidx
  <1>8. CASE prev = {} /\ scoring' = sco /\ preline' = pre
             /\ process' = [process EXCEPT ![th] = [pro EXCEPT ![f].lines[cidx] = clock]]
    <2> DEFINE cells == [pro[f].lines EXCEPT ![cidx] = clock]
               table == [pro EXCEPT ![f].lines = cells]
    <2>1. cells \in [0 .. pro[f].size - 1 -> starts]
      BY <1>3, <1>4, <1>5
    <2>2. IsTable(table, starts)
      BY <2>1, <1>2, SetLines DEF Grown
    <2>3. [pro EXCEPT ![f].lines[cidx] = clock] = table
      BY <1>2 DEF Grown, IsTable
    <2> HIDE DEF cells, table
    <2>4. TypeOK'
      BY <2>2, <2>3, <1>2, <1>5, <1>8, SetThreadTable
         DEF TypeOK, Grown, values, starts, prevs
    <2>5. CachedPrevIsScored'
      BY <1>2, <1>7, <1>8 DEF Grown
    <2>6. QED
      BY <2>4, <2>5, <1>5
  <1>9. ASSUME NEW pidx \in prev,
               preline' = [pre EXCEPT ![f].lines[cidx] = pidx],
               scoring' = IF has_value(pro[f].lines[pidx])
                          THEN [sco EXCEPT ![f].lines[pidx] =
                                  Charge(@, clock, pro[f].lines[pidx])]
                          ELSE sco,
               process' = [process EXCEPT ![th] =
                 [pro EXCEPT ![f].lines = Restart(@, cidx, pidx, clock)]]
        PROVE  TypeOK' /\ CachedPrevIsScored'
    <2>1. /\ pidx \in 0 .. cidx - 1 /\ pidx \in Int /\ cidx \in Int
          /\ pidx \in 0 .. sco[f].size - 1 /\ pidx \in 0 .. pro[f].size - 1
          /\ pidx \in prevs
      <3>1. pidx \in 0 .. cidx - 1
        BY <1>3
      <3>2. pidx \in Int /\ cidx \in Int /\ 0 <= pidx /\ pidx < cidx
        BY <3>1, <1>3
      <3>3. cidx < sco[f].size /\ cidx < pro[f].size /\ cidx <= MaxLine - 1
        BY <3>2, <1>3, <1>4, LineAssumption DEF Lines
      <3>4. sco[f].size \in Int /\ pro[f].size \in Int
        BY <1>4 DEF Lines
      <3>5. pidx \in 0 .. sco[f].size - 1
        BY <3>2, <3>3, <3>4
      <3>6. pidx \in 0 .. pro[f].size - 1
        BY <3>2, <3>3, <3>4
      <3>7. pidx \in prevs
        BY <3>2, <3>3, LineAssumption DEF prevs, NoPrev
      <3>8. QED
        BY <3>1, <3>2, <3>5, <3>6, <3>7
    <2> DEFINE cells == Restart(pro[f].lines, cidx, pidx, clock)
               table == [pro EXCEPT ![f].lines = cells]
               pcells == [pre[f].lines EXCEPT ![cidx] = pidx]
               ptable == [pre EXCEPT ![f].lines = pcells]
               charge == Charge(sco[f].lines[pidx], clock, pro[f].lines[pidx])
               scells == [sco[f].lines EXCEPT ![pidx] = charge]
               stable == [sco EXCEPT ![f].lines = scells]
    <2>2. cells \in [0 .. pro[f].size - 1 -> starts]
      BY <1>3, <1>4, <1>5, <1>6, <2>1 DEF Restart
    <2>3. IsTable(table, starts)
      BY <2>2, <1>2, SetLines DEF Grown
    <2>4. [pro EXCEPT ![f].lines = Restart(@, cidx, pidx, clock)] = table
      BY <1>2 DEF Grown, IsTable
    <2>5. pcells \in [0 .. pre[f].size - 1 -> prevs]
      BY <1>3, <1>4, <2>1
    <2> HIDE DEF pcells
    <2>6. /\ IsTable(ptable, prevs) /\ IsInfo(ptable[f], prevs)
          /\ ptable[f].size = pre[f].size /\ ptable[f].lines = pcells
          /\ \A g \in Files \ {f} : ptable[g] = preline[g]
      BY <2>5, <1>2, SetLines DEF Grown
    <2>7. preline' = ptable
      BY <1>2, <1>9 DEF Grown, IsTable, pcells
    <2>8. ptable[f] # Qnil
      <3>1. prevs \subseteq Int
        BY LineAssumption DEF prevs, NoPrev
      <3>2. QED
        BY <2>6, <3>1, InfoNotNil
    <2>9. \A i \in 0 .. pre[f].size - 1 :
            \/ ptable[f].lines[i] = pre[f].lines[i]
            \/ i = cidx /\ ptable[f].lines[i] \in 0 .. cidx - 1
      BY <1>3, <1>4, <2>1, <2>6 DEF pcells
    <2>10. charge \in values
      <3>1. sco[f].lines[pidx] \in values /\ pro[f].lines[pidx] \in starts
        BY <1>4, <2>1
      <3>2. sco[f].lines[pidx] \in Int /\ pro[f].lines[pidx] \in Int
        BY <3>1 DEF values, starts
      <3>3. clock \in Int
        BY <1>5
      <3>4. charge \in 0 .. TimeMod - 1
        BY <3>2, <3>3, ChargeType
      <3>5. QED
        BY <3>4 DEF values
    <2> HIDE DEF charge
    <2>11. scells \in [0 .. sco[f].size - 1 -> values]
      BY <1>4, <2>1, <2>10
    <2> HIDE DEF scells
    <2>12. /\ IsTable(stable, values) /\ IsInfo(stable[f], values)
           /\ stable[f].size = sco[f].size
           /\ \A g \in Files \ {f} : stable[g] = scoring[g]
      BY <2>11, <1>2, SetLines DEF Grown
    <2>13. scoring' = stable \/ scoring' = sco
      BY <1>2, <1>9 DEF Grown, IsTable, charge, scells
    <2>14. /\ IsTable(scoring', values) /\ IsInfo(scoring'[f], values)
           /\ scoring'[f].size = sco[f].size
           /\ \A g \in Files \ {f} : scoring'[g] = scoring[g]
      BY <2>12, <2>13, <1>2 DEF Grown
    <2> HIDE DEF cells, table, ptable, stable
    <2>15. TypeOK'
      BY <2>3, <2>4, <2>6, <2>7, <2>14, <1>5, <1>9, SetThreadTable
         DEF TypeOK, values, starts, prevs
    <2>16. CachedPrevIsScored'
      BY <2>6, <2>7, <2>8, <2>9, <2>14, <1>7
    <2>17. QED
      BY <2>15, <2>16
  <1>10. QED
    BY <1>5, <1>8, <1>9 DEF sinfo_measure, sco, pro, pre, prev, cidx

\* An access leaves its array only for an event of line 0.
LEMMA OutOfBoundsStep ==
  ASSUME IInv, NEW th \in Threads, NEW f \in Files, NEW line \in Lines,
         OutOfBounds(th, f, line)
  PROVE  IInv'
  <1> DEFINE sco  == ScoringAfter(Allocations, f, line)
             pro  == ProcessAfter(Allocations, th, f, line)
             pre  == PrelineAfter(Allocations, f, line)
             cidx == line2idx(line)
  <1>1. line = 0
    <2> SUFFICES ASSUME line # 0 PROVE FALSE
      OBVIOUS
    <2>1. /\ cidx \in 0 .. MaxLine - 1
          /\ InBounds(sco[f], cidx) /\ InBounds(pro[f], cidx) /\ InBounds(pre[f], cidx)
          /\ \A pidx \in Previous(pre[f].lines[cidx], pro[f].lines, cidx) :
               pidx \in 0 .. cidx - 1
      BY PreviousIsEarlier DEF IInv
    <2>2. sco[f].size \in Lines /\ pro[f].size \in Lines
      BY MeasuredTables, InfoFields DEF IInv, Grown
    <2>3. \A pidx \in Previous(pre[f].lines[cidx], pro[f].lines, cidx) :
            InBounds(pro[f], pidx) /\ InBounds(sco[f], pidx)
      BY <2>1, <2>2 DEF InBounds, Lines
    <2>4. QED
      BY <2>1, <2>3 DEF OutOfBounds, AccessesFit
  <1>2. fault' \in Faults /\ fault'.line = 0
    BY <1>1 DEF OutOfBounds, Faults
  <1>3. TypeOK' /\ CachedPrevIsScored'
    BY <1>2 DEF IInv, TypeOK, CachedPrevIsScored, InBounds, OutOfBounds
  <1>4. QED
    BY <1>2, <1>3 DEF IInv, OnlyLineZeroFaults

\* No allocation loses an entry or shortens an array.
Keeps(old, new) ==
  \A g \in Files : old[g] # Qnil => new[g] # Qnil /\ old[g].size <= new[g].size

\* The tables part of the way through a measurement.
LEMMA TablesMidway ==
  ASSUME TypeOK, NEW th \in Threads, NEW f \in Files, NEW line \in Lines,
         NEW k \in 0 .. Allocations - 1
  PROVE  /\ IsTable(ScoringAfter(k, f, line), 0 .. TimeMod - 1)
         /\ Keeps(scoring, ScoringAfter(k, f, line))
         /\ IsTable(ProcessAfter(k, th, f, line), 0 .. MaxClock)
         /\ IsTable(PrelineAfter(k, f, line), NoPrev .. MaxLine - 1)
         /\ \A g \in Files : \/ PrelineAfter(k, f, line)[g] = preline[g]
                             \/ PrelineAfter(k, f, line)[g] = sinfo_s_alloc
  <1> DEFINE values == 0 .. TimeMod - 1
             starts == 0 .. MaxClock
             prevs  == NoPrev .. MaxLine - 1
  <1>1. /\ values \subseteq Int /\ 0 \in values
        /\ starts \subseteq Int /\ NOVALUE \in starts
        /\ prevs \subseteq Int
    BY TimeAssumption, LineAssumption DEF NOVALUE, NoPrev
  <1>2. /\ IsTable(scoring, values)
        /\ IsTable(process[th], starts)
        /\ IsTable(preline, prevs)
    BY DEF TypeOK
  <1>3. \A g \in Files : scoring[g] # Qnil => scoring[g].size \in Int
    <2> SUFFICES ASSUME NEW g \in Files, scoring[g] # Qnil
                 PROVE  scoring[g].size \in Int
      OBVIOUS
    <2>1. scoring[g].size \in Lines
      BY <1>2, InfoFields DEF IsTable
    <2>2. QED
      BY <2>1 DEF Lines
  <1> HIDE DEF values, starts, prevs
  <1>4. /\ IsTable(FindForce(scoring, f), values)
        /\ Keeps(scoring, FindForce(scoring, f))
    <2>1. IsTable(FindForce(scoring, f), values)
      BY <1>2, FindForceTable
    <2>2. Keeps(scoring, FindForce(scoring, f))
      BY <1>2, <1>3, FindForceTable DEF Keeps
    <2>3. QED
      BY <2>1, <2>2
  <1>5. /\ IsTable(ExpandEntry(FindForce(scoring, f), f, line, 0), values)
        /\ Keeps(scoring, ExpandEntry(FindForce(scoring, f), f, line, 0))
    <2> DEFINE grown == ExpandEntry(FindForce(scoring, f), f, line, 0)
    <2>1. Grown(scoring, grown, values, f, line, 0)
      BY <1>1, <1>2, GrownTable
    <2> HIDE DEF grown
    <2>2. Keeps(scoring, grown)
      BY <2>1, <1>3 DEF Grown, Keeps, SizeOf
    <2>3. QED
      BY <2>1, <2>2 DEF Grown, grown
  <1>6. Keeps(scoring, scoring)
    BY <1>3 DEF Keeps
  <1>7. /\ IsTable(FindForce(process[th], f), starts)
        /\ IsTable(ExpandEntry(FindForce(process[th], f), f, line, NOVALUE), starts)
    BY <1>1, <1>2, FindForceTable, GrownTable DEF Grown
  <1>8. /\ IsTable(FindForce(preline, f), prevs)
        /\ \A g \in Files : \/ FindForce(preline, f)[g] = preline[g]
                            \/ FindForce(preline, f)[g] = sinfo_s_alloc
    <2>1. IsTable(FindForce(preline, f), prevs)
      BY <1>2, FindForceTable
    <2>2. QED
      BY <2>1, <1>2 DEF FindForce, IsTable
  <1>9. k < 6
    BY DEF Allocations
  <1>10. QED
    BY <1>2, <1>4, <1>5, <1>6, <1>7, <1>8, <1>9
       DEF ScoringAfter, ProcessAfter, PrelineAfter, values, starts, prevs

\* A measurement cut short by NoMemoryError.
LEMMA MeasureFailsStep ==
  ASSUME TypeOK, CachedPrevIsScored,
         NEW th \in Threads, NEW f \in Files, NEW line \in Lines,
         NEW k \in 0 .. Allocations - 1, MeasureFails(th, f, line, k)
  PROVE  TypeOK' /\ CachedPrevIsScored' /\ fault' = fault
  <1>1. TypeOK'
    BY TablesMidway, SetThreadTable DEF TypeOK, MeasureFails
  <1>2. CachedPrevIsScored'
    <2> SUFFICES ASSUME NEW g \in Files, preline'[g] # Qnil,
                        NEW i \in 0 .. preline'[g].size - 1,
                        preline'[g].lines[i] >= 0
                 PROVE  /\ preline'[g].lines[i] < i
                        /\ scoring'[g] # Qnil
                        /\ InBounds(scoring'[g], preline'[g].lines[i])
      BY DEF CachedPrevIsScored, InBounds
    <2>1. preline'[g] = preline[g]
      <3>1. preline'[g] = preline[g] \/ preline'[g] = sinfo_s_alloc
        BY TablesMidway DEF MeasureFails
      <3>2. sinfo_s_alloc.size = 0
        BY DEF sinfo_s_alloc
      <3>3. QED
        BY <3>1, <3>2
    <2>2. /\ preline[g].lines[i] < i
          /\ scoring[g] # Qnil
          /\ InBounds(scoring[g], preline[g].lines[i])
      BY <2>1 DEF CachedPrevIsScored
    <2>3. scoring'[g] # Qnil /\ scoring[g].size <= scoring'[g].size
      BY <2>2, TablesMidway DEF MeasureFails, Keeps
    <2>4. scoring[g].size \in Lines /\ scoring'[g].size \in Lines
      BY <2>2, <2>3, <1>1, InfoFields DEF TypeOK, IsTable
    <2>5. QED
      BY <2>1, <2>2, <2>3, <2>4 DEF InBounds, Lines
  <1>3. QED
    BY <1>1, <1>2 DEF MeasureFails

-----------------------------------------------------------------------------
(* The theorems.                                                           *)

LEMMA InitInvariant == Init => IInv
  <1> SUFFICES ASSUME Init PROVE IInv
    OBVIOUS
  <1>1. \A Values : IsTable(NoEntries, Values)
    BY DEF IsTable, NoEntries
  <1>2. TypeOK
    <2>1. /\ IsTable(scoring, 0 .. TimeMod - 1)
          /\ IsTable(preline, NoPrev .. MaxLine - 1)
      BY <1>1 DEF Init
    <2>2. process = [th \in Threads |-> process[th]]
      BY DEF Init
    <2>3. \A th \in Threads : IsTable(process[th], 0 .. MaxClock)
      BY <1>1 DEF Init
    <2>4. clock \in 1 .. MaxClock
      BY TimeAssumption DEF Init
    <2>5. stepped \in BOOLEAN /\ fault \in Faults \union {Qnil}
      BY DEF Init
    <2>6. QED
      BY <2>1, <2>2, <2>3, <2>4, <2>5 DEF TypeOK
  <1>3. CachedPrevIsScored
    BY DEF Init, CachedPrevIsScored, NoEntries
  <1>4. QED
    BY <1>2, <1>3 DEF Init, IInv, OnlyLineZeroFaults

LEMMA NextInvariant == IInv /\ [Next]_vars => IInv'
  <1> SUFFICES ASSUME IInv, [Next]_vars PROVE IInv'
    OBVIOUS
  <1> USE DEF IInv
  <1>1. ASSUME NEW th \in Threads, sinfo_container_free(th)
        PROVE  IInv'
    <2>1. IsTable(NoEntries, 0 .. MaxClock)
      BY DEF IsTable, NoEntries
    <2>2. TypeOK'
      BY <1>1, <2>1, SetThreadTable DEF TypeOK, sinfo_container_free
    <2>3. QED
      BY <1>1, <2>2 DEF sinfo_container_free, CachedPrevIsScored,
                        InBounds, OnlyLineZeroFaults
  <1>2. ASSUME NEW th \in Threads, NEW f \in Files, NEW line \in Lines,
               sinfo_measure(th, f, line)
        PROVE  IInv'
    BY <1>2, MeasureStep DEF OnlyLineZeroFaults
  <1>3. ASSUME NEW th \in Threads, NEW f \in Files, NEW line \in Lines,
               OutOfBounds(th, f, line)
        PROVE  IInv'
    BY <1>3, OutOfBoundsStep
  <1>4. ASSUME NEW th \in Threads, NEW f \in Files, NEW line \in Lines,
               NEW k \in 0 .. Allocations - 1, MeasureFails(th, f, line, k)
        PROVE  IInv'
    BY <1>4, MeasureFailsStep DEF OnlyLineZeroFaults
  <1>5. CASE Tick \/ StepBack
    <2>1. clock' \in 1 .. MaxClock
      BY <1>5, TimeAssumption DEF Tick, StepBack, TypeOK
    <2>2. QED
      BY <1>5, <2>1 DEF Tick, StepBack, TypeOK, CachedPrevIsScored,
                        InBounds, OnlyLineZeroFaults
  <1>6. CASE UNCHANGED vars
    BY <1>6 DEF vars, TypeOK, CachedPrevIsScored, InBounds, OnlyLineZeroFaults
  <1>7. QED
    BY <1>1, <1>2, <1>3, <1>4, <1>5, <1>6 DEF Next

THEOREM Invariance == Spec => []IInv
  BY InitInvariant, NextInvariant, PTL DEF Spec

\* The tables always hold arrays of exactly their recorded size.
THEOREM TypeCorrect == Spec => []TypeOK
  <1>1. IInv => TypeOK
    BY DEF IInv
  <1>2. QED
    BY <1>1, Invariance, PTL

\* The shared cache of previous lines only names earlier, scored lines.
THEOREM CacheIsSafe == Spec => []CachedPrevIsScored
  <1>1. IInv => CachedPrevIsScored
    BY DEF IInv
  <1>2. QED
    BY <1>1, Invariance, PTL

\* Memory safety: whatever the threads do and wherever an allocation fails,
\* only an event of line 0 makes sinfo_measure leave an array.
THEOREM MemorySafe == Spec => []OnlyLineZeroFaults
  <1>1. IInv => OnlyLineZeroFaults
    BY DEF IInv
  <1>2. QED
    BY <1>1, Invariance, PTL

-----------------------------------------------------------------------------
(* What the tables show.                                                   *)

Index == 0 .. MaxLine - 1

\* What a table shows, and what they all do.
Shown(table) == [f \in Files |-> [i \in Index |-> CellOf(table[f], i)]]
running == [th \in Threads |-> [f \in Files |-> [i \in Index |-> StartOf(th, f, i)]]]
total == [f \in Files |-> [i \in Index |-> Score(f, i)]]

-----------------------------------------------------------------------------
(* The cells of tables.                                                    *)

SameCells(old, new) == \A g \in Files, i \in Index : CellOf(new[g], i) = CellOf(old[g], i)

\* An entry made or grown shows zeros where there was nothing.
LEMMA FoundCells ==
  ASSUME NEW Values, NEW table, IsTable(table, Values), NEW f \in Files
  PROVE  SameCells(table, FindForce(table, f))
<1> SUFFICES ASSUME NEW g \in Files, NEW i \in Index
             PROVE  CellOf(FindForce(table, f)[g], i) = CellOf(table[g], i)
  BY DEF SameCells
<1>1. CASE g # f \/ table[f] # Qnil
  BY <1>1, FindForceTable
<1>2. CASE g = f /\ table[f] = Qnil
  <2>1. FindForce(table, f)[f] = sinfo_s_alloc
    BY <1>2 DEF FindForce, IsTable
  <2> QED
    BY <1>2, <2>1, FreshInfo DEF CellOf, SizeOf, Index
<1> QED
  BY <1>1, <1>2

LEMMA GrownCells ==
  ASSUME NEW Values, NEW old, IsTable(old, Values), NEW new, NEW f \in Files, NEW line \in Lines,
         Grown(old, new, Values, f, line, 0)
  PROVE  SameCells(old, new)
<1> SUFFICES ASSUME NEW g \in Files, NEW i \in Index
             PROVE  CellOf(new[g], i) = CellOf(old[g], i)
  BY DEF SameCells
<1>1. CASE g # f
  BY <1>1 DEF Grown
<1>2. CASE g = f
  <2>1. /\ new[f] # Qnil /\ new[f].size \in Lines
        /\ SizeOf(old[f]) <= new[f].size
        /\ \A j \in 0 .. new[f].size - 1 :
             new[f].lines[j] = IF j < SizeOf(old[f]) THEN old[f].lines[j] ELSE 0
    BY InfoFields DEF Grown
  <2>2. SizeOf(old[f]) \in Lines
    BY InfoFields, LineAssumption DEF IsTable, SizeOf, Lines
  <2>3. SizeOf(new[f]) = new[f].size
    BY <2>1 DEF SizeOf
  <2>4. CASE i < new[f].size
    <3>1. i \in 0 .. new[f].size - 1
      BY <2>1, <2>4 DEF Index, Lines
    <3> QED
      BY <1>2, <2>1, <2>3, <2>4, <3>1 DEF CellOf
  <2>5. CASE ~(i < new[f].size)
    <3>1. ~(i < SizeOf(old[f]))
      BY <2>1, <2>2, <2>5 DEF Index, Lines
    <3> QED
      BY <1>2, <2>3, <2>5, <3>1 DEF CellOf
  <2> QED
    BY <2>4, <2>5
<1> QED
  BY <1>1, <1>2

\* Writing cells, as operators that hide how: the lemma is cited for them as they stand.
WithLines(table, f, cells) == [table EXCEPT ![f].lines = cells]
AreCells(cells, n, Values) == cells \in [0 .. n - 1 -> Values]
At(cells, i) == cells[i]

\* An entry whose cells are written shows those.
LEMMA WrittenCells ==
  ASSUME NEW Values, Values \subseteq Int, NEW table, IsTable(table, Values),
         NEW f \in Files, IsInfo(table[f], Values),
         NEW cells, AreCells(cells, table[f].size, Values)
  PROVE  \A g \in Files, i \in Index :
           CellOf(WithLines(table, f, cells)[g], i) =
             IF g = f /\ i < table[f].size THEN At(cells, i) ELSE CellOf(table[g], i)
<1> SUFFICES ASSUME NEW g \in Files, NEW i \in Index
             PROVE  CellOf(WithLines(table, f, cells)[g], i) =
                      IF g = f /\ i < table[f].size THEN At(cells, i) ELSE CellOf(table[g], i)
  OBVIOUS
<1> DEFINE set == WithLines(table, f, cells)
<1>1. /\ IsTable(set, Values) /\ IsInfo(set[f], Values)
      /\ set[f].size = table[f].size /\ set[f].lines = cells
      /\ \A h \in Files \ {f} : set[h] = table[h]
  BY SetLines DEF WithLines, AreCells
<1>2. set[f] # Qnil /\ table[f] # Qnil
  BY <1>1, InfoNotNil
<1> HIDE DEF set
<1>3. CellOf(set[g], i) = IF g = f /\ i < table[f].size THEN At(cells, i) ELSE CellOf(table[g], i)
  <2>1. CASE g = f
    BY <1>1, <1>2, <2>1 DEF CellOf, SizeOf, At
  <2>2. CASE g # f
    BY <1>1, <2>2
  <2> QED
    BY <2>1, <2>2
<1> QED
  BY <1>3 DEF set

-----------------------------------------------------------------------------
(* A measurement.                                                          *)

\* Allocations show nothing, wherever they end.
LEMMA AllocationsShowNothing ==
  ASSUME TypeOK, NEW th \in Threads, NEW f \in Files, NEW line \in Lines,
         NEW k \in 0 .. Allocations
  PROVE  /\ SameCells(scoring, ScoringAfter(k, f, line))
         /\ SameCells(process[th], ProcessAfter(k, th, f, line))
<1> DEFINE values == 0 .. TimeMod - 1
           starts == 0 .. MaxClock
<1>1. IsTable(scoring, values) /\ IsTable(process[th], starts)
  BY DEF TypeOK
<1>2. Grown(scoring, ExpandEntry(FindForce(scoring, f), f, line, 0), values, f, line, 0)
  BY <1>1, TimeAssumption, GrownTable
<1>3. Grown(process[th], ExpandEntry(FindForce(process[th], f), f, line, 0), starts, f, line, 0)
  BY <1>1, TimeAssumption, GrownTable
<1> HIDE DEF values, starts
<1>4. \A table : SameCells(table, table)
  BY DEF SameCells
<1> QED
  BY <1>1, <1>2, <1>3, <1>4, FoundCells, GrownCells DEF ScoringAfter, ProcessAfter, NOVALUE

\* A thread that writes its own table changes its own stopwatches.
LEMMA RunningAfter ==
  ASSUME TypeOK, NEW th \in Threads, NEW table, process' = [process EXCEPT ![th] = table]
  PROVE  running' = [running EXCEPT ![th] = Shown(table)]
<1>1. process'[th] = table /\ \A u \in Threads \ {th} : process'[u] = process[u]
  BY DEF TypeOK
<1>2. \A u \in Threads : running[u] = Shown(process[u]) /\ running'[u] = Shown(process'[u])
  BY DEF running, StartOf, Shown
<1>3. running'[th] = Shown(table) /\ \A u \in Threads \ {th} : running'[u] = running[u]
  BY <1>1, <1>2
<1>4. running = [u \in Threads |-> running[u]] /\ running' = [u \in Threads |-> running'[u]]
  BY DEF running
<1> QED
  BY <1>3, <1>4

\* The line before, in terms of what the tables show.
PrevCell(f, i) == IF i < SizeOf(preline[f]) THEN preline[f].lines[i] ELSE NoPrev
PrevOf(th, f, i) == Previous(PrevCell(f, i), running[th][f], i)

\* What the measurement finds in its tables is what they showed before it grew them.
LEMMA PreviousIsShown ==
  ASSUME TypeOK, NEW th \in Threads, NEW f \in Files, NEW line \in Lines \ {0}
  PROVE  LET cidx == line2idx(line)
             pro  == ProcessAfter(Allocations, th, f, line)
             pre  == PrelineAfter(Allocations, f, line)
         IN Previous(pre[f].lines[cidx], pro[f].lines, cidx) = PrevOf(th, f, cidx)
<1> DEFINE cidx == line2idx(line)
           pro  == ProcessAfter(Allocations, th, f, line)
           pre  == PrelineAfter(Allocations, f, line)
<1>1. /\ Grown(process[th], pro, 0 .. MaxClock, f, line, NOVALUE)
      /\ Grown(preline, pre, NoPrev .. MaxLine - 1, f, line, NoPrev)
  BY MeasuredTables
<1>2. cidx \in Index /\ line \in Nat /\ line = cidx + 1
  BY LineAssumption DEF line2idx, Lines, Index
<1>3. pro[f].size \in Lines /\ pre[f].size \in Lines
  BY <1>1, InfoFields DEF Grown
<1>4. cidx \in 0 .. pre[f].size - 1 /\ \A i \in 0 .. cidx : i \in 0 .. pro[f].size - 1 /\ i \in Index
  <2>1. line <= pro[f].size /\ line <= pre[f].size
    BY <1>1 DEF Grown
  <2> HIDE DEF cidx, pro, pre
  <2> QED
    BY <1>2, <1>3, <2>1, LineAssumption DEF Lines, Index
<1>5. pre[f].lines[cidx] = PrevCell(f, cidx)
  BY <1>1, <1>4 DEF Grown, PrevCell
<1>6. \A i \in 0 .. cidx : pro[f].lines[i] = running[th][f][i]
  BY <1>1, <1>4 DEF Grown, running, StartOf, CellOf, NOVALUE
<1> HIDE DEF cidx, pro, pre, running
<1>7. Previous(pre[f].lines[cidx], pro[f].lines, cidx)
        = Previous(PrevCell(f, cidx), running[th][f], cidx)
  <2>1. \A i \in 0 .. cidx - 1 : i \in 0 .. cidx /\ \A j \in i + 1 .. cidx - 1 : j \in 0 .. cidx
    BY <1>2 DEF Index
  <2> QED
    BY <1>5, <1>6, <2>1 DEF Previous
<1> QED
  BY <1>7 DEF PrevOf, cidx, pro, pre

\* The stopwatches at the end of a measurement.
LEMMA MeasureShows ==
  ASSUME TypeOK, CachedPrevIsScored,
         NEW th \in Threads, NEW f \in Files, NEW line \in Lines,
         sinfo_measure(th, f, line)
  PROVE  LET cidx == line2idx(line)
         IN /\ cidx \in Index
            /\ \/ PrevOf(th, f, cidx) = {} /\ Timers!ReachFirstLine(th, f, cidx)
               \/ \E p \in PrevOf(th, f, cidx) :
                    p \in Index /\ Timers!ReachLine(th, f, cidx, p)
<1> DEFINE sco  == ScoringAfter(Allocations, f, line)
           pro  == ProcessAfter(Allocations, th, f, line)
           pre  == PrelineAfter(Allocations, f, line)
           cidx == line2idx(line)
           prev == Previous(pre[f].lines[cidx], pro[f].lines, cidx)
           values == 0 .. TimeMod - 1
           starts == 0 .. MaxClock
<1>1. line \in Lines \ {0}
  BY DEF sinfo_measure, AccessesFit, InBounds, line2idx, Lines
<1>2. /\ Grown(scoring, sco, values, f, line, 0)
      /\ Grown(process[th], pro, starts, f, line, NOVALUE)
  BY MeasuredTables
<1>3. /\ cidx \in Index
      /\ cidx \in 0 .. sco[f].size - 1 /\ cidx \in 0 .. pro[f].size - 1
      /\ \A p \in prev : p \in 0 .. cidx - 1
  BY <1>1, PreviousIsEarlier DEF InBounds, Index
<1>4. /\ IsTable(sco, values) /\ IsInfo(sco[f], values) /\ sco[f].size \in Lines
      /\ sco[f].lines \in [0 .. sco[f].size - 1 -> values]
      /\ IsTable(pro, starts) /\ IsInfo(pro[f], starts) /\ pro[f].size \in Lines
      /\ pro[f].lines \in [0 .. pro[f].size - 1 -> starts]
      /\ sco[f] # Qnil /\ pro[f] # Qnil
  BY <1>2, InfoFields DEF Grown
<1>5. SameCells(scoring, sco) /\ SameCells(process[th], pro)
  BY AllocationsShowNothing DEF Allocations
<1>6. values \subseteq Int /\ starts \subseteq Int /\ clock \in starts /\ 0 \in starts
      /\ clock' = clock
  BY TimeAssumption DEF TypeOK, sinfo_measure
<1>7. total = Shown(sco)
  BY <1>5 DEF total, Score, SameCells, Shown
<1>8. running[th] = Shown(pro)
  BY <1>5 DEF running, StartOf, SameCells, Shown
<1>9. \A i \in Index : i < pro[f].size => CellOf(pro[f], i) = pro[f].lines[i]
  BY <1>4 DEF CellOf, SizeOf
<1>10. \A i \in Index : i < sco[f].size => CellOf(sco[f], i) = sco[f].lines[i]
  BY <1>4 DEF CellOf, SizeOf
<1> HIDE DEF sco, pro, pre, prev, values, starts, cidx
<1>11. ASSUME scoring' = sco,
              process' = [process EXCEPT ![th] = [pro EXCEPT ![f].lines[cidx] = clock]]
       PROVE  Timers!ReachFirstLine(th, f, cidx)
  <2> DEFINE cells == [pro[f].lines EXCEPT ![cidx] = clock]
             table == WithLines(pro, f, cells)
  <2>1. AreCells(cells, pro[f].size, starts)
    BY <1>3, <1>4, <1>6 DEF AreCells
  <2>2. [pro EXCEPT ![f].lines[cidx] = clock] = table
    BY <1>4 DEF IsTable, WithLines
  <2>3. ASSUME NEW i \in Index, i < pro[f].size
        PROVE  At(cells, i) = IF i = cidx THEN clock ELSE CellOf(pro[f], i)
    <3>1. i \in 0 .. pro[f].size - 1 /\ CellOf(pro[f], i) = pro[f].lines[i]
      BY <1>4, <1>9, <2>3 DEF Index, Lines
    <3>2. [pro[f].lines EXCEPT ![cidx] = clock][i]
            = IF i = cidx THEN clock ELSE pro[f].lines[i]
      BY <1>4, <3>1
    <3> QED
      BY <3>1, <3>2 DEF At
  <2> HIDE DEF cells
  <2>4. \A g \in Files, i \in Index : CellOf(table[g], i) =
          IF g = f /\ i < pro[f].size THEN At(cells, i) ELSE CellOf(pro[g], i)
    BY <1>4, <1>6, <2>1, WrittenCells
  <2> HIDE DEF table
  <2>5. \A g \in Files, i \in Index :
          CellOf(table[g], i) = IF g = f /\ i = cidx THEN clock ELSE CellOf(pro[g], i)
    BY <1>3, <1>4, <2>3, <2>4 DEF Index, Lines
  <2>6. Shown(table) = [Shown(pro) EXCEPT ![f][cidx] = clock]
    BY <1>3, <2>5 DEF Shown
  <2>7. running' = [running EXCEPT ![th] = Shown(table)]
    BY <1>11, <2>2, RunningAfter
  <2>8. running' = [running EXCEPT ![th][f][cidx] = clock]
    BY <1>8, <2>6, <2>7
  <2>9. total' = total
    BY <1>7, <1>11 DEF total, Score, Shown
  <2> QED
    BY <1>6, <2>8, <2>9 DEF Timers!ReachFirstLine, running, total, Index
<1>12. ASSUME NEW p \in prev,
              scoring' = IF has_value(pro[f].lines[p])
                         THEN [sco EXCEPT ![f].lines[p] = Charge(@, clock, pro[f].lines[p])]
                         ELSE sco,
              process' = [process EXCEPT ![th] =
                [pro EXCEPT ![f].lines = Restart(@, cidx, p, clock)]]
       PROVE  p \in Index /\ Timers!ReachLine(th, f, cidx, p)
  <2>1. /\ p \in Index /\ p < cidx /\ p \in Int
        /\ p \in 0 .. sco[f].size - 1 /\ p \in 0 .. pro[f].size - 1
    <3>1. p \in 0 .. cidx - 1 /\ cidx \in Int /\ MaxLine \in Int
      BY <1>3, LineAssumption DEF Index
    <3>2. sco[f].size \in Int /\ pro[f].size \in Int
      BY <1>4, LineAssumption DEF Lines
    <3> QED
      BY <1>3, <3>1, <3>2 DEF Index
  <2> DEFINE cells == Restart(pro[f].lines, cidx, p, clock)
             table == WithLines(pro, f, cells)
  <2>2. AreCells(cells, pro[f].size, starts)
    BY <1>3, <1>4, <1>6, <2>1 DEF Restart, NOVALUE, AreCells
  <2>3. [pro EXCEPT ![f].lines = Restart(@, cidx, p, clock)] = table
    BY <1>4 DEF IsTable, WithLines
  <2>4. \A i \in Index : i < pro[f].size =>
          At(cells, i) = IF i = p THEN 0 ELSE IF i = cidx THEN clock ELSE CellOf(pro[f], i)
    BY <1>3, <1>4, <1>9, <2>1 DEF Index, Lines, Restart, NOVALUE, At
  <2> HIDE DEF cells
  <2>5. \A g \in Files, i \in Index : CellOf(table[g], i) =
          IF g = f /\ i < pro[f].size THEN At(cells, i) ELSE CellOf(pro[g], i)
    <3>1. IsTable(pro, starts) /\ IsInfo(pro[f], starts) /\ starts \subseteq Int
      BY <1>4, <1>6
    <3> QED
      BY <2>2, <3>1, WrittenCells
  <2> HIDE DEF table
  <2>6. \A g \in Files, i \in Index : CellOf(table[g], i) =
          IF g = f /\ i = p THEN 0 ELSE IF g = f /\ i = cidx THEN clock ELSE CellOf(pro[g], i)
    <3> SUFFICES ASSUME NEW g \in Files, NEW i \in Index
                 PROVE  CellOf(table[g], i) =
                          IF g = f /\ i = p THEN 0
                          ELSE IF g = f /\ i = cidx THEN clock ELSE CellOf(pro[g], i)
      OBVIOUS
    <3>1. CASE g # f
      BY <2>5, <3>1
    <3>2. CASE g = f /\ i < pro[f].size
      <4>1. CellOf(table[g], i) = At(cells, i)
        BY <2>5, <3>2
      <4> QED
        BY <2>4, <3>2, <4>1
    <3>3. CASE g = f /\ ~(i < pro[f].size)
      <4>1. i # p /\ i # cidx
        BY <1>3, <1>4, <2>1, <3>3 DEF Index, Lines
      <4>2. CellOf(table[g], i) = CellOf(pro[g], i)
        BY <2>5, <3>3
      <4> QED
        BY <4>1, <4>2
    <3> QED
      BY <3>1, <3>2, <3>3
  <2>7. Shown(table) = [Shown(pro) EXCEPT ![f][cidx] = clock, ![f][p] = 0]
    <3>1. p # cidx
      BY <1>3, <2>1 DEF Index
    <3>2. \A g \in Files : Shown(table)[g] = IF g = f
            THEN [Shown(pro)[f] EXCEPT ![cidx] = clock, ![p] = 0] ELSE Shown(pro)[g]
      BY <2>6, <3>1 DEF Shown
    <3>3. Shown(table) = [Shown(pro) EXCEPT ![f] = [Shown(pro)[f] EXCEPT ![cidx] = clock, ![p] = 0]]
      BY <3>2 DEF Shown
    <3> QED
      BY <3>3 DEF Shown
  <2>8. running' = [running EXCEPT ![th] = Shown(table)]
    BY <1>12, <2>3, RunningAfter DEF table, cells
  <2>9. running' = [running EXCEPT ![th][f][cidx] = clock, ![th][f][p] = 0]
    BY <1>8, <2>7, <2>8 DEF running
  <2>10. running[th][f][p] = pro[f].lines[p] /\ total[f][p] = sco[f].lines[p]
    BY <1>4, <1>7, <1>8, <1>9, <1>10, <2>1 DEF Lines, Shown
  <2> DEFINE charge == Charge(sco[f].lines[p], clock, pro[f].lines[p])
             scells == [sco[f].lines EXCEPT ![p] = charge]
             stable == WithLines(sco, f, scells)
  <2>11. charge \in values
    BY <1>4, <1>6, <2>1, ChargeType DEF values
  <2>12. CASE pro[f].lines[p] = 0
    <3>1. total' = total
      BY <1>7, <1>12, <2>12 DEF total, Score, has_value, NOVALUE, Shown
    <3> QED
      BY <1>6, <2>1, <2>9, <2>10, <2>12, <3>1
         DEF Timers!ReachLine, Timers!Stopped, running, total, Index
  <2>13. CASE pro[f].lines[p] # 0
    <3>1. charge = (total[f][p] + (clock - running[th][f][p])) % TimeMod
      BY <2>10 DEF Charge
    <3>2. scoring' = stable
      BY <1>4, <1>12, <2>13 DEF IsTable, WithLines, has_value, NOVALUE
    <3> HIDE DEF charge
    <3>3. AreCells(scells, sco[f].size, values)
      BY <1>4, <2>1, <2>11 DEF AreCells
    <3>4. \A i \in Index : i < sco[f].size =>
            At(scells, i) = IF i = p THEN charge ELSE CellOf(sco[f], i)
      BY <1>4, <1>10, <2>1 DEF Index, Lines, At
    <3> HIDE DEF scells
    <3>5. \A g \in Files, i \in Index : CellOf(stable[g], i) =
            IF g = f /\ i < sco[f].size THEN At(scells, i) ELSE CellOf(sco[g], i)
      BY <1>4, <1>6, <3>3, WrittenCells
    <3> HIDE DEF stable
    <3>6. \A g \in Files, i \in Index :
            CellOf(stable[g], i) = IF g = f /\ i = p THEN charge ELSE CellOf(sco[g], i)
      BY <1>4, <2>1, <3>4, <3>5 DEF Index, Lines
    <3>7. Shown(stable) = [Shown(sco) EXCEPT ![f][p] = charge]
      BY <2>1, <3>6 DEF Shown
    <3>8. total' = Shown(stable)
      BY <3>2 DEF total, Score, Shown
    <3>9. total' = [total EXCEPT ![f][p] = (@ + (clock - running[th][f][p])) % TimeMod]
      BY <1>7, <3>1, <3>7, <3>8
    <3> QED
      BY <1>6, <2>1, <2>9, <2>10, <2>13, <3>9
         DEF Timers!ReachLine, Timers!Stopped, running, total, Index
  <2> QED
    BY <2>12, <2>13
<1>13. prev = PrevOf(th, f, cidx)
  BY <1>1, PreviousIsShown DEF prev, pro, pre, cidx
<1>14. \/ prev = {} /\ Timers!ReachFirstLine(th, f, cidx)
       \/ \E p \in prev : p \in Index /\ Timers!ReachLine(th, f, cidx, p)
  <2>1. \/ /\ prev = {}
           /\ scoring' = sco
           /\ process' = [process EXCEPT ![th] = [pro EXCEPT ![f].lines[cidx] = clock]]
        \/ \E p \in prev :
             /\ scoring' = IF has_value(pro[f].lines[p])
                           THEN [sco EXCEPT ![f].lines[p] = Charge(@, clock, pro[f].lines[p])]
                           ELSE sco
             /\ process' = [process EXCEPT ![th] =
                  [pro EXCEPT ![f].lines = Restart(@, cidx, p, clock)]]
    BY DEF sinfo_measure, sco, pro, pre, prev, cidx
  <2> QED
    BY <1>11, <1>12, <2>1
<1> QED
  BY <1>3, <1>13, <1>14 DEF cidx

\* The cache at the end of a measurement: it has learnt at most the line before this one.
LEMMA MeasureCaches ==
  ASSUME TypeOK, CachedPrevIsScored,
         NEW th \in Threads, NEW f \in Files, NEW line \in Lines,
         sinfo_measure(th, f, line)
  PROVE  \A g \in Files, j \in Index :
           \/ PrevCell(g, j)' = PrevCell(g, j)
           \/ g = f /\ j = line2idx(line) /\ PrevCell(g, j)' \in PrevOf(th, f, j)
<1> DEFINE cidx == line2idx(line)
           pre  == PrelineAfter(Allocations, f, line)
           prev == PrevOf(th, f, cidx)
           prevs == NoPrev .. MaxLine - 1
<1>1. line \in Lines \ {0}
  BY DEF sinfo_measure, AccessesFit, InBounds, line2idx, Lines
<1>2. /\ Grown(preline, pre, prevs, f, line, NoPrev)
      /\ cidx \in 0 .. pre[f].size - 1
  BY <1>1, MeasuredTables, PreviousIsEarlier DEF InBounds
<1>3. /\ IsTable(pre, prevs) /\ pre[f] # Qnil /\ pre[f].size \in Lines
      /\ pre[f].lines \in [0 .. pre[f].size - 1 -> prevs]
      /\ pre[f] = [size |-> pre[f].size, lines |-> pre[f].lines]
      /\ \A g \in Files \ {f} : pre[g] = preline[g]
      /\ \A i \in 0 .. pre[f].size - 1 :
           pre[f].lines[i] = IF i < SizeOf(preline[f]) THEN preline[f].lines[i] ELSE NoPrev
      /\ SizeOf(preline[f]) <= pre[f].size
  BY <1>2, InfoFields DEF Grown
<1>4. SizeOf(preline[f]) \in Nat
  <2>1. IsTable(preline, prevs)
    BY DEF TypeOK
  <2> QED
    BY <2>1, InfoFields, LineAssumption DEF IsTable, SizeOf, Lines
<1>5. \/ preline' = pre
      \/ \E p \in prev : preline' = [pre EXCEPT ![f].lines[cidx] = p]
  <2>1. Previous(pre[f].lines[cidx], ProcessAfter(Allocations, th, f, line)[f].lines, cidx) = prev
    BY <1>1, PreviousIsShown
  <2> QED
    BY <2>1 DEF sinfo_measure
<1> HIDE DEF pre, prev, cidx
<1>6. ASSUME NEW g \in Files \ {f}, NEW j \in Index PROVE PrevCell(g, j)' = PrevCell(g, j)
  <2>1. preline'[g] = preline[g]
    BY <1>3, <1>5 DEF IsTable
  <2> QED
    BY <2>1 DEF PrevCell
<1>7. ASSUME NEW j \in Index
      PROVE  PrevCell(f, j)' = PrevCell(f, j) \/ (j = cidx /\ PrevCell(f, j)' \in prev)
  <2>1. PrevCell(f, j) = IF j < pre[f].size THEN pre[f].lines[j] ELSE NoPrev
    BY <1>3, <1>4 DEF PrevCell, Index, Lines
  <2>2. CASE preline' = pre
    BY <1>3, <2>1, <2>2 DEF PrevCell, SizeOf
  <2>3. ASSUME NEW p \in prev, preline' = [pre EXCEPT ![f].lines[cidx] = p]
        PROVE  PrevCell(f, j)' = PrevCell(f, j) \/ (j = cidx /\ PrevCell(f, j)' \in prev)
    <3>1. preline'[f] = [size |-> pre[f].size, lines |-> [pre[f].lines EXCEPT ![cidx] = p]]
      BY <1>3, <2>3 DEF IsTable
    <3>2. preline'[f] # Qnil
      <4>1. p \in prevs
        <5>1. p \in 0 .. cidx - 1
          BY <1>1, PreviousIsEarlier, PreviousIsShown DEF prev, cidx
        <5> QED
          BY <1>2, <1>3, <5>1, LineAssumption DEF Lines, NoPrev
      <4>2. [pre[f].lines EXCEPT ![cidx] = p] \in [0 .. pre[f].size - 1 -> prevs]
        BY <1>3, <4>1
      <4>3. prevs \subseteq Int
        OBVIOUS
      <4> DEFINE cells == [pre[f].lines EXCEPT ![cidx] = p]
      <4> HIDE DEF prevs, cells
      <4>4. IsInfo([size |-> pre[f].size, lines |-> cells], prevs)
        BY <1>3, <4>2, InfoFromFields DEF cells
      <4>5. IsInfo(preline'[f], prevs)
        BY <3>1, <4>4 DEF cells
      <4> QED
        BY <4>3, <4>5, InfoNotNil
    <3>3. PrevCell(f, j)' = IF j < pre[f].size THEN [pre[f].lines EXCEPT ![cidx] = p][j] ELSE NoPrev
      BY <3>1, <3>2 DEF PrevCell, SizeOf
    <3>4. j < pre[f].size => j \in 0 .. pre[f].size - 1
      BY <1>3 DEF Index, Lines
    <3> QED
      BY <1>2, <1>3, <2>1, <2>3, <3>3, <3>4
  <2> QED
    BY <1>5, <2>2, <2>3
<1> QED
  BY <1>6, <1>7 DEF cidx, prev

-----------------------------------------------------------------------------
(* The refinement.                                                         *)

\* A measurement cut short shows nothing.
LEMMA FailureShowsNothing ==
  ASSUME TypeOK, NEW th \in Threads, NEW f \in Files, NEW line \in Lines,
         NEW k \in 0 .. Allocations - 1, MeasureFails(th, f, line, k)
  PROVE  UNCHANGED <<running, total, clock>>
<1>1. /\ SameCells(scoring, ScoringAfter(k, f, line))
      /\ SameCells(process[th], ProcessAfter(k, th, f, line))
  BY AllocationsShowNothing DEF Allocations
<1>2. total' = total
  BY <1>1 DEF MeasureFails, total, Score, SameCells
<1>3. running' = [running EXCEPT ![th] = Shown(ProcessAfter(k, th, f, line))]
  BY RunningAfter DEF MeasureFails
<1>4. Shown(ProcessAfter(k, th, f, line)) = running[th]
  BY <1>1 DEF Shown, SameCells, running, StartOf
<1>5. running' = running
  BY <1>3, <1>4 DEF running
<1> QED
  BY <1>2, <1>5 DEF MeasureFails

LEMMA NoEntriesShowNothing ==
  Shown(NoEntries) = [f \in Files |-> [i \in Index |-> 0]]
<1>1. \A i \in Index : CellOf(Qnil, i) = 0
  BY DEF CellOf, SizeOf, Index
<1> QED
  BY <1>1 DEF Shown, NoEntries

LEMMA TimersInit == Init => Timers!Init
<1> SUFFICES ASSUME Init PROVE Timers!Init
  OBVIOUS
<1>1. running = [th \in Threads |-> [f \in Files |-> [i \in Index |-> 0]]]
  BY NoEntriesShowNothing DEF Init, Shown, running, StartOf
<1>2. total = [f \in Files |-> [i \in Index |-> 0]]
  BY NoEntriesShowNothing DEF Init, Shown, total, Score
<1>3. clock \in Nat \ {0}
  BY DEF Init
<1> QED
  BY <1>1, <1>2, <1>3 DEF Timers!Init, Timers!Index, Timers!Stopped, running, total, Index

\* What a step shows: at most one stopwatch started, read out or abandoned, or a
\* step of the clock.
LEMMA StepShows ==
  ASSUME IInv, [Next]_vars
  PROVE  \/ /\ clock' = clock /\ stepped' = stepped
            /\ \/ \E th \in Threads, f \in Files, i \in Index : Timers!ReachFirstLine(th, f, i)
               \/ \E th \in Threads, f \in Files, i, p \in Index : Timers!ReachLine(th, f, i, p)
               \/ \E th \in Threads : sinfo_container_free(th) /\ Timers!Abandon(th)
               \/ running' = running /\ total' = total
         \/ (Tick \/ StepBack) /\ running' = running /\ total' = total
<1>1. ASSUME NEW th \in Threads, sinfo_container_free(th)
      PROVE  Timers!Abandon(th) /\ clock' = clock /\ stepped' = stepped
  <2>1. running' = [running EXCEPT ![th] = Shown(NoEntries)]
    BY <1>1, RunningAfter DEF IInv, sinfo_container_free
  <2>2. total' = total /\ clock' = clock
    BY <1>1 DEF sinfo_container_free, total, Score
  <2> QED
    BY <1>1, <2>1, <2>2, NoEntriesShowNothing
       DEF sinfo_container_free, Timers!Abandon, Timers!Index, Timers!Stopped, running, total, Index
<1>2. ASSUME NEW th \in Threads, NEW f \in Files, NEW line \in Lines, sinfo_measure(th, f, line)
      PROVE  /\ clock' = clock /\ stepped' = stepped
             /\ \E i \in Index : \/ Timers!ReachFirstLine(th, f, i)
                               \/ \E p \in Index : Timers!ReachLine(th, f, i, p)
  BY <1>2, MeasureShows DEF IInv, sinfo_measure
<1>3. ASSUME NEW th \in Threads, NEW f \in Files, NEW line \in Lines, OutOfBounds(th, f, line)
      PROVE  UNCHANGED <<running, total, clock, stepped>>
  BY <1>3 DEF OutOfBounds, running, total, StartOf, Score
<1>4. ASSUME NEW th \in Threads, NEW f \in Files, NEW line \in Lines,
             NEW k \in 0 .. Allocations - 1, MeasureFails(th, f, line, k)
      PROVE  UNCHANGED <<running, total, clock, stepped>>
  BY <1>4, FailureShowsNothing DEF IInv, MeasureFails
<1>5. CASE Tick \/ StepBack
  BY <1>5 DEF Tick, StepBack, running, total, StartOf, Score
<1>6. CASE UNCHANGED vars
  BY <1>6 DEF vars, running, total, StartOf, Score
<1> HIDE DEF running, total
<1> QED
  BY <1>1, <1>2, <1>3, <1>4, <1>5, <1>6 DEF Next

LEMMA TimersStep == IInv /\ IInv' /\ [Next]_vars => [Timers!Next]_(Timers!vars)
<1> SUFFICES ASSUME IInv, IInv', [Next]_vars PROVE [Timers!Next]_(Timers!vars)
  OBVIOUS
<1>1. ASSUME clock' = clock, running' = running, total' = total PROVE UNCHANGED Timers!vars
  BY <1>1 DEF Timers!vars, running, total, Index
<1>2. ASSUME running' = running, total' = total PROVE Timers!ClockMoves
  <2>1. clock' \in Nat \ {0}
    BY TimeAssumption DEF IInv, TypeOK
  <2> QED
    BY <1>2, <2>1 DEF Timers!ClockMoves, running, total, Index
<1> QED
  BY <1>1, <1>2, StepShows DEF Timers!Next, Timers!Index, Index

\* The tables of sinfo.c, grown on demand and at times only half way, with their cache
\* shared by the threads, are stopwatches: each event starts one and reads out at most
\* one, of the same thread and an earlier line, and charges exactly what that shows.
THEOREM Refinement == Spec => ImplementsLineTimers
<1>1. Init => Timers!Init
  BY TimersInit
<1>2. IInv /\ IInv' /\ [Next]_vars => [Timers!Next]_(Timers!vars)
  BY TimersStep
<1> QED
  BY <1>1, <1>2, Invariance, PTL DEF Spec, ImplementsLineTimers, Timers!Spec

-----------------------------------------------------------------------------
(* Time is not invented.                                                   *)

Pendings(f, i) == [th \in Threads |-> Pending(th, f, i)]

\* No stopwatch of the line was started later than now, and what the line has been
\* charged and is still to be charged is time that has passed.
Started(f, i) == \A th \in Threads : StartOf(th, f, i) <= clock
NotInvented(f, i) ==
  Score(f, i) + SumFunction(Pendings(f, i)) <= Cardinality(Threads) * (clock - 1)

TimeInv == ~stepped => \A f \in Files, i \in Index : Started(f, i) /\ NotInvented(f, i)

\* The cells that the tables show.
CellsFit ==
  \A f \in Files, i \in Index :
    /\ Score(f, i) \in 0 .. TimeMod - 1
    /\ \A th \in Threads : StartOf(th, f, i) \in 0 .. MaxClock

LEMMA CellTypes == TypeOK => CellsFit
<1>1. ASSUME NEW Values, 0 \in Values, NEW table, IsTable(table, Values), NEW f \in Files,
             NEW i \in Index
      PROVE  CellOf(table[f], i) \in Values
  <2>1. CASE table[f] = Qnil
    BY <1>1, <2>1 DEF CellOf, SizeOf, Index
  <2>2. CASE table[f] # Qnil
    <3>1. table[f].size \in Lines /\ table[f].lines \in [0 .. table[f].size - 1 -> Values]
      BY <1>1, <2>2, InfoFields DEF IsTable
    <3> QED
      BY <1>1, <2>2, <3>1 DEF CellOf, SizeOf, Index, Lines
  <2> QED
    BY <2>1, <2>2
<1>2. 0 \in 0 .. TimeMod - 1 /\ 0 \in 0 .. MaxClock
  BY TimeAssumption
<1> QED
  BY <1>1, <1>2 DEF TypeOK, Score, StartOf, CellsFit

LEMMA CellTypesNext == TypeOK' => CellsFit'
  BY CellTypes, PTL

\* What EXCEPT makes of the cells of all stopwatches.
LEMMA CellWritten ==
  ASSUME NEW V, NEW r \in [Threads -> [Files -> [Index -> V]]],
         NEW th \in Threads, NEW g \in Files, NEW j \in Index, NEW a,
         NEW n, n = [r EXCEPT ![th][g][j] = a]
  PROVE  \A u \in Threads, f \in Files, i \in Index :
           n[u][f][i] = IF u = th /\ f = g /\ i = j THEN a ELSE r[u][f][i]
  OBVIOUS

LEMMA CellsWritten ==
  ASSUME NEW V, NEW r \in [Threads -> [Files -> [Index -> V]]],
         NEW th \in Threads, NEW g \in Files, NEW j \in Index, NEW p \in Index, NEW a, NEW b,
         NEW n, n = [r EXCEPT ![th][g][j] = a, ![th][g][p] = b]
  PROVE  \A u \in Threads, f \in Files, i \in Index :
           n[u][f][i] = IF u = th /\ f = g /\ i = p THEN b
                        ELSE IF u = th /\ f = g /\ i = j THEN a ELSE r[u][f][i]
  OBVIOUS

PendingsFit ==
  \A f \in Files, i \in Index : Started(f, i) => Pendings(f, i) \in [Threads -> Nat]

LEMMA PendingsType == TypeOK => PendingsFit
<1> SUFFICES ASSUME NEW f \in Files, NEW i \in Index, TypeOK, Started(f, i), NEW th \in Threads
             PROVE  Pending(th, f, i) \in Nat
  BY DEF Pendings, PendingsFit
<1>1. StartOf(th, f, i) \in 0 .. MaxClock /\ StartOf(th, f, i) <= clock /\ clock \in Nat
  BY CellTypes, TimeAssumption DEF Started, TypeOK, CellsFit
<1> QED
  BY <1>1 DEF Pending

LEMMA PendingsTypeNext == TypeOK' => PendingsFit'
  BY PendingsType, PTL

\* A stopwatch that is stopped, and at most what it showed is charged.
LEMMA OneReset ==
  ASSUME NEW old \in [Threads -> Nat], NEW new \in [Threads -> Nat], NEW charge \in Nat,
         NEW th \in Threads, new[th] + charge <= old[th],
         \A u \in Threads \ {th} : new[u] = old[u]
  PROVE  SumFunction(new) + charge <= SumFunction(old)
<1>1. old \in [Threads -> Int] /\ new \in [Threads -> Int] /\ old[th] \in Int /\ new[th] \in Int
  OBVIOUS
<1>2. SumFunction(old) \in Int /\ SumFunction(new) \in Int
  BY <1>1, SumType, ThreadsAssumption
<1>3. SumFunction(new) + old[th] = SumFunction(old) + new[th]
  BY <1>1, SumChangedAtOne, ThreadsAssumption
<1> QED
  BY <1>1, <1>2, <1>3

\* The clock ticks for every thread.
LEMMA AllTick ==
  ASSUME NEW old \in [Threads -> Nat], NEW new \in [Threads -> Nat],
         \A u \in Threads : new[u] <= old[u] + 1
  PROVE  SumFunction(new) <= SumFunction(old) + Cardinality(Threads)
<1> DEFINE one  == [u \in Threads |-> 1]
           next == [u \in Threads |-> old[u] + 1]
<1>1. /\ old \in [Threads -> Int] /\ new \in [Threads -> Int]
      /\ one \in [Threads -> Int] /\ next \in [Threads -> Int]
  OBVIOUS
<1>2. IsPlus(next, old, one, Threads) /\ \A u \in Threads : new[u] <= next[u]
  BY DEF IsPlus
<1>3. SumFunction(one) = Cardinality(Threads)
  BY SumOfOnes, ThreadsAssumption
<1> HIDE DEF one, next
<1>4. SumFunction(new) <= SumFunction(next)
  BY <1>1, <1>2, SumMonotone, ThreadsAssumption
<1>5. SumFunction(next) = SumFunction(old) + SumFunction(one)
  BY <1>1, <1>2, SumPlus, ThreadsAssumption
<1> QED
  BY <1>3, <1>4, <1>5

LEMMA TimeInit == Init => TimeInv
<1> SUFFICES ASSUME Init, NEW f \in Files, NEW i \in Index
             PROVE  Started(f, i) /\ NotInvented(f, i)
  BY DEF TimeInv
<1>1. Score(f, i) = 0 /\ (\A th \in Threads : StartOf(th, f, i) = 0) /\ clock = 1
  BY DEF Init, NoEntries, Score, StartOf, CellOf, SizeOf, Index
<1>2. Pendings(f, i) \in [Threads -> Int] /\ \A th \in Threads : Pendings(f, i)[th] = 0
  BY <1>1 DEF Pendings, Pending, has_value, NOVALUE
<1>3. SumFunction(Pendings(f, i)) = 0
  BY <1>2, SumOfZeros, ThreadsAssumption
<1>4. Cardinality(Threads) \in Nat
  BY ThreadsAssumption, FS_CardinalityType
<1> QED
  BY <1>1, <1>3, <1>4 DEF Started, NotInvented

LEMMA TimeStep == IInv /\ IInv' /\ TimeInv /\ [Next]_vars => TimeInv'
<1> SUFFICES ASSUME IInv, IInv', TimeInv, [Next]_vars, ~stepped',
                    NEW f \in Files, NEW i \in Index
             PROVE  Started(f, i)' /\ NotInvented(f, i)'
  BY DEF TimeInv
<1> DEFINE card == Cardinality(Threads)
           old == Pendings(f, i)
           new == Pendings(f, i)'
<1>1. card \in Nat
  BY ThreadsAssumption, FS_CardinalityType
<1>2. /\ clock \in Nat \ {0} /\ clock' \in Nat \ {0} /\ Score(f, i) \in Nat /\ Score(f, i)' \in Nat
      /\ \A th \in Threads : StartOf(th, f, i) \in Nat /\ StartOf(th, f, i)' \in Nat
  <2>1. TypeOK /\ TypeOK'
    BY DEF IInv
  <2> QED
    BY <2>1, CellTypes, CellTypesNext, TimeAssumption DEF TypeOK, CellsFit
<1>3. ~stepped => Started(f, i) /\ NotInvented(f, i)
  BY DEF TimeInv
\* With the new starts no later than the new clock, all that is left is the sum.
<1>4. ASSUME Started(f, i), Started(f, i)'
      PROVE  /\ old \in [Threads -> Nat] /\ new \in [Threads -> Nat]
             /\ SumFunction(old) \in Int /\ SumFunction(new) \in Int
  <2>1. TypeOK /\ TypeOK'
    BY DEF IInv
  <2>3. old \in [Threads -> Nat] /\ new \in [Threads -> Nat]
    BY <1>4, <2>1, PendingsType, PendingsTypeNext DEF PendingsFit
  <2> HIDE DEF old, new
  <2>4. old \in [Threads -> Int] /\ new \in [Threads -> Int]
    BY <2>3
  <2> QED
    BY <2>3, <2>4, SumType, ThreadsAssumption
<1>5. \A th \in Threads : old[th] = Pending(th, f, i) /\ new[th] = Pending(th, f, i)'
  BY DEF Pendings
<1>6. NotInvented(f, i) <=> Score(f, i) + SumFunction(old) <= card * (clock - 1)
  BY DEF NotInvented
<1>7. NotInvented(f, i)' <=> Score(f, i)' + SumFunction(new) <= card * (clock' - 1)
  BY DEF NotInvented
<1>8. \A th \in Threads : running[th][f][i] = StartOf(th, f, i) /\ running'[th][f][i] = StartOf(th, f, i)'
  BY DEF running
<1>9. total[f][i] = Score(f, i) /\ total'[f][i] = Score(f, i)'
  BY DEF total
<1>10. running \in [Threads -> [Files -> [Index -> 0 .. MaxClock]]]
  BY CellTypes DEF IInv, CellsFit, running
<1> HIDE DEF card, old, new
\* One thread's stopwatch changes, while the clock stands.
<1>11. ASSUME ~stepped, clock' = clock, NEW th \in Threads, NEW charge \in Nat,
              \A u \in Threads \ {th} : StartOf(u, f, i)' = StartOf(u, f, i),
              \/ StartOf(th, f, i)' = clock
              \/ StartOf(th, f, i)' = 0
              \/ StartOf(th, f, i)' = StartOf(th, f, i) /\ charge = 0,
              charge <= Pending(th, f, i),
              Score(f, i)' <= Score(f, i) + charge
       PROVE  Started(f, i)' /\ NotInvented(f, i)'
  <2>1. Started(f, i) /\ Started(f, i)'
    BY <1>2, <1>3, <1>11 DEF Started
  <2>2. /\ old \in [Threads -> Nat] /\ new \in [Threads -> Nat]
        /\ SumFunction(old) \in Int /\ SumFunction(new) \in Int
    BY <1>4, <2>1
  <2>3. \A u \in Threads \ {th} : new[u] = old[u]
    BY <1>5, <1>11 DEF Pending
  <2>4. old[th] \in Nat /\ old[th] = Pending(th, f, i)
    BY <1>5, <2>2
  <2>5. new[th] + charge <= old[th]
    <3>1. CASE StartOf(th, f, i)' = clock \/ StartOf(th, f, i)' = 0
      <4>1. new[th] = 0
        BY <1>2, <1>5, <1>11, <3>1 DEF Pending, has_value, NOVALUE
      <4> QED
        BY <1>11, <2>4, <4>1
    <3>2. CASE StartOf(th, f, i)' = StartOf(th, f, i) /\ charge = 0
      <4>1. new[th] = old[th]
        BY <1>5, <1>11, <3>2 DEF Pending
      <4> QED
        BY <2>4, <3>2, <4>1
    <3> QED
      BY <1>11, <3>1, <3>2
  <2>6. SumFunction(new) + charge <= SumFunction(old)
    BY <1>11, <2>2, <2>3, <2>5, OneReset
  <2>7. Score(f, i) + SumFunction(old) <= card * (clock - 1)
    BY <1>3, <1>6, <1>11
  <2>8. Score(f, i)' + SumFunction(new) <= card * (clock' - 1)
    <3>1. card * (clock - 1) \in Int /\ card * (clock' - 1) = card * (clock - 1)
      BY <1>1, <1>2, <1>11
    <3> QED
      BY <1>2, <1>11, <2>2, <2>6, <2>7, <3>1
  <2> QED
    BY <1>7, <2>1, <2>8
<1>12. ASSUME ~stepped, clock' = clock, NEW th \in Threads, NEW g \in Files, NEW j \in Index,
              Timers!ReachFirstLine(th, g, j)
       PROVE  Started(f, i)' /\ NotInvented(f, i)'
  <2>1. running' = [running EXCEPT ![th][g][j] = clock] /\ total' = total
    BY <1>12 DEF Timers!ReachFirstLine, running, total, Index
  <2>2. Score(f, i)' = Score(f, i)
    BY <1>9, <2>1
  <2>3. /\ \A u \in Threads \ {th} : StartOf(u, f, i)' = StartOf(u, f, i)
        /\ StartOf(th, f, i)' = clock \/ StartOf(th, f, i)' = StartOf(th, f, i)
    <3>1. \A u \in Threads : running'[u][f][i] =
            IF u = th /\ f = g /\ i = j THEN clock ELSE running[u][f][i]
      <4> HIDE DEF running
      <4> QED
        BY <1>10, <2>1, CellWritten
    <3> QED
      BY <1>8, <3>1
  <2>4. 0 <= Pending(th, f, i)
    BY <1>2, <1>3, <1>12 DEF Pending, Started
  <2> QED
    BY <1>2, <1>11, <1>12, <2>2, <2>3, <2>4
<1>13. ASSUME ~stepped, clock' = clock, NEW th \in Threads, NEW g \in Files, NEW j \in Index,
              NEW p \in Index, Timers!ReachLine(th, g, j, p)
       PROVE  Started(f, i)' /\ NotInvented(f, i)'
  <2>1. /\ running' = [running EXCEPT ![th][g][j] = clock, ![th][g][p] = 0]
        /\ total' = IF running[th][g][p] = 0 THEN total
                    ELSE [total EXCEPT ![g][p] = (@ + (clock - running[th][g][p])) % TimeMod]
    BY <1>13 DEF Timers!ReachLine, Timers!Stopped, running, total, Index
  <2>2. Pending(th, f, i) \in Nat
    BY <1>2, <1>3, <1>13 DEF Pending, Started
  <2>3. \A u \in Threads : running'[u][f][i] =
          IF u = th /\ f = g /\ i = p THEN 0
          ELSE IF u = th /\ f = g /\ i = j THEN clock ELSE running[u][f][i]
    <3> HIDE DEF running
    <3> QED
      BY <1>10, <2>1, CellsWritten
  <2>4. \A u \in Threads \ {th} : StartOf(u, f, i)' = StartOf(u, f, i)
    BY <1>8, <2>3
  <2>5. CASE f = g /\ i = p
    <3>1. StartOf(th, f, i)' = 0
      BY <1>8, <2>3, <2>5
    <3>2. Score(f, i)' <= Score(f, i) + Pending(th, f, i)
      <4>1. CASE StartOf(th, f, i) = 0
        <5>1. total'[f][i] = total[f][i]
          BY <1>8, <2>1, <2>5, <4>1
        <5> QED
          BY <1>2, <1>9, <2>2, <5>1
      <4>2. CASE StartOf(th, f, i) # 0
        <5>1. Pending(th, f, i) = clock - running[th][f][i]
          BY <1>8, <4>2 DEF Pending, has_value, NOVALUE
        <5>2. total'[f][i] = (total[f][i] + Pending(th, f, i)) % TimeMod
          BY <1>8, <2>1, <2>5, <4>2, <5>1 DEF total
        <5>3. Score(f, i) + Pending(th, f, i) \in Nat /\ TimeMod \in Nat \ {0}
          BY <1>2, <2>2, TimeAssumption
        <5> QED
          BY <1>9, <5>2, <5>3, RemainderIsSmaller
      <4> QED
        BY <4>1, <4>2
    <3>3. Pending(th, f, i) <= Pending(th, f, i)
      BY <2>2
    <3> DEFINE charge == Pending(th, f, i)
    <3> HIDE DEF charge
    <3>4. charge \in Nat /\ charge <= Pending(th, f, i) /\ Score(f, i)' <= Score(f, i) + charge
      BY <2>2, <3>2, <3>3 DEF charge
    <3> QED
      BY <1>11, <1>13, <2>4, <3>1, <3>4
  <2>6. CASE ~(f = g /\ i = p)
    <3>1. StartOf(th, f, i)' = clock \/ StartOf(th, f, i)' = StartOf(th, f, i)
      BY <1>8, <2>3, <2>6
    <3>2. total'[f][i] = total[f][i]
      BY <2>1, <2>6 DEF total
    <3>3. Score(f, i)' <= Score(f, i) + 0
      BY <1>2, <1>9, <3>2
    <3>4. 0 \in Nat /\ 0 <= Pending(th, f, i)
      BY <2>2
    <3> QED
      BY <1>11, <1>13, <2>4, <3>1, <3>3, <3>4
  <2> QED
    BY <2>5, <2>6
<1>14. ASSUME ~stepped, clock' = clock, NEW th \in Threads, Timers!Abandon(th)
       PROVE  Started(f, i)' /\ NotInvented(f, i)'
  <2>1. running' = [running EXCEPT ![th] = [g \in Files |-> [j \in Index |-> 0]]] /\ total' = total
    BY <1>14 DEF Timers!Abandon, Timers!Stopped, Timers!Index, running, total, Index
  <2>2. Score(f, i)' <= Score(f, i) + 0
    BY <1>2, <1>9, <2>1
  <2>3. \A u \in Threads : running'[u][f][i] = IF u = th THEN 0 ELSE running[u][f][i]
    <3> HIDE DEF running
    <3> QED
      BY <1>10, <2>1
  <2>4. /\ \A u \in Threads \ {th} : StartOf(u, f, i)' = StartOf(u, f, i)
        /\ StartOf(th, f, i)' = 0
    BY <1>8, <2>3
  <2>5. 0 \in Nat /\ 0 <= Pending(th, f, i)
    BY <1>2, <1>3, <1>14 DEF Pending, Started
  <2> QED
    BY <1>11, <1>14, <2>2, <2>4, <2>5
<1>15. ASSUME ~stepped, clock' = clock \/ clock' = clock + 1, running' = running, total' = total
       PROVE  Started(f, i)' /\ NotInvented(f, i)'
  <2>1. /\ \A u \in Threads : StartOf(u, f, i)' = StartOf(u, f, i)
        /\ Score(f, i)' = Score(f, i)
    BY <1>8, <1>9, <1>15
  <2>2. Started(f, i) /\ Started(f, i)'
    BY <1>2, <1>3, <1>15, <2>1 DEF Started
  <2>3. /\ old \in [Threads -> Nat] /\ new \in [Threads -> Nat]
        /\ SumFunction(old) \in Int /\ SumFunction(new) \in Int
    BY <1>4, <2>2
  <2>4. Score(f, i) + SumFunction(old) <= card * (clock - 1)
    BY <1>3, <1>6, <1>15
  <2>5. CASE clock' = clock
    <3>1. \A u \in Threads : new[u] = old[u]
      BY <1>5, <2>1, <2>5 DEF Pending
    <3>2. new = old
      BY <2>3, <3>1
    <3> QED
      BY <1>7, <2>1, <2>2, <2>4, <2>5, <3>2
  <2>6. CASE clock' = clock + 1
    <3>1. \A u \in Threads : new[u] <= old[u] + 1
      <4> SUFFICES ASSUME NEW u \in Threads PROVE new[u] <= old[u] + 1
        OBVIOUS
      <4>1. new[u] \in Nat /\ old[u] \in Nat
        BY <2>3
      <4> QED
        BY <1>2, <1>5, <2>1, <2>6, <4>1 DEF Pending
    <3>2. SumFunction(new) <= SumFunction(old) + card
      BY <2>3, <3>1, AllTick DEF card
    <3>3. card * (clock' - 1) = card * (clock - 1) + card
      <4>1. \A n \in Nat, c \in Nat \ {0} : n * ((c + 1) - 1) = n * (c - 1) + n
        OBVIOUS
      <4> QED
        BY <1>1, <1>2, <2>6, <4>1
    <3> DEFINE before == card * (clock - 1)
    <3>4. before \in Int
      BY <1>1, <1>2
    <3>5. Score(f, i) + SumFunction(old) <= before
      BY <2>4
    <3>6. card * (clock' - 1) = before + card
      BY <3>3
    <3> HIDE DEF before
    <3>7. Score(f, i)' + SumFunction(new) <= before + card
      BY <1>1, <1>2, <2>1, <2>3, <3>2, <3>4, <3>5
    <3> QED
      BY <1>7, <2>2, <3>6, <3>7
  <2> QED
    BY <1>15, <2>5, <2>6
<1>16. CASE clock' = clock /\ stepped' = stepped
  BY <1>12, <1>13, <1>14, <1>15, <1>16, StepShows DEF Tick, StepBack
<1>17. CASE (Tick \/ StepBack) /\ running' = running /\ total' = total
  BY <1>15, <1>17 DEF Tick, StepBack
<1> HIDE DEF running, total
<1> QED
  BY <1>16, <1>17, StepShows

\* As long as the clock has not been set back, no instant of a thread is counted twice
\* on the same line: what it has been charged and what is still to be charged never
\* exceed the time that has passed for each thread, for any number of them.
THEOREM TimeIsCounted == Spec => []TimeIsNotInvented
<1>1. TimeInv => TimeIsNotInvented
  BY DEF TimeInv, TimeIsNotInvented, NotInvented, Pendings, Index
<1> QED
  BY <1>1, TimeInit, TimeStep, Invariance, PTL DEF Spec

-----------------------------------------------------------------------------
(* The report is exact.                                                    *)

\* Every score is what is left of the exact sum in unsigned arithmetic.
ExactInv ==
  /\ exact = [f \in Files |-> [i \in Index |-> exact[f][i]]]
  /\ \A f \in Files, i \in Index :
       /\ exact[f][i] \in -ExactBound .. ExactBound
       /\ Score(f, i) = exact[f][i] % TimeMod

LEMMA ExactInit == InitHistory => ExactInv
<1> SUFFICES ASSUME InitHistory PROVE ExactInv
  OBVIOUS
<1>1. \A f \in Files, i \in Index : Score(f, i) = 0
  BY DEF InitHistory, Init, NoEntries, Score, CellOf, SizeOf, Index
<1>2. 0 % TimeMod = 0
  BY RemainderOfSmall, TimeAssumption
<1>3. 0 \in -ExactBound .. ExactBound
  BY ExactAssumption
<1> QED
  BY <1>1, <1>2, <1>3 DEF InitHistory, ExactInv, Indexes, Index

\* A stopwatch that keeps its start, or has a new one, is not read out.
LEMMA NotRead ==
  ASSUME NEW th \in Threads, NEW f \in Files, NEW i \in Index,
         \/ StartOf(th, f, i)' = StartOf(th, f, i)
         \/ StartOf(th, f, i)' # 0
         \/ process'[th] = NoEntries
  PROVE  Reading(th, f, i) = 0
  BY DEF Reading, has_value, NOVALUE

LEMMA ExactStep ==
  IInv /\ IInv' /\ ExactInv /\ [NextHistory]_<<vars, exact>> => ExactInv'
<1> SUFFICES ASSUME IInv, IInv', ExactInv, [NextHistory]_<<vars, exact>> PROVE ExactInv'
  OBVIOUS
<1>1. CASE UNCHANGED <<vars, exact>>
  BY <1>1 DEF ExactInv, vars, Score
<1>2. CASE NextHistory
  <2>1. [Next]_vars
    BY <1>2 DEF NextHistory
  <2>2. exact' = [f \in Files |-> [i \in Index |->
          exact[f][i] + SumFunction([th \in Threads |-> Reading(th, f, i)])]]
    BY <1>2 DEF NextHistory, Indexes, Index
  <2>3. \A f \in Files, i \in Index : exact'[f][i] \in -ExactBound .. ExactBound
    BY <1>2 DEF NextHistory, Indexes, Index
  <2>4. ASSUME NEW f \in Files, NEW i \in Index
        PROVE  Score(f, i)' = exact'[f][i] % TimeMod
    <3> DEFINE shown == [th \in Threads |-> Reading(th, f, i)]
    <3>1. /\ clock \in Nat \ {0} /\ Score(f, i) \in Nat /\ Score(f, i) < TimeMod
          /\ \A th \in Threads : StartOf(th, f, i) \in Nat
          /\ TimeMod \in Nat \ {0}
          /\ exact[f][i] \in Int /\ Score(f, i) = exact[f][i] % TimeMod
      BY CellTypes, TimeAssumption, ExactAssumption DEF IInv, TypeOK, CellsFit, ExactInv
    <3>2. shown \in [Threads -> Int]
      BY <3>1 DEF Reading
    <3>3. \A th \in Threads : shown[th] = Reading(th, f, i)
      OBVIOUS
    <3>4. exact'[f][i] = exact[f][i] + SumFunction(shown)
      BY <2>2
    <3>5. \A th \in Threads : /\ running[th][f][i] = StartOf(th, f, i)
                              /\ running'[th][f][i] = StartOf(th, f, i)'
      BY DEF running
    <3>6. total[f][i] = Score(f, i) /\ total'[f][i] = Score(f, i)'
      BY DEF total
    <3>7. running \in [Threads -> [Files -> [Index -> 0 .. MaxClock]]]
      BY CellTypes DEF IInv, CellsFit, running
    <3> HIDE DEF shown
    \* No stopwatch of the line is read out.
    <3>8. ASSUME \A th \in Threads : Reading(th, f, i) = 0, Score(f, i)' = Score(f, i)
          PROVE  Score(f, i)' = exact'[f][i] % TimeMod
      <4>1. SumFunction(shown) = 0
        BY <3>2, <3>3, <3>8, SumOfZeros, ThreadsAssumption
      <4> QED
        BY <3>1, <3>4, <3>8, <4>1
    \* One is.
    <3>9. ASSUME NEW th \in Threads, \A u \in Threads \ {th} : Reading(u, f, i) = 0,
                 Score(f, i)' = (Score(f, i) + Reading(th, f, i)) % TimeMod
          PROVE  Score(f, i)' = exact'[f][i] % TimeMod
      <4>1. SumFunction(shown) = shown[th] /\ shown[th] \in Int
        BY <3>2, <3>3, <3>9, SumOfOne, ThreadsAssumption
      <4>2. ((exact[f][i] % TimeMod) + shown[th]) % TimeMod = (exact[f][i] + shown[th]) % TimeMod
        BY <3>1, <4>1, RemainderOfSum
      <4> QED
        BY <3>1, <3>3, <3>4, <3>9, <4>1, <4>2
    <3>10. ASSUME NEW th \in Threads, NEW g \in Files, NEW j \in Index,
                  Timers!ReachFirstLine(th, g, j)
           PROVE  Score(f, i)' = exact'[f][i] % TimeMod
      <4>1. running' = [running EXCEPT ![th][g][j] = clock] /\ total' = total
        BY <3>10 DEF Timers!ReachFirstLine, running, total, Index
      <4>2. \A u \in Threads : running'[u][f][i] =
              IF u = th /\ f = g /\ i = j THEN clock ELSE running[u][f][i]
        <5> HIDE DEF running
        <5> QED
          BY <3>7, <4>1, CellWritten
      <4>3. \A u \in Threads : StartOf(u, f, i)' = StartOf(u, f, i) \/ StartOf(u, f, i)' # 0
        BY <3>1, <3>5, <4>2
      <4>4. \A u \in Threads : Reading(u, f, i) = 0
        BY <4>3, NotRead
      <4> QED
        BY <3>6, <3>8, <4>1, <4>4
    <3>11. ASSUME NEW th \in Threads, NEW g \in Files, NEW j \in Index, NEW p \in Index,
                  Timers!ReachLine(th, g, j, p)
           PROVE  Score(f, i)' = exact'[f][i] % TimeMod
      <4>1. /\ p < j
            /\ running' = [running EXCEPT ![th][g][j] = clock, ![th][g][p] = 0]
            /\ total' = IF running[th][g][p] = 0 THEN total
                        ELSE [total EXCEPT ![g][p] = (@ + (clock - running[th][g][p])) % TimeMod]
        BY <3>11 DEF Timers!ReachLine, Timers!Stopped, running, total, Index
      <4>2. \A u \in Threads, h \in Files, k \in Index : running'[u][h][k] =
              IF u = th /\ h = g /\ k = p THEN 0
              ELSE IF u = th /\ h = g /\ k = j THEN clock ELSE running[u][h][k]
        <5> HIDE DEF running
        <5> QED
          BY <3>7, <4>1, CellsWritten
      <4>3. process'[th] # NoEntries
        <5>1. running'[th][g][j] = clock
          <6>1. j # p
            BY <4>1 DEF Index
          <6> HIDE DEF running
          <6> QED
            BY <4>2, <6>1
        <5>2. StartOf(th, g, j)' # 0
          BY <3>1, <5>1 DEF running
        <5> QED
          BY <5>2 DEF NoEntries, StartOf, CellOf, SizeOf, Index
      <4>4. CASE f = g /\ i = p
        <5>1. \A u \in Threads \ {th} : Reading(u, f, i) = 0
          BY <3>5, <4>2, <4>4, NotRead
        <5>2. StartOf(th, f, i)' = 0
          BY <3>5, <4>2, <4>4
        <5>3. CASE StartOf(th, f, i) = 0
          <6>1. Reading(th, f, i) = 0
            BY <5>2, <5>3, NotRead
          <6>2. total'[f][i] = total[f][i]
            BY <3>5, <4>1, <4>4, <5>3
          <6>3. \A u \in Threads : Reading(u, f, i) = 0
            BY <5>1, <6>1
          <6> QED
            BY <3>6, <3>8, <6>2, <6>3
        <5>4. CASE StartOf(th, f, i) # 0
          <6>1. Reading(th, f, i) = clock - StartOf(th, f, i)
            BY <4>3, <5>2, <5>4 DEF Reading, has_value, NOVALUE
          <6>2. total'[f][i] = (total[f][i] + (clock - StartOf(th, f, i))) % TimeMod
            BY <3>5, <4>1, <4>4, <5>4 DEF total
          <6> QED
            BY <3>6, <3>9, <5>1, <6>1, <6>2
        <5> QED
          BY <5>3, <5>4
      <4>5. CASE ~(f = g /\ i = p)
        <5>1. \A u \in Threads : StartOf(u, f, i)' = StartOf(u, f, i) \/ StartOf(u, f, i)' # 0
          BY <3>1, <3>5, <4>2, <4>5
        <5>2. total'[f][i] = total[f][i]
          BY <4>1, <4>5 DEF total
        <5>3. \A u \in Threads : Reading(u, f, i) = 0
          BY <5>1, NotRead
        <5> QED
          BY <3>6, <3>8, <5>2, <5>3
      <4> QED
        BY <4>4, <4>5
    <3>12. ASSUME NEW th \in Threads, sinfo_container_free(th), Timers!Abandon(th)
           PROVE  Score(f, i)' = exact'[f][i] % TimeMod
      <4>1. process'[th] = NoEntries /\ \A u \in Threads \ {th} : process'[u] = process[u]
        BY <3>12 DEF sinfo_container_free, IInv, TypeOK
      <4>2. \A u \in Threads \ {th} : StartOf(u, f, i)' = StartOf(u, f, i)
        BY <4>1 DEF StartOf
      <4>3. \A u \in Threads : Reading(u, f, i) = 0
        BY <4>1, <4>2, NotRead
      <4>4. Score(f, i)' = Score(f, i)
        BY <3>12 DEF sinfo_container_free, Score
      <4> QED
        BY <3>8, <4>3, <4>4
    <3>13. ASSUME running' = running, total' = total
           PROVE  Score(f, i)' = exact'[f][i] % TimeMod
      <4>1. \A u \in Threads : StartOf(u, f, i)' = StartOf(u, f, i)
        BY <3>5, <3>13
      <4>2. \A u \in Threads : Reading(u, f, i) = 0
        BY <4>1, NotRead
      <4> QED
        BY <3>6, <3>8, <3>13, <4>2
    <3> HIDE DEF running, total
    <3> QED
      BY <2>1, <3>10, <3>11, <3>12, <3>13, StepShows
  <2>5. exact' = [f \in Files |-> [i \in Index |-> exact'[f][i]]]
    BY <2>2
  <2> QED
    BY <2>3, <2>4, <2>5 DEF ExactInv
<1> QED
  BY <1>1, <1>2

\* What LL2NUM makes of a sum that fits in the signed type.
LEMMA SignedIsExact ==
  ASSUME NEW e \in -ExactBound .. ExactBound
  PROVE  Signed(e % TimeMod) = e /\ (e % TimeMod = 0 => e = 0)
<1>1. /\ TimeMod \in Nat \ {0} /\ ExactBound \in Nat /\ 2 * ExactBound < TimeMod
      /\ e \in Int /\ -ExactBound <= e /\ e <= ExactBound
  BY TimeAssumption, ExactAssumption
<1>2. -TimeMod < e /\ e < TimeMod
  BY <1>1
<1>3. e % TimeMod = IF e >= 0 THEN e ELSE e + TimeMod
  BY <1>1, <1>2, RemainderOfSmall
<1> QED
  BY <1>1, <1>3 DEF Signed

LEMMA HistoryInvariance == SpecHistory => [](IInv /\ ExactInv)
<1>1. InitHistory => IInv /\ ExactInv
  BY InitInvariant, ExactInit DEF InitHistory
<1>2. [NextHistory]_<<vars, exact>> => [Next]_vars
  BY DEF NextHistory
<1>3. IInv /\ ExactInv /\ [NextHistory]_<<vars, exact>> => (IInv /\ ExactInv)'
  BY <1>2, NextInvariant, ExactStep
<1> QED
  BY <1>1, <1>3, PTL DEF SpecHistory

\* The lines that Ruby sees are the exact sums of the intervals that the stopwatches have
\* shown, negative ones included, for any number of threads and any step of the clock: the
\* wraps cancel out as long as the sums themselves fit in the signed type.
THEOREM ReportIsTheSum == SpecHistory => []ReportIsExact
<1>1. IInv /\ ExactInv => ReportIsExact
  <2> SUFFICES ASSUME IInv, ExactInv, NEW f \in Files, NEW i \in Index
               PROVE  exact[f][i] = IF i < SizeOf(scoring[f])
                                    THEN sinfo_m_lines(scoring[f])[i] ELSE 0
    BY DEF ReportIsExact, Indexes, Index
  <2>1. /\ exact[f][i] \in -ExactBound .. ExactBound
        /\ Score(f, i) = exact[f][i] % TimeMod
    BY DEF ExactInv
  <2>2. Signed(Score(f, i)) = exact[f][i] /\ (Score(f, i) = 0 => exact[f][i] = 0)
    BY <2>1, SignedIsExact
  <2>3. CASE i < SizeOf(scoring[f])
    <3>1. i \in 0 .. scoring[f].size - 1
      <4>1. scoring[f] # Qnil
        BY <2>3 DEF SizeOf, Index
      <4>2. scoring[f].size \in Lines
        BY <4>1, InfoFields DEF IInv, TypeOK, IsTable
      <4> QED
        BY <2>3, <4>1, <4>2 DEF SizeOf, Index, Lines
    <3>2. sinfo_m_lines(scoring[f])[i] = Signed(scoring[f].lines[i])
      BY <3>1 DEF sinfo_m_lines
    <3> QED
      BY <2>2, <2>3, <3>2 DEF Score, CellOf
  <2>4. CASE ~(i < SizeOf(scoring[f]))
    BY <2>2, <2>4 DEF Score, CellOf
  <2> QED
    BY <2>3, <2>4
<1> QED
  BY <1>1, HistoryInvariance, PTL

-----------------------------------------------------------------------------
(***************************************************************************)
(* The profile of a straight-line program is exact, for any number of      *)
(* threads, files and lines, whatever exceptions do (LineProfile).         *)
(***************************************************************************)

IndexOf(loc) == line2idx(LineOf(loc))
Loc(f, i) == <<f, i + 1>>

-----------------------------------------------------------------------------
(* Locations.                                                              *)

LEMMA LocationParts ==
  ASSUME NEW loc \in Locations
  PROVE  /\ FileOf(loc) \in Files /\ LineOf(loc) \in Lines \ {0} /\ LineOf(loc) \in Int
         /\ IndexOf(loc) \in Index /\ IndexOf(loc) = LineOf(loc) - 1
         /\ loc = Loc(FileOf(loc), IndexOf(loc))
  BY LineAssumption DEF Locations, FileOf, LineOf, Lines, IndexOf, line2idx, Index, Loc

LEMMA LocationOf ==
  ASSUME NEW f \in Files, NEW i \in Index
  PROVE  /\ Loc(f, i) \in Locations /\ FileOf(Loc(f, i)) = f
         /\ LineOf(Loc(f, i)) = i + 1 /\ IndexOf(Loc(f, i)) = i
  BY LineAssumption DEF Locations, FileOf, LineOf, IndexOf, line2idx, Index, Loc

LEMMA ReachableAreLocations ==
  /\ Reachable \subseteq Locations
  /\ FirstLines \subseteq Reachable
  /\ \A edge \in Flow : /\ edge[1] \in Locations /\ edge[2] \in Reachable
                        /\ FileOf(edge[1]) = FileOf(edge[2])
  /\ \A call \in Calls : call[1] \in Locations /\ call[2] \in FirstLines
  BY ProgramAssumption DEF Reachable, FirstLines

\* Two lines of one file, one of which follows the other.
LEMMA Between ==
  ASSUME TopToBottom, NEW f \in Files, NEW a \in Index, NEW i \in Index,
         <<Loc(f, a), Loc(f, i)>> \in Flow
  PROVE  a < i /\ \A j \in Index : Loc(f, j) \in Reachable => j <= a \/ i <= j
<1> DEFINE edge == <<Loc(f, a), Loc(f, i)>>
<1>1. LineOf(edge[1]) = a + 1 /\ LineOf(edge[2]) = i + 1 /\ FileOf(edge[1]) = f
  BY LocationOf
<1>2. /\ LineOf(edge[1]) < LineOf(edge[2])
      /\ \A loc \in Reachable : FileOf(loc) = FileOf(edge[1]) =>
           LineOf(loc) <= LineOf(edge[1]) \/ LineOf(edge[2]) <= LineOf(loc)
  BY DEF TopToBottom
<1>3. \A j \in Index : FileOf(Loc(f, j)) = f /\ LineOf(Loc(f, j)) = j + 1 /\ j \in Int
  BY LocationOf DEF Index
<1> HIDE DEF edge
<1> QED
  BY <1>1, <1>2, <1>3 DEF Index

\* Nothing is reached above a first line.
LEMMA Above ==
  ASSUME OneMethodPerFile, NEW f \in Files, NEW i \in Index, Loc(f, i) \in FirstLines
  PROVE  \A j \in Index : Loc(f, j) \in Reachable => i <= j
<1> SUFFICES ASSUME NEW j \in Index, Loc(f, j) \in Reachable PROVE i <= j
  OBVIOUS
<1>1. /\ FileOf(Loc(f, j)) = f /\ LineOf(Loc(f, j)) = j + 1
      /\ FileOf(Loc(f, i)) = f /\ LineOf(Loc(f, i)) = i + 1
  BY LocationOf
<1>2. LineOf(Loc(f, i)) <= LineOf(Loc(f, j))
  BY <1>1 DEF OneMethodPerFile
<1> QED
  BY <1>1, <1>2 DEF Index

-----------------------------------------------------------------------------
(* The invariant.                                                          *)

Frames == [at : Reachable, since : Nat \ {0}]

StackType ==
  /\ stack = [th \in Threads |-> stack[th]]
  /\ \A th \in Threads : stack[th] \in Seq(Frames)

WorkedType == worked \in [Locations -> Nat]

\* No thread is in two methods of the same file.
Ranked(rank) ==
  \A th \in Threads : \A d, e \in 1 .. Len(stack[th]) :
    d < e => rank[FileOf(stack[th][d].at)] < rank[FileOf(stack[th][e].at)]

\* The cached line before a line is the one that the program goes on from.
CacheFollows ==
  \A f \in Files, i \in Index : PrevCell(f, i) >= 0 =>
    /\ PrevCell(f, i) \in Index
    /\ Loc(f, PrevCell(f, i)) \in Reachable
    /\ <<Loc(f, PrevCell(f, i)), Loc(f, i)>> \in Flow

\* Stopwatches run for lines that threads reach.
StartsReachable ==
  \A th \in Threads, f \in Files, i \in Index :
    StartOf(th, f, i) # 0 => Loc(f, i) \in Reachable

ScoresAreExact == \A loc \in Locations : ScoreAt(loc) = worked[loc]

Untroubled == fault = Qnil /\ ~stepped

ProfileInv(rank) ==
  /\ IInv /\ TimeInv /\ Untroubled
  /\ StackType /\ WorkedType /\ Ranked(rank)
  /\ CacheFollows /\ StartsReachable
  /\ StopwatchRuns /\ ScoresAreExact

-----------------------------------------------------------------------------
(* The events of a straight-line program.                                  *)

\* At the first line of a method there is no line before.
LEMMA NoneBefore ==
  ASSUME OneMethodPerFile, TopToBottom, CacheFollows, StartsReachable,
         NEW th \in Threads, NEW f \in Files, NEW i \in Index, Loc(f, i) \in FirstLines
  PROVE  PrevOf(th, f, i) = {}
<1> SUFFICES ASSUME NEW p \in PrevOf(th, f, i) PROVE FALSE
  OBVIOUS
<1>1. \A j \in Index : Loc(f, j) \in Reachable => i <= j
  BY Above
<1>2. CASE PrevCell(f, i) >= 0
  <2>1. /\ PrevCell(f, i) \in Index /\ Loc(f, PrevCell(f, i)) \in Reachable
        /\ <<Loc(f, PrevCell(f, i)), Loc(f, i)>> \in Flow
    BY <1>2 DEF CacheFollows
  <2>2. PrevCell(f, i) < i
    BY <2>1, Between
  <2> QED
    BY <1>1, <2>1, <2>2 DEF Index
<1>3. CASE ~(PrevCell(f, i) >= 0)
  <2>1. p \in 0 .. i - 1 /\ running[th][f][p] # 0
    BY <1>3 DEF PrevOf, Previous, has_value, NOVALUE
  <2>2. p \in Index /\ p < i
    BY <2>1, LineAssumption DEF Index
  <2>3. StartOf(th, f, p) # 0
    BY <2>1, <2>2 DEF running
  <2>4. Loc(f, p) \in Reachable
    BY <2>2, <2>3 DEF StartsReachable
  <2> QED
    BY <1>1, <2>2, <2>4 DEF Index
<1> QED
  BY <1>2, <1>3

\* Where a method goes on, the line before is the one it comes from.
LEMMA OneBefore ==
  ASSUME TopToBottom, CacheFollows, StartsReachable,
         NEW th \in Threads, NEW f \in Files, NEW i \in Index, NEW a \in Index,
         <<Loc(f, a), Loc(f, i)>> \in Flow, Loc(f, a) \in Reachable, StartOf(th, f, a) # 0
  PROVE  PrevOf(th, f, i) = {a}
<1>1. a < i /\ \A j \in Index : Loc(f, j) \in Reachable => j <= a \/ i <= j
  BY Between
<1>2. CASE PrevCell(f, i) >= 0
  <2> DEFINE p == PrevCell(f, i)
  <2>1. p \in Index /\ Loc(f, p) \in Reachable /\ <<Loc(f, p), Loc(f, i)>> \in Flow
    BY <1>2 DEF CacheFollows
  <2>2. PrevOf(th, f, i) = {p}
    BY <1>2 DEF PrevOf, Previous
  <2> HIDE DEF p
  <2>3. p < i /\ (a <= p \/ i <= a)
    BY <2>1, Between
  <2>4. p = a
    BY <1>1, <2>1, <2>3 DEF Index
  <2> QED
    BY <2>2, <2>4
<1>3. CASE ~(PrevCell(f, i) >= 0)
  <2>1. \A j \in Index : running[th][f][j] = StartOf(th, f, j)
    BY DEF running
  <2>2. a \in 0 .. i - 1 /\ running[th][f][a] # 0
    BY <1>1, <2>1 DEF Index
  <2>3. \A j \in a + 1 .. i - 1 : running[th][f][j] = 0
    <3> SUFFICES ASSUME NEW j \in a + 1 .. i - 1, running[th][f][j] # 0 PROVE FALSE
      OBVIOUS
    <3>1. j \in Index /\ ~(j <= a) /\ ~(i <= j)
      BY LineAssumption DEF Index
    <3>2. Loc(f, j) \in Reachable
      BY <2>1, <3>1 DEF StartsReachable
    <3> QED
      BY <1>1, <3>1, <3>2
  <2> HIDE DEF running
  <2>4. PrevOf(th, f, i) = {p \in 0 .. i - 1 : /\ running[th][f][p] # 0
                                              /\ \A j \in p + 1 .. i - 1 : running[th][f][j] = 0}
    BY <1>3 DEF PrevOf, Previous, has_value, NOVALUE
  <2>5. a \in PrevOf(th, f, i)
    BY <2>2, <2>3, <2>4
  <2>6. ASSUME NEW p \in PrevOf(th, f, i) PROVE p = a
    <3>1. /\ p \in 0 .. i - 1 /\ running[th][f][p] # 0
          /\ \A j \in p + 1 .. i - 1 : running[th][f][j] = 0
      BY <2>4, <2>6
    <3>2. ~(p < a)
      BY <2>2, <3>1 DEF Index
    <3>3. ~(a < p)
      BY <2>3, <3>1 DEF Index
    <3> QED
      BY <3>1, <3>2, <3>3 DEF Index
  <2> QED
    BY <2>5, <2>6
<1> QED
  BY <1>2, <1>3

\* An event at the first line of a method starts one stopwatch and changes nothing else.
LEMMA FirstEvent ==
  ASSUME NEW rank, TopToBottom, OneMethodPerFile, ProfileInv(rank),
         NEW th \in Threads, NEW f \in Files, NEW i \in Index, Loc(f, i) \in FirstLines,
         Event(th, Loc(f, i))
  PROVE  /\ \A u \in Threads, g \in Files, j \in Index : StartOf(u, g, j)' =
              IF u = th /\ g = f /\ j = i THEN clock ELSE StartOf(u, g, j)
         /\ \A g \in Files, j \in Index : /\ Score(g, j)' = Score(g, j)
                                          /\ PrevCell(g, j)' = PrevCell(g, j)
<1> DEFINE line == LineOf(Loc(f, i))
<1>1. /\ FileOf(Loc(f, i)) = f /\ line2idx(line) = i /\ line \in Lines
  BY LocationOf, LocationParts DEF IndexOf
<1>2. TypeOK /\ CachedPrevIsScored /\ sinfo_measure(th, f, line)
  BY <1>1 DEF ProfileInv, IInv, Event
<1> HIDE DEF line
<1>3. PrevOf(th, f, i) = {}
  BY NoneBefore DEF ProfileInv
<1>4. Timers!ReachFirstLine(th, f, i)
  BY <1>1, <1>2, <1>3, MeasureShows
<1>5. running' = [running EXCEPT ![th][f][i] = clock] /\ total' = total
  BY <1>4 DEF Timers!ReachFirstLine, running, total, Index
<1>6. running \in [Threads -> [Files -> [Index -> 0 .. MaxClock]]]
  BY <1>2, CellTypes DEF CellsFit, running
<1>7. \A u \in Threads, g \in Files, j \in Index : running'[u][g][j] =
        IF u = th /\ g = f /\ j = i THEN clock ELSE running[u][g][j]
  <2> HIDE DEF running
  <2> QED
    BY <1>5, <1>6, CellWritten
<1>8. \A g \in Files, j \in Index : PrevCell(g, j)' = PrevCell(g, j)
  BY <1>1, <1>2, <1>3, MeasureCaches
<1>9. \A g \in Files, j \in Index : total[g][j] = Score(g, j) /\ total'[g][j] = Score(g, j)'
  BY DEF total
<1>10. \A u \in Threads, g \in Files, j \in Index :
         running[u][g][j] = StartOf(u, g, j) /\ running'[u][g][j] = StartOf(u, g, j)'
  BY DEF running
<1> HIDE DEF running, total
<1> QED
  BY <1>5, <1>7, <1>8, <1>9, <1>10

\* One thread's share of a sum.
LEMMA OneShare ==
  ASSUME NEW g \in [Threads -> Nat], NEW th \in Threads
  PROVE  g[th] <= SumFunction(g)
<1> DEFINE rest == [u \in Threads |-> IF u = th THEN 0 ELSE g[u]]
           none == [u \in Threads |-> 0]
<1>1. /\ rest \in [Threads -> Nat] /\ rest \in [Threads -> Int] /\ none \in [Threads -> Int]
      /\ rest[th] + g[th] <= g[th] /\ g[th] \in Nat /\ g \in [Threads -> Int]
      /\ \A u \in Threads \ {th} : rest[u] = g[u]
      /\ \A u \in Threads : none[u] <= rest[u] /\ none[u] = 0
  OBVIOUS
<1> HIDE DEF rest, none
<1>2. SumFunction(rest) + g[th] <= SumFunction(g)
  BY <1>1, OneReset
<1>3. SumFunction(none) = 0 /\ SumFunction(none) <= SumFunction(rest)
  BY <1>1, SumOfZeros, SumMonotone, ThreadsAssumption
<1>4. SumFunction(rest) \in Int /\ SumFunction(g) \in Int
  BY <1>1, SumType, ThreadsAssumption
<1> QED
  BY <1>1, <1>2, <1>3, <1>4

\* What a thread is to be charged fits.
LEMMA ChargeFits ==
  ASSUME TypeOK, TimeInv, ~stepped, TimesFit,
         NEW th \in Threads, NEW f \in Files, NEW i \in Index, StartOf(th, f, i) # 0
  PROVE  /\ StartOf(th, f, i) \in Nat /\ StartOf(th, f, i) <= clock /\ clock \in Nat
         /\ Score(f, i) \in Nat
         /\ Score(f, i) + (clock - StartOf(th, f, i)) < TimeMod
<1>1. Started(f, i) /\ NotInvented(f, i)
  BY DEF TimeInv
<1>2. /\ StartOf(th, f, i) \in Nat /\ Score(f, i) \in Nat
      /\ clock \in Nat \ {0} /\ clock <= MaxClock
  BY CellTypes, TimeAssumption DEF CellsFit, TypeOK
<1>3. Pendings(f, i) \in [Threads -> Nat]
  BY <1>1, PendingsType DEF PendingsFit
<1> DEFINE fn == Pendings(f, i)
<1>4. fn[th] = clock - StartOf(th, f, i)
  BY DEF Pendings, Pending, has_value, NOVALUE
<1>5. StartOf(th, f, i) <= clock
  BY <1>1 DEF Started
<1> DEFINE card == Cardinality(Threads)
<1>6. card \in Nat
  BY ThreadsAssumption, FS_CardinalityType
<1>7. Score(f, i) + SumFunction(fn) <= card * (clock - 1) /\ card * (MaxClock - 1) < TimeMod
  BY <1>1 DEF NotInvented, TimesFit
<1> HIDE DEF fn, card
<1>8. fn[th] <= SumFunction(fn) /\ SumFunction(fn) \in Int
  <2>1. fn \in [Threads -> Nat] /\ fn \in [Threads -> Int]
    BY <1>3 DEF fn
  <2> QED
    BY <2>1, OneShare, SumType, ThreadsAssumption
<1>9. card * (clock - 1) <= card * (MaxClock - 1)
      /\ card * (clock - 1) \in Int /\ card * (MaxClock - 1) \in Int
  <2>1. \A n \in Nat, a, b \in Nat : a <= b => n * a <= n * b /\ n * a \in Int /\ n * b \in Int
    OBVIOUS
  <2>2. clock - 1 \in Nat /\ MaxClock - 1 \in Nat /\ clock - 1 <= MaxClock - 1
    BY <1>2, TimeAssumption
  <2> QED
    BY <1>6, <2>1, <2>2
<1> DEFINE now == card * (clock - 1)
           ever == card * (MaxClock - 1)
<1>10. now \in Int /\ ever \in Int /\ now <= ever /\ Score(f, i) + SumFunction(fn) <= now /\ ever < TimeMod
  BY <1>7, <1>9
<1> HIDE DEF now, ever
<1>11. Score(f, i) + fn[th] < TimeMod
  BY <1>2, <1>4, <1>5, <1>8, <1>10, TimeAssumption
<1> QED
  BY <1>2, <1>4, <1>5, <1>11

\* An event where a method goes on starts one stopwatch, stops that of the line the
\* method comes from, and charges that line exactly what it showed.
LEMMA NextEvent ==
  ASSUME NEW rank, TopToBottom, TimesFit, ProfileInv(rank),
         NEW th \in Threads, NEW f \in Files, NEW i \in Index, NEW a \in Index,
         <<Loc(f, a), Loc(f, i)>> \in Flow, Loc(f, a) \in Reachable, StartOf(th, f, a) # 0,
         Event(th, Loc(f, i))
  PROVE  /\ \A u \in Threads, g \in Files, j \in Index : StartOf(u, g, j)' =
              IF u = th /\ g = f /\ j = a THEN 0
              ELSE IF u = th /\ g = f /\ j = i THEN clock ELSE StartOf(u, g, j)
         /\ \A g \in Files, j \in Index : Score(g, j)' =
              IF g = f /\ j = a THEN Score(g, j) + (clock - StartOf(th, f, a)) ELSE Score(g, j)
         /\ \A g \in Files, j \in Index :
              \/ PrevCell(g, j)' = PrevCell(g, j)
              \/ g = f /\ j = i /\ PrevCell(g, j)' = a
<1> DEFINE line == LineOf(Loc(f, i))
<1>1. /\ FileOf(Loc(f, i)) = f /\ line2idx(line) = i /\ line \in Lines
  BY LocationOf, LocationParts DEF IndexOf
<1>2. TypeOK /\ CachedPrevIsScored /\ TimeInv /\ ~stepped /\ sinfo_measure(th, f, line)
  BY <1>1 DEF ProfileInv, IInv, Event, Untroubled
<1> HIDE DEF line
<1>3. PrevOf(th, f, i) = {a}
  BY OneBefore DEF ProfileInv
<1>4. Timers!ReachLine(th, f, i, a)
  BY <1>1, <1>2, <1>3, MeasureShows
<1>5. /\ running' = [running EXCEPT ![th][f][i] = clock, ![th][f][a] = 0]
      /\ total' = IF running[th][f][a] = 0 THEN total
                  ELSE [total EXCEPT ![f][a] = (@ + (clock - running[th][f][a])) % TimeMod]
  BY <1>4 DEF Timers!ReachLine, Timers!Stopped, running, total, Index
<1>6. running \in [Threads -> [Files -> [Index -> 0 .. MaxClock]]]
  BY <1>2, CellTypes DEF CellsFit, running
<1>7. \A u \in Threads, g \in Files, j \in Index : running'[u][g][j] =
        IF u = th /\ g = f /\ j = a THEN 0
        ELSE IF u = th /\ g = f /\ j = i THEN clock ELSE running[u][g][j]
  <2> HIDE DEF running
  <2> QED
    BY <1>5, <1>6, CellsWritten
<1>8. \A g \in Files, j \in Index :
        \/ PrevCell(g, j)' = PrevCell(g, j)
        \/ g = f /\ j = i /\ PrevCell(g, j)' = a
  BY <1>1, <1>2, <1>3, MeasureCaches
<1>9. \A g \in Files, j \in Index : total[g][j] = Score(g, j) /\ total'[g][j] = Score(g, j)'
  BY DEF total
<1>10. \A u \in Threads, g \in Files, j \in Index :
         running[u][g][j] = StartOf(u, g, j) /\ running'[u][g][j] = StartOf(u, g, j)'
  BY DEF running
<1>11. total = [g \in Files |-> [j \in Index |-> total[g][j]]]
  BY DEF total
<1>12. (Score(f, a) + (clock - StartOf(th, f, a))) % TimeMod = Score(f, a) + (clock - StartOf(th, f, a))
  <2> DEFINE sum == Score(f, a) + (clock - StartOf(th, f, a))
  <2>1. sum \in Nat /\ sum < TimeMod /\ TimeMod \in Nat \ {0}
    BY <1>2, ChargeFits, TimeAssumption
  <2> HIDE DEF sum
  <2>2. sum % TimeMod = sum
    BY <2>1, RemainderOfSmall
  <2> QED
    BY <2>2 DEF sum
<1> HIDE DEF running, total
<1>13. \A g \in Files, j \in Index : Score(g, j)' =
         IF g = f /\ j = a THEN Score(g, j) + (clock - StartOf(th, f, a)) ELSE Score(g, j)
  <2>1. running[th][f][a] # 0 /\ running[th][f][a] = StartOf(th, f, a)
    BY <1>10
  <2>2. total' = [total EXCEPT ![f][a] = (@ + (clock - StartOf(th, f, a))) % TimeMod]
    BY <1>5, <2>1
  <2>3. \A g \in Files, j \in Index : total'[g][j] =
          IF g = f /\ j = a THEN (total[f][a] + (clock - StartOf(th, f, a))) % TimeMod
          ELSE total[g][j]
    BY <1>11, <2>2
  <2> QED
    BY <1>9, <1>12, <2>3
<1> QED
  BY <1>7, <1>8, <1>10, <1>13

-----------------------------------------------------------------------------
(* The stack of a thread.                                                  *)

\* A frame more on top, the top frame moved on, and the first frames left.
LEMMA Pushed ==
  ASSUME NEW T, NEW s \in Seq(T), NEW x \in T
  PROVE  /\ Append(s, x) \in Seq(T) /\ Len(Append(s, x)) = Len(s) + 1 /\ Len(s) \in Nat
         /\ \A d \in 1 .. Len(s) : Append(s, x)[d] = s[d]
         /\ Append(s, x)[Len(s) + 1] = x
  OBVIOUS

LEMMA Left ==
  ASSUME NEW T, NEW s \in Seq(T), NEW n \in 0 .. Len(s)
  PROVE  /\ SubSeq(s, 1, n) \in Seq(T) /\ Len(SubSeq(s, 1, n)) = n
         /\ \A d \in 1 .. n : SubSeq(s, 1, n)[d] = s[d]
  OBVIOUS

LEMMA Moved ==
  ASSUME NEW T, NEW s \in Seq(T), s # <<>>, NEW x \in T
  PROVE  LET moved == Append(SubSeq(s, 1, Len(s) - 1), x)
         IN /\ moved \in Seq(T) /\ Len(moved) = Len(s) /\ Len(s) \in Nat \ {0}
            /\ \A d \in 1 .. Len(s) - 1 : moved[d] = s[d]
            /\ moved[Len(s)] = x
<1> DEFINE below == SubSeq(s, 1, Len(s) - 1)
<1>1. Len(s) \in Nat \ {0} /\ Len(s) - 1 \in 0 .. Len(s)
  OBVIOUS
<1>2. /\ below \in Seq(T) /\ Len(below) = Len(s) - 1
      /\ \A d \in 1 .. Len(s) - 1 : below[d] = s[d]
  BY <1>1, Left
<1> HIDE DEF below
<1>3. /\ Append(below, x) \in Seq(T) /\ Len(Append(below, x)) = Len(below) + 1
      /\ \A d \in 1 .. Len(below) : Append(below, x)[d] = below[d]
      /\ Append(below, x)[Len(below) + 1] = x
  BY <1>2, Pushed
<1> QED
  BY <1>1, <1>2, <1>3 DEF below

\* What each frame of a stack of the invariant is.
FrameFits(th, frame) ==
  /\ frame \in Frames
  /\ StartOf(th, FileOf(frame.at), IndexOf(frame.at)) = frame.since

StackFits(rank, th) ==
  /\ stack[th] \in Seq(Frames)
  /\ \A d \in 1 .. Len(stack[th]) : FrameFits(th, stack[th][d])
  /\ \A d, e \in 1 .. Len(stack[th]) :
       d < e => rank[FileOf(stack[th][d].at)] < rank[FileOf(stack[th][e].at)]

LEMMA StacksFit ==
  \A rank : (\A th \in Threads : StackFits(rank, th)) /\ stack = [th \in Threads |-> stack[th]]
              <=> StackType /\ Ranked(rank) /\ StopwatchRuns
<1> SUFFICES ASSUME NEW rank
             PROVE  (\A th \in Threads : StackFits(rank, th))
                      /\ stack = [th \in Threads |-> stack[th]]
                    <=> StackType /\ Ranked(rank) /\ StopwatchRuns
  OBVIOUS
<1>1. \A th \in Threads : stack[th] \in Seq(Frames) =>
        \A d \in 1 .. Len(stack[th]) : stack[th][d] \in Frames
  OBVIOUS
<1> QED
  BY <1>1 DEF StackFits, FrameFits, StackType, Ranked, StopwatchRuns, IndexOf

LEMMA StacksFitNext ==
  (\A rank : (\A th \in Threads : StackFits(rank, th)) /\ stack = [th \in Threads |-> stack[th]]
               <=> StackType /\ Ranked(rank) /\ StopwatchRuns)'
  BY StacksFit, PTL

\* The stopwatches of a stack run; its files rise.
RunsIn(u, s) ==
  \A d \in 1 .. Len(s) : StartOf(u, FileOf(s[d].at), IndexOf(s[d].at)) = s[d].since
Rises(rank, s) ==
  \A d, e \in 1 .. Len(s) : d < e => rank[FileOf(s[d].at)] < rank[FileOf(s[e].at)]

LEMMA StackFrom ==
  ASSUME NEW rank, NEW u \in Threads, NEW s \in Seq(Frames), stack'[u] = s,
         RunsIn(u, s)', Rises(rank, s)
  PROVE  StackFits(rank, u)'
<1>1. \A d \in 1 .. Len(s) : s[d] \in Frames
  OBVIOUS
<1> QED
  BY <1>1 DEF StackFits, FrameFits, StartOf, RunsIn, Rises

\* A stack that does not change still fits where its thread's stopwatches do not change.
LEMMA StackStays ==
  ASSUME NEW rank, NEW u \in Threads, StackFits(rank, u), stack'[u] = stack[u],
         \A f \in Files, i \in Index : StartOf(u, f, i)' = StartOf(u, f, i)
  PROVE  StackFits(rank, u)'
<1> DEFINE s == stack[u]
<1>1. /\ s \in Seq(Frames) /\ stack'[u] = s
      /\ \A d \in 1 .. Len(s) : FrameFits(u, s[d])
      /\ \A d, e \in 1 .. Len(s) : d < e => rank[FileOf(s[d].at)] < rank[FileOf(s[e].at)]
  BY DEF StackFits
<1>2. \A d \in 1 .. Len(s) : FileOf(s[d].at) \in Files /\ IndexOf(s[d].at) \in Index
  BY <1>1, LocationParts, ReachableAreLocations DEF FrameFits, Frames
<1> HIDE DEF s
<1>3. \E z : z = s
  OBVIOUS
<1>4. PICK z : z = s
  BY <1>3
<1>5. \A d \in 1 .. Len(z) : StartOf(u, FileOf(z[d].at), IndexOf(z[d].at))' = z[d].since
  <2> SUFFICES ASSUME NEW d \in 1 .. Len(z)
               PROVE  StartOf(u, FileOf(z[d].at), IndexOf(z[d].at))' = z[d].since
    OBVIOUS
  <2>1. FileOf(z[d].at) \in Files /\ IndexOf(z[d].at) \in Index
    BY <1>2, <1>4
  <2>2. StartOf(u, FileOf(z[d].at), IndexOf(z[d].at)) = z[d].since
    BY <1>1, <1>4 DEF FrameFits
  <2> QED
    BY <2>1, <2>2
<1>6. RunsIn(u, z)' /\ Rises(rank, z)
  BY <1>1, <1>4, <1>5 DEF RunsIn, Rises
<1> QED
  BY <1>1, <1>4, <1>6, StackFrom

-----------------------------------------------------------------------------
(* The steps of the program.                                               *)

\* What is left of the invariant beside that of the measurement.
ProgramInv(rank) ==
  /\ \A th \in Threads : StackFits(rank, th)
  /\ stack = [th \in Threads |-> stack[th]]
  /\ WorkedType /\ CacheFollows /\ StartsReachable /\ ScoresAreExact

\* A method is called, from outside or by another one of a lower rank.
LEMMA CallStep ==
  ASSUME NEW rank, TopToBottom, OneMethodPerFile, ProfileInv(rank),
         NEW th \in Threads, NEW loc \in FirstLines, Event(th, loc),
         \A d \in 1 .. Len(stack[th]) : rank[FileOf(stack[th][d].at)] < rank[FileOf(loc)],
         \A d \in 1 .. Len(stack[th]) : FileOf(stack[th][d].at) # FileOf(loc),
         stack' = [stack EXCEPT ![th] = Append(@, Frame(loc))], worked' = worked
  PROVE  ProgramInv(rank)'
<1>1. PICK f \in Files, i \in Index : loc = Loc(f, i) /\ f = FileOf(loc) /\ i = IndexOf(loc)
  BY LocationParts, ReachableAreLocations
<1>2. /\ \A u \in Threads, g \in Files, j \in Index : StartOf(u, g, j)' =
           IF u = th /\ g = f /\ j = i THEN clock ELSE StartOf(u, g, j)
      /\ \A g \in Files, j \in Index : /\ Score(g, j)' = Score(g, j)
                                       /\ PrevCell(g, j)' = PrevCell(g, j)
  BY <1>1, FirstEvent
<1>3. /\ \A u \in Threads : StackFits(rank, u)
      /\ stack = [u \in Threads |-> stack[u]]
      /\ WorkedType /\ CacheFollows /\ StartsReachable /\ ScoresAreExact
      /\ clock \in Nat \ {0}
  BY StacksFit, TimeAssumption DEF ProfileInv, IInv, TypeOK
<1>4. stack' = [u \in Threads |-> stack'[u]] /\ \A u \in Threads \ {th} : stack'[u] = stack[u]
  BY <1>3
<1>5. StackFits(rank, th)'
  <2>1. PICK old, frame : old = stack[th] /\ frame = Frame(loc)
    OBVIOUS
  <2>2. /\ old \in Seq(Frames)
        /\ \A d \in 1 .. Len(old) : FrameFits(th, old[d])
        /\ \A d, e \in 1 .. Len(old) : d < e => rank[FileOf(old[d].at)] < rank[FileOf(old[e].at)]
    BY <1>3, <2>1 DEF StackFits
  <2>3. frame \in Frames /\ frame.at = loc /\ frame.since = clock
    BY <1>3, <2>1, ReachableAreLocations DEF Frame, Frames
  <2>4. PICK s : s = Append(old, frame)
    OBVIOUS
  <2>5. /\ s \in Seq(Frames) /\ Len(s) = Len(old) + 1 /\ Len(old) \in Nat
        /\ \A d \in 1 .. Len(old) : s[d] = old[d]
        /\ s[Len(old) + 1] = frame
    BY <2>2, <2>3, <2>4, Pushed
  <2>6. stack'[th] = s
    BY <1>3, <2>1, <2>4
  <2>7. ASSUME NEW d \in 1 .. Len(s)
        PROVE  StartOf(th, FileOf(s[d].at), IndexOf(s[d].at))' = s[d].since
    <3>1. CASE d = Len(old) + 1
      BY <1>1, <1>2, <2>3, <2>5, <3>1
    <3>2. CASE d \in 1 .. Len(old)
      <4>1. PICK fr : fr = old[d]
        OBVIOUS
      <4>2. FrameFits(th, fr) /\ FileOf(fr.at) # f /\ s[d] = fr
        BY <1>1, <2>1, <2>2, <2>5, <3>2, <4>1
      <4>3. FileOf(fr.at) \in Files /\ IndexOf(fr.at) \in Index
        BY <4>2, LocationParts, ReachableAreLocations DEF FrameFits, Frames
      <4>4. StartOf(th, FileOf(fr.at), IndexOf(fr.at))' = StartOf(th, FileOf(fr.at), IndexOf(fr.at))
        BY <1>2, <4>2, <4>3
      <4>5. StartOf(th, FileOf(fr.at), IndexOf(fr.at)) = fr.since
        BY <4>2 DEF FrameFits
      <4> QED
        BY <4>2, <4>4, <4>5
    <3> QED
      BY <2>5, <3>1, <3>2
  <2>8. ASSUME NEW d \in 1 .. Len(s), NEW e \in 1 .. Len(s), d < e
        PROVE  rank[FileOf(s[d].at)] < rank[FileOf(s[e].at)]
    <3>1. CASE e = Len(old) + 1
      <4>1. d \in 1 .. Len(old) /\ s[d] = old[d]
        BY <2>5, <2>8, <3>1
      <4>2. rank[FileOf(old[d].at)] < rank[FileOf(loc)]
        BY <2>1, <4>1
      <4> QED
        BY <2>3, <2>5, <3>1, <4>1, <4>2
    <3>2. CASE e \in 1 .. Len(old)
      <4>1. d \in 1 .. Len(old) /\ s[d] = old[d] /\ s[e] = old[e]
        BY <2>5, <2>8, <3>2
      <4> QED
        BY <2>2, <2>8, <3>2, <4>1
    <3> QED
      BY <2>5, <3>1, <3>2
  <2>9. RunsIn(th, s)' /\ Rises(rank, s)
    BY <2>7, <2>8 DEF RunsIn, Rises
  <2> QED
    BY <2>5, <2>6, <2>9, StackFrom
<1>6. ASSUME NEW u \in Threads \ {th} PROVE StackFits(rank, u)'
  <2>1. \A g \in Files, j \in Index : StartOf(u, g, j)' = StartOf(u, g, j)
    BY <1>2
  <2>2. StackFits(rank, u) /\ stack'[u] = stack[u]
    BY <1>3, <1>4
  <2> QED
    BY <2>1, <2>2, StackStays
<1>7. WorkedType' /\ CacheFollows'
  BY <1>2, <1>3 DEF WorkedType, CacheFollows
<1>8. StartsReachable'
  <2> SUFFICES ASSUME NEW u \in Threads, NEW g \in Files, NEW j \in Index,
                      StartOf(u, g, j)' # 0
               PROVE  Loc(g, j) \in Reachable
    BY DEF StartsReachable
  <2>1. CASE u = th /\ g = f /\ j = i
    BY <1>1, <2>1, ReachableAreLocations
  <2>2. CASE ~(u = th /\ g = f /\ j = i)
    <3>1. StartOf(u, g, j) # 0
      BY <1>2, <2>2
    <3> QED
      BY <1>3, <3>1 DEF StartsReachable
  <2> QED
    BY <2>1, <2>2
<1>9. ScoresAreExact'
  <2> SUFFICES ASSUME NEW l \in Locations PROVE ScoreAt(l)' = worked'[l]
    BY DEF ScoresAreExact
  <2>1. FileOf(l) \in Files /\ line2idx(LineOf(l)) \in Index
    BY LocationParts DEF IndexOf
  <2> QED
    BY <1>2, <1>3, <2>1 DEF ScoresAreExact, ScoreAt
<1> QED
  BY <1>4, <1>5, <1>6, <1>7, <1>8, <1>9 DEF ProgramInv

\* A method goes on to its next line.
LEMMA AdvanceStep ==
  ASSUME NEW rank \in [Files -> Nat], TopToBottom, TimesFit, ProfileInv(rank),
         NEW th \in Threads, NEW loc \in Locations, Advance(th, loc)
  PROVE  ProgramInv(rank)'
<1>1. PICK old : old = stack[th]
  OBVIOUS
<1>2. /\ \A u \in Threads : StackFits(rank, u)
      /\ stack = [u \in Threads |-> stack[u]]
      /\ WorkedType /\ CacheFollows /\ StartsReachable /\ ScoresAreExact
      /\ clock \in Nat \ {0}
  BY StacksFit, TimeAssumption DEF ProfileInv, IInv, TypeOK
<1>3. /\ old \in Seq(Frames) /\ old # <<>>
      /\ \A d \in 1 .. Len(old) : FrameFits(th, old[d])
      /\ Rises(rank, old)
  BY <1>1, <1>2 DEF StackFits, Rises, Advance, Busy
<1>4. Len(old) \in Nat \ {0} /\ Len(old) \in 1 .. Len(old)
  BY <1>3
<1>5. PICK top : top = old[Len(old)]
  OBVIOUS
<1>6. FrameFits(th, top) /\ top = Top(th)
  BY <1>1, <1>3, <1>4, <1>5 DEF Top
<1>7. PICK at, since : at = top.at /\ since = top.since
  OBVIOUS
<1>8. /\ at \in Reachable /\ since \in Nat \ {0} /\ at \in Locations
      /\ StartOf(th, FileOf(at), IndexOf(at)) = since
  BY <1>6, <1>7, ReachableAreLocations DEF FrameFits, Frames
<1>9. /\ <<at, loc>> \in Flow /\ Event(th, loc) /\ loc \in Reachable /\ FileOf(loc) = FileOf(at)
      /\ stack' = [stack EXCEPT ![th] = Append(SubSeq(old, 1, Len(old) - 1), Frame(loc))]
      /\ worked' = [worked EXCEPT ![at] = @ + (clock - since)]
  <2>1. /\ <<at, loc>> \in Flow /\ Event(th, loc)
        /\ stack' = [stack EXCEPT ![th] = Append(SubSeq(old, 1, Len(old) - 1), Frame(loc))]
        /\ worked' = [worked EXCEPT ![at] = @ + (clock - since)]
    BY <1>1, <1>6, <1>7 DEF Advance, Below
  <2> QED
    BY <2>1, ReachableAreLocations
<1>10. PICK f \in Files, i \in Index : loc = Loc(f, i) /\ f = FileOf(loc) /\ i = IndexOf(loc)
  BY LocationParts
<1>11. PICK a \in Index : at = Loc(f, a) /\ a = IndexOf(at)
  BY <1>8, <1>9, <1>10, LocationParts
<1>12. FileOf(at) = f /\ a < i /\ StartOf(th, f, a) = since /\ since # 0
  BY <1>8, <1>9, <1>10, <1>11, Between
<1>13. /\ \A u \in Threads, g \in Files, j \in Index : StartOf(u, g, j)' =
            IF u = th /\ g = f /\ j = a THEN 0
            ELSE IF u = th /\ g = f /\ j = i THEN clock ELSE StartOf(u, g, j)
       /\ \A g \in Files, j \in Index : Score(g, j)' =
            IF g = f /\ j = a THEN Score(g, j) + (clock - since) ELSE Score(g, j)
       /\ \A g \in Files, j \in Index :
            \/ PrevCell(g, j)' = PrevCell(g, j)
            \/ g = f /\ j = i /\ PrevCell(g, j)' = a
  <2>1. /\ <<Loc(f, a), Loc(f, i)>> \in Flow /\ Loc(f, a) \in Reachable
        /\ StartOf(th, f, a) # 0 /\ Event(th, Loc(f, i))
    BY <1>8, <1>9, <1>10, <1>11, <1>12
  <2>2. StartOf(th, f, a) = since
    BY <1>12
  <2> QED
    BY <2>1, <2>2, NextEvent
<1>14. stack' = [u \in Threads |-> stack'[u]] /\ \A u \in Threads \ {th} : stack'[u] = stack[u]
  BY <1>2, <1>9
<1>15. StackFits(rank, th)'
  <2>1. PICK frame : frame = Frame(loc)
    OBVIOUS
  <2>2. frame \in Frames /\ frame.at = loc /\ frame.since = clock
    BY <1>2, <1>9, <2>1 DEF Frame, Frames
  <2>3. PICK s : s = Append(SubSeq(old, 1, Len(old) - 1), frame)
    OBVIOUS
  <2>4. /\ s \in Seq(Frames) /\ Len(s) = Len(old)
        /\ \A d \in 1 .. Len(old) - 1 : s[d] = old[d]
        /\ s[Len(old)] = frame
    BY <1>3, <2>2, <2>3, Moved
  <2>5. stack'[th] = s
    BY <1>2, <1>9, <2>1, <2>3
  <2>6. ASSUME NEW d \in 1 .. Len(old) - 1
        PROVE  d \in 1 .. Len(old) /\ rank[FileOf(old[d].at)] < rank[f]
    <3>1. d \in 1 .. Len(old) /\ d < Len(old)
      BY <1>4
    <3>2. rank[FileOf(old[d].at)] < rank[FileOf(old[Len(old)].at)]
      BY <1>3, <1>4, <3>1 DEF Rises
    <3> QED
      BY <1>5, <1>7, <1>12, <3>1, <3>2
  <2>7. ASSUME NEW d \in 1 .. Len(s)
        PROVE  StartOf(th, FileOf(s[d].at), IndexOf(s[d].at))' = s[d].since
    <3>1. CASE d = Len(old)
      <4>1. s[d].at = loc /\ s[d].since = clock
        BY <2>2, <2>4, <3>1
      <4>2. StartOf(th, f, i)' = clock
        BY <1>12, <1>13 DEF Index
      <4> QED
        BY <1>10, <4>1, <4>2
    <3>2. CASE d \in 1 .. Len(old) - 1
      <4>1. PICK fr : fr = old[d]
        OBVIOUS
      <4>2. FrameFits(th, fr) /\ rank[FileOf(fr.at)] < rank[f] /\ s[d] = fr
        BY <1>3, <2>4, <2>6, <3>2, <4>1
      <4>3. FileOf(fr.at) \in Files /\ IndexOf(fr.at) \in Index
        BY <4>2, LocationParts, ReachableAreLocations DEF FrameFits, Frames
      <4>4. FileOf(fr.at) # f
        BY <4>2, <4>3
      <4>5. StartOf(th, FileOf(fr.at), IndexOf(fr.at))' = StartOf(th, FileOf(fr.at), IndexOf(fr.at))
        BY <1>13, <4>3, <4>4
      <4>6. StartOf(th, FileOf(fr.at), IndexOf(fr.at)) = fr.since
        BY <4>2 DEF FrameFits
      <4> QED
        BY <4>2, <4>5, <4>6
    <3> QED
      BY <1>4, <2>4, <3>1, <3>2
  <2>8. ASSUME NEW d \in 1 .. Len(s), NEW e \in 1 .. Len(s), d < e
        PROVE  rank[FileOf(s[d].at)] < rank[FileOf(s[e].at)]
    <3>1. d \in 1 .. Len(old) - 1 /\ s[d] = old[d]
      BY <1>4, <2>4, <2>8
    <3>2. CASE e = Len(old)
      BY <1>10, <2>2, <2>4, <2>6, <3>1, <3>2
    <3>3. CASE e \in 1 .. Len(old) - 1
      <4>1. s[e] = old[e] /\ d \in 1 .. Len(old) /\ e \in 1 .. Len(old)
        BY <1>4, <2>4, <3>1, <3>3
      <4> QED
        BY <1>3, <2>8, <3>1, <4>1 DEF Rises
    <3> QED
      BY <1>4, <2>4, <3>2, <3>3
  <2>9. RunsIn(th, s)' /\ Rises(rank, s)
    BY <2>7, <2>8 DEF RunsIn, Rises
  <2> QED
    BY <2>4, <2>5, <2>9, StackFrom
<1>16. ASSUME NEW u \in Threads \ {th} PROVE StackFits(rank, u)'
  BY <1>2, <1>13, <1>14, StackStays
<1>17. WorkedType'
  <2>1. clock - since \in Nat
    <3>1. TypeOK /\ TimeInv /\ ~stepped
      BY DEF ProfileInv, IInv, Untroubled
    <3> QED
      BY <1>8, <1>12, <3>1, ChargeFits
  <2> QED
    BY <1>2, <1>8, <1>9, <2>1 DEF WorkedType
<1>18. CacheFollows'
  <2> SUFFICES ASSUME NEW g \in Files, NEW j \in Index, PrevCell(g, j)' >= 0
               PROVE  /\ PrevCell(g, j)' \in Index
                      /\ Loc(g, PrevCell(g, j)') \in Reachable
                      /\ <<Loc(g, PrevCell(g, j)'), Loc(g, j)>> \in Flow
    BY DEF CacheFollows
  <2>1. CASE PrevCell(g, j)' = PrevCell(g, j)
    BY <1>2, <2>1 DEF CacheFollows
  <2>2. CASE g = f /\ j = i /\ PrevCell(g, j)' = a
    BY <1>8, <1>9, <1>10, <1>11, <2>2
  <2> QED
    BY <1>13, <2>1, <2>2
<1>19. StartsReachable'
  BY <1>2, <1>9, <1>10, <1>13 DEF StartsReachable
<1>20. ScoresAreExact'
  <2> SUFFICES ASSUME NEW l \in Locations PROVE ScoreAt(l)' = worked'[l]
    BY DEF ScoresAreExact
  <2>1. PICK g \in Files, j \in Index : g = FileOf(l) /\ j = IndexOf(l) /\ l = Loc(g, j)
    BY LocationParts
  <2>2. Score(g, j) = worked[l]
    BY <1>2, <2>1 DEF ScoresAreExact, ScoreAt, IndexOf
  <2>3. ScoreAt(l)' = Score(g, j)'
    BY <2>1 DEF ScoreAt, IndexOf
  <2>4. l = at <=> g = f /\ j = a
    BY <1>11, <1>12, <2>1
  <2>5. worked'[l] = IF l = at THEN worked[l] + (clock - since) ELSE worked[l]
    BY <1>2, <1>9 DEF WorkedType
  <2> QED
    BY <1>13, <2>2, <2>3, <2>4, <2>5
<1> QED
  BY <1>14, <1>15, <1>16, <1>17, <1>18, <1>19, <1>20 DEF ProgramInv

\* One or more methods are left, by a return or by an exception.
LEMMA LeaveStep ==
  ASSUME NEW rank, ProfileInv(rank), NEW th \in Threads, NEW n \in 0 .. Len(stack[th]),
         stack' = [stack EXCEPT ![th] = SubSeq(@, 1, n)], UNCHANGED <<worked, vars>>
  PROVE  ProgramInv(rank)'
<1>1. /\ \A u \in Threads : StackFits(rank, u)
      /\ stack = [u \in Threads |-> stack[u]]
      /\ WorkedType /\ CacheFollows /\ StartsReachable /\ ScoresAreExact
  BY StacksFit DEF ProfileInv
<1>2. \A u \in Threads, f \in Files, i \in Index : StartOf(u, f, i)' = StartOf(u, f, i)
  BY DEF vars, StartOf
<1>3. stack' = [u \in Threads |-> stack'[u]] /\ \A u \in Threads \ {th} : stack'[u] = stack[u]
  BY <1>1
<1>4. StackFits(rank, th)'
  <2>1. PICK old, s : old = stack[th] /\ s = SubSeq(old, 1, n)
    OBVIOUS
  <2>2. old \in Seq(Frames) /\ RunsIn(th, old) /\ Rises(rank, old) /\ n \in 0 .. Len(old)
    BY <1>1, <2>1 DEF StackFits, FrameFits, RunsIn, Rises
  <2>3. /\ s \in Seq(Frames) /\ Len(s) = n
        /\ \A d \in 1 .. n : s[d] = old[d] /\ d \in 1 .. Len(old)
    <3>1. \A d \in 1 .. n : d \in 1 .. Len(old)
      BY <2>2
    <3> QED
      BY <2>1, <2>2, <3>1, Left
  <2>4. stack'[th] = s
    BY <1>1, <2>1
  <2>5. RunsIn(th, s)
    BY <2>2, <2>3 DEF RunsIn
  <2>6. RunsIn(th, s)'
    BY <2>5 DEF RunsIn, StartOf, vars
  <2>7. Rises(rank, s)
    BY <2>2, <2>3 DEF Rises
  <2> QED
    BY <2>3, <2>4, <2>6, <2>7, StackFrom
<1>5. \A u \in Threads \ {th} : StackFits(rank, u)'
  BY <1>1, <1>2, <1>3, StackStays
<1>6. WorkedType' /\ CacheFollows' /\ StartsReachable' /\ ScoresAreExact'
  BY <1>1 DEF WorkedType, CacheFollows, PrevCell, StartsReachable, StartOf,
              ScoresAreExact, ScoreAt, Score, vars
<1> QED
  BY <1>3, <1>4, <1>5, <1>6 DEF ProgramInv

\* Nothing but the clock moves, or nothing at all.
LEMMA StandStep ==
  ASSUME NEW rank, ProfileInv(rank), UNCHANGED <<scoring, preline, process, stack, worked>>
  PROVE  ProgramInv(rank)'
<1>1. /\ \A u \in Threads : StackFits(rank, u)
      /\ stack = [u \in Threads |-> stack[u]]
      /\ WorkedType /\ CacheFollows /\ StartsReachable /\ ScoresAreExact
  BY StacksFit DEF ProfileInv
<1>2. \A u \in Threads, f \in Files, i \in Index : StartOf(u, f, i)' = StartOf(u, f, i)
  BY DEF StartOf
<1>3. \A u \in Threads : StackFits(rank, u)'
  BY <1>1, <1>2, StackStays
<1> QED
  BY <1>1, <1>3 DEF ProgramInv, WorkedType, CacheFollows, PrevCell, StartsReachable, StartOf,
                    ScoresAreExact, ScoreAt, Score

\* A thread ends, in no method.
LEMMA EndStep ==
  ASSUME NEW rank, ProfileInv(rank), NEW th \in Threads, ThreadEnds(th)
  PROVE  ProgramInv(rank)'
<1>1. /\ \A u \in Threads : StackFits(rank, u)
      /\ stack = [u \in Threads |-> stack[u]]
      /\ WorkedType /\ CacheFollows /\ StartsReachable /\ ScoresAreExact
      /\ process = [u \in Threads |-> process[u]]
  BY StacksFit DEF ProfileInv, IInv, TypeOK
<1>2. /\ stack[th] = <<>> /\ stack' = stack /\ worked' = worked
      /\ process' = [process EXCEPT ![th] = NoEntries]
      /\ scoring' = scoring /\ preline' = preline
  BY DEF ThreadEnds, Busy, sinfo_container_free, programVars
<1>3. \A u \in Threads, f \in Files, i \in Index :
        StartOf(u, f, i)' = IF u = th THEN 0 ELSE StartOf(u, f, i)
  <2>1. process'[th] = NoEntries /\ \A u \in Threads \ {th} : process'[u] = process[u]
    BY <1>1, <1>2
  <2>2. \A f \in Files, i \in Index : CellOf(NoEntries[f], i) = 0
    BY DEF NoEntries, CellOf, SizeOf, Index
  <2> QED
    BY <2>1, <2>2 DEF StartOf
<1>4. \A u \in Threads \ {th} : StackFits(rank, u)'
  BY <1>1, <1>2, <1>3, StackStays
<1>5. StackFits(rank, th)'
  <2>1. stack'[th] = <<>>
    BY <1>2
  <2>2. <<>> \in Seq(Frames) /\ 1 .. Len(<<>>) = {}
    OBVIOUS
  <2> QED
    BY <2>1, <2>2 DEF StackFits
<1>6. StartsReachable'
  BY <1>1, <1>3 DEF StartsReachable
<1> QED
  BY <1>1, <1>2, <1>4, <1>5, <1>6 DEF ProgramInv, WorkedType, CacheFollows, PrevCell,
                                      ScoresAreExact, ScoreAt, Score

-----------------------------------------------------------------------------
(* The theorems.                                                           *)

LEMMA ProfileInit == \A rank : InitProfile => ProfileInv(rank)
<1> SUFFICES ASSUME NEW rank, InitProfile PROVE ProfileInv(rank)
  OBVIOUS
<1>1. IInv /\ TimeInv /\ Untroubled
  BY InitInvariant, TimeInit DEF InitProfile, Init, Untroubled
<1>2. \A th \in Threads : StackFits(rank, th)
  BY DEF InitProfile, StackFits
<1>3. stack = [th \in Threads |-> stack[th]] /\ WorkedType
  BY DEF InitProfile, WorkedType
<1>4. CacheFollows
  BY DEF InitProfile, Init, NoEntries, CacheFollows, PrevCell, SizeOf, NoPrev, Index
<1>5. \A f \in Files, i \in Index :
        Score(f, i) = 0 /\ \A th \in Threads : StartOf(th, f, i) = 0
  BY DEF InitProfile, Init, NoEntries, Score, StartOf, CellOf, SizeOf, Index
<1>6. StartsReachable
  BY <1>5 DEF StartsReachable
<1>7. ScoresAreExact
  <2> SUFFICES ASSUME NEW l \in Locations PROVE ScoreAt(l) = worked[l]
    BY DEF ScoresAreExact
  <2>1. FileOf(l) \in Files /\ line2idx(LineOf(l)) \in Index
    BY LocationParts DEF IndexOf
  <2> QED
    BY <1>5, <2>1 DEF InitProfile, ScoreAt
<1> QED
  BY <1>1, <1>2, <1>3, <1>4, <1>6, <1>7, StacksFit DEF ProfileInv

LEMMA ProfileStep ==
  ASSUME NEW rank \in [Files -> Nat], StraightProgram(rank), TimesFit
  PROVE  ProfileInv(rank) /\ [NextProfile]_<<vars, programVars>> => ProfileInv(rank)'
<1> SUFFICES ASSUME ProfileInv(rank), [NextProfile]_<<vars, programVars>>
             PROVE  ProfileInv(rank)'
  OBVIOUS
<1> USE DEF StraightProgram
<1>1. /\ \A u \in Threads : StackFits(rank, u)
      /\ stack = [u \in Threads |-> stack[u]] /\ fault = Qnil /\ ~stepped
  BY StacksFit DEF ProfileInv, Untroubled
\* Each step is one of the measurement, or leaves it alone.
<1>2. ASSUME NEW th \in Threads, NEW loc \in Locations, Event(th, loc)
      PROVE  [Next]_vars /\ fault' = fault /\ stepped' = stepped
  <2>1. FileOf(loc) \in Files /\ LineOf(loc) \in Lines
    BY LocationParts
  <2>2. fault' = fault /\ stepped' = stepped
    BY <1>2 DEF Event, sinfo_measure
  <2>3. sinfo_measure(th, FileOf(loc), LineOf(loc))
    BY <1>2 DEF Event
  <2> QED
    BY <1>1, <2>1, <2>2, <2>3 DEF Next
<1>3. ASSUME NEW th \in Threads, NEW loc \in Locations, Enter(th, loc)
      PROVE  /\ [Next]_vars /\ fault' = fault /\ stepped' = stepped
             /\ ProgramInv(rank)'
  <2>1. /\ stack[th] = <<>> /\ loc \in FirstLines /\ Event(th, loc) /\ worked' = worked
        /\ stack' = [stack EXCEPT ![th] = <<Frame(loc)>>]
    BY <1>3 DEF Enter, Busy, FirstLines
  <2>2. stack' = [stack EXCEPT ![th] = Append(@, Frame(loc))]
    BY <1>1, <2>1
  <2>3. /\ \A d \in 1 .. Len(stack[th]) : rank[FileOf(stack[th][d].at)] < rank[FileOf(loc)]
        /\ \A d \in 1 .. Len(stack[th]) : FileOf(stack[th][d].at) # FileOf(loc)
    BY <2>1
  <2> QED
    BY <1>2, <2>1, <2>2, <2>3, CallStep
<1>4. ASSUME NEW th \in Threads, NEW loc \in Locations, Call(th, loc)
      PROVE  /\ [Next]_vars /\ fault' = fault /\ stepped' = stepped
             /\ ProgramInv(rank)'
  <2>1. PICK old : old = stack[th]
    OBVIOUS
  <2>2. /\ old # <<>> /\ old \in Seq(Frames) /\ Rises(rank, old)
        /\ <<old[Len(old)].at, loc>> \in Calls /\ Event(th, loc) /\ worked' = worked
        /\ stack' = [stack EXCEPT ![th] = Append(@, Frame(loc))]
    BY <1>1, <1>4, <2>1 DEF Call, Busy, Top, StackFits, Rises
  <2>3. loc \in FirstLines /\ loc \in Locations /\ FileOf(loc) \in Files
    BY <2>2, ReachableAreLocations, LocationParts
  <2>4. rank[FileOf(old[Len(old)].at)] < rank[FileOf(loc)]
    BY <2>2 DEF NoRecursion
  <2>5. ASSUME NEW d \in 1 .. Len(old)
        PROVE  rank[FileOf(old[d].at)] < rank[FileOf(loc)] /\ FileOf(old[d].at) # FileOf(loc)
    <3>1. Len(old) \in Nat /\ Len(old) \in 1 .. Len(old)
      BY <2>2
    <3>2. /\ FileOf(old[d].at) \in Files /\ FileOf(old[Len(old)].at) \in Files
      <4>1. old[d] \in Frames /\ old[Len(old)] \in Frames
        BY <2>2, <3>1
      <4> QED
        BY <4>1, LocationParts, ReachableAreLocations DEF Frames
    <3>3. d = Len(old) \/ rank[FileOf(old[d].at)] < rank[FileOf(old[Len(old)].at)]
      BY <2>2, <3>1 DEF Rises
    <3>4. rank[FileOf(old[d].at)] < rank[FileOf(loc)]
      <4>1. /\ rank[FileOf(old[d].at)] \in Nat /\ rank[FileOf(old[Len(old)].at)] \in Nat
            /\ rank[FileOf(loc)] \in Nat
        BY <2>3, <3>2
      <4> QED
        BY <2>4, <3>3, <4>1
    <3> QED
      BY <2>3, <3>2, <3>4
  <2>6. /\ \A d \in 1 .. Len(stack[th]) : rank[FileOf(stack[th][d].at)] < rank[FileOf(loc)]
        /\ \A d \in 1 .. Len(stack[th]) : FileOf(stack[th][d].at) # FileOf(loc)
    BY <2>1, <2>5
  <2> QED
    BY <1>2, <2>2, <2>3, <2>6, CallStep
<1>5. ASSUME NEW th \in Threads, NEW loc \in Locations, Advance(th, loc)
      PROVE  /\ [Next]_vars /\ fault' = fault /\ stepped' = stepped
             /\ ProgramInv(rank)'
  BY <1>2, <1>5, AdvanceStep DEF Advance
<1>6. ASSUME NEW th \in Threads, Return(th)
      PROVE  ProgramInv(rank)' /\ vars' = vars
  <2>1. stack[th] \in Seq(Frames) /\ stack[th] # <<>>
    BY <1>1, <1>6 DEF Return, Busy, StackFits
  <2>2. Len(stack[th]) - 1 \in 0 .. Len(stack[th])
    BY <2>1
  <2>3. stack' = [stack EXCEPT ![th] = SubSeq(@, 1, Len(stack[th]) - 1)] /\ UNCHANGED <<worked, vars>>
    BY <1>1, <1>6 DEF Return, Below
  <2> QED
    BY <2>2, <2>3, LeaveStep
<1>7. ASSUME NEW th \in Threads, Raise(th)
      PROVE  ProgramInv(rank)' /\ vars' = vars
  <2>1. PICK n \in 0 .. Len(stack[th]) - 1 : stack' = [stack EXCEPT ![th] = SubSeq(@, 1, n)]
    BY <1>7 DEF Raise
  <2>2. UNCHANGED <<worked, vars>>
    BY <1>7 DEF Raise
  <2>3. n \in 0 .. Len(stack[th])
    <3>1. stack[th] \in Seq(Frames)
      BY <1>1 DEF StackFits
    <3>2. Len(stack[th]) \in Nat
      BY <3>1
    <3> QED
      BY <2>1, <3>2
  <2> QED
    BY <2>1, <2>2, <2>3, LeaveStep
<1>8. ASSUME NEW th \in Threads, ThreadEnds(th)
      PROVE  /\ [Next]_vars /\ fault' = fault /\ stepped' = stepped
             /\ ProgramInv(rank)'
  <2>1. sinfo_container_free(th)
    BY <1>8 DEF ThreadEnds
  <2>2. fault' = fault /\ stepped' = stepped
    BY <2>1 DEF sinfo_container_free
  <2> QED
    BY <1>1, <1>8, <2>1, <2>2, EndStep DEF Next
<1>9. ASSUME ClockTicks
      PROVE  /\ [Next]_vars /\ fault' = fault /\ stepped' = stepped
             /\ ProgramInv(rank)'
  <2>1. Tick /\ UNCHANGED <<scoring, preline, process, stack, worked, fault, stepped>>
    BY <1>9 DEF ClockTicks, Tick, programVars
  <2>2. ProgramInv(rank)'
    BY <2>1, StandStep
  <2> QED
    BY <2>1, <2>2 DEF Next
<1>10. ASSUME UNCHANGED <<vars, programVars>>
       PROVE  vars' = vars /\ ProgramInv(rank)'
  <2>1. UNCHANGED <<scoring, preline, process, stack, worked, fault, stepped>> /\ vars' = vars
    BY <1>10 DEF vars, programVars
  <2> QED
    BY <2>1, StandStep
<1>11. [Next]_vars /\ Untroubled' /\ ProgramInv(rank)'
  <2>1. ASSUME vars' = vars PROVE fault' = fault /\ stepped' = stepped
    BY <2>1 DEF vars
  <2>2. /\ [Next]_vars /\ fault' = fault /\ stepped' = stepped
        /\ ProgramInv(rank)'
    BY <1>3, <1>4, <1>5, <1>6, <1>7, <1>8, <1>9, <1>10, <2>1 DEF NextProfile
  <2> QED
    BY <1>1, <2>2 DEF Untroubled
<1>12. IInv' /\ TimeInv'
  BY <1>11, NextInvariant, TimeStep DEF ProfileInv
<1> QED
  BY <1>11, <1>12, StacksFitNext DEF ProfileInv, ProgramInv

\* What sinfo_measure's profile of a straight-line program rests on, in every state: no
\* thread is in two methods of one file, the cached line before a line is the one that
\* the program goes on from, the stopwatches of the lines that threads are at run, and
\* the scores are the times worked.
THEOREM StraightProfile ==
  ASSUME NEW rank \in [Files -> Nat], StraightProgram(rank), TimesFit
  PROVE  SpecProfile => []ProfileInv(rank)
<1>1. InitProfile => ProfileInv(rank)
  BY ProfileInit
<1>2. ProfileInv(rank) /\ [NextProfile]_<<vars, programVars>> => ProfileInv(rank)'
  BY ProfileStep
<1> QED
  BY <1>1, <1>2, PTL DEF SpecProfile

\* Whatever other threads, callees in other files and calls cut short have done, the
\* stopwatch a thread started at a line of a straight-line program runs until it leaves it.
THEOREM StopwatchesRun ==
  ASSUME NEW rank \in [Files -> Nat], StraightProgram(rank), TimesFit
  PROVE  SpecProfile => []StopwatchRuns
<1>1. ProfileInv(rank) => StopwatchRuns
  BY DEF ProfileInv
<1> QED
  BY <1>1, StraightProfile, PTL

\* sinfo_measure charges no line of a straight-line program time that was not spent on it.
THEOREM NotOvercharged ==
  ASSUME NEW rank \in [Files -> Nat], StraightProgram(rank), TimesFit
  PROVE  SpecProfile => []NeverOvercharged
<1>1. ProfileInv(rank) => NeverOvercharged
  BY DEF ProfileInv, WorkedType, ScoresAreExact, NeverOvercharged
<1> QED
  BY <1>1, StraightProfile, PTL

\* sinfo_measure charges every line of a straight-line program all the time it took,
\* each time its method went on.
THEOREM NotUndercharged ==
  ASSUME NEW rank \in [Files -> Nat], StraightProgram(rank), TimesFit
  PROVE  SpecProfile => []NeverUndercharged
<1>1. ProfileInv(rank) => NeverUndercharged
  BY DEF ProfileInv, WorkedType, ScoresAreExact, NeverUndercharged
<1> QED
  BY <1>1, StraightProfile, PTL
=============================================================================
