--------------------------- MODULE PathTableProofs ---------------------------
(***************************************************************************)
(* Proofs about PathTable: what the collector may free, for any number of  *)
(* threads, paths, loads of a file and events.                             *)
(***************************************************************************)
EXTENDS PathTable, TLAPS

-----------------------------------------------------------------------------
(* What minfo_mark reaches is there.                                       *)

Calls == [at : {"new", "register"}, path : Strings]

\* The Strings of the registered methods and of the calls in progress.
MarkedAreThere ==
  /\ code \in [Strings -> CodeStates]
  /\ all \in SUBSET Strings
  /\ profiling \in [Threads -> {Qnil} \cup Calls]
  /\ \A s \in all : code[s] \in {"live", "dropped"}
  /\ \A t \in Threads : profiling[t] # Qnil => code[profiling[t].path] \in {"live", "dropped"}

LEMMA InitMarked == Init => MarkedAreThere
  BY DEF Init, MarkedAreThere, CodeStates

\* No step takes away what is marked, and nothing is registered or profiled but code
\* that is there.
LEMMA StepMarked == MarkedAreThere /\ [Next]_vars => MarkedAreThere'
  <1> SUFFICES ASSUME MarkedAreThere, [Next]_vars PROVE MarkedAreThere'
    OBVIOUS
  <1> USE DEF MarkedAreThere, CodeStates
  <1>1. ASSUME NEW s \in Strings, Load(s) \/ Drop(s) \/ Reuse(s)
        PROVE  MarkedAreThere'
    <2>1. \A t \in Threads : profiling[t] # Qnil => profiling[t].path \in Strings
      BY DEF Calls
    <2>2. all' = all /\ profiling' = profiling
      BY <1>1 DEF Load, Drop, Reuse
    <2>3. /\ code' \in [Strings -> CodeStates]
          /\ \A k \in Strings : code[k] \in {"live", "dropped"} => code'[k] \in {"live", "dropped"}
      BY <1>1 DEF Load, Drop, Reuse
    <2>4. QED
      BY <2>1, <2>2, <2>3
  <1>2. ASSUME NEW t \in Threads, NEW s \in Strings, minfo_m_init(t, s)
        PROVE  MarkedAreThere'
    BY <1>2 DEF minfo_m_init, Calls
  <1>3. ASSUME NEW t \in Threads, Inject(t)
        PROVE  MarkedAreThere'
    <2>1. profiling[t] \in Calls /\ profiling[t] # Qnil
      BY <1>3 DEF Inject
    <2>2. profiling' = [profiling EXCEPT ![t] = [profiling[t] EXCEPT !.at = "register"]]
      BY <1>3 DEF Inject
    <2>3. [profiling[t] EXCEPT !.at = "register"] \in Calls
      BY <2>1 DEF Calls
    <2>4. [profiling[t] EXCEPT !.at = "register"].path = profiling[t].path
      BY <2>1 DEF Calls
    <2>5. profiling' \in [Threads -> {Qnil} \cup Calls]
      BY <2>2, <2>3
    <2>6. \A u \in Threads : profiling'[u] # Qnil =>
             profiling[u] # Qnil /\ profiling'[u].path = profiling[u].path
      BY <2>1, <2>2, <2>4
    <2>7. code' = code /\ all' = all
      BY <1>3 DEF Inject
    <2>8. QED
      BY <2>5, <2>6, <2>7
  <1>4. ASSUME NEW t \in Threads, Register(t)
        PROVE  MarkedAreThere'
    BY <1>4 DEF Register, Calls
  <1>5. ASSUME NEW t \in Threads, Interrupt(t)
        PROVE  MarkedAreThere'
    BY <1>5 DEF Interrupt
  <1>6. CASE Collect
    <2>1. \A s \in Strings : s \in minfo_mark => code'[s] = code[s]
      BY <1>6 DEF Collect
    <2>2. code' \in [Strings -> CodeStates] /\ all' = all /\ profiling' = profiling
      BY <1>6 DEF Collect
    <2>3. all \subseteq minfo_mark
      BY DEF minfo_mark
    <2>4. \A t \in Threads : profiling[t] # Qnil => profiling[t].path \in minfo_mark
      BY DEF minfo_mark
    <2>5. \A t \in Threads : profiling[t] # Qnil => profiling[t].path \in Strings
      BY DEF Calls
    <2>6. QED
      BY <2>1, <2>2, <2>3, <2>4, <2>5
  <1>7. CASE UNCHANGED <<code, all, profiling>>
    BY <1>7
  <1>8. ASSUME NEW t \in Threads, NEW s \in Strings,
               sinfo_measure(t, s) \/ MeasureFails(t, s) \/ ComparesFreed(t, s)
                 \/ sinfo_container_s_alloc(t, s)
        PROVE  MarkedAreThere'
    BY <1>8, <1>7 DEF sinfo_measure, MeasureFails, ComparesFreed, sinfo_container_s_alloc
  <1>9. ASSUME NEW t \in Threads, ThreadEnds(t)
        PROVE  MarkedAreThere'
    BY <1>9, <1>7 DEF ThreadEnds
  <1>10. QED
    BY <1>1, <1>2, <1>3, <1>4, <1>5, <1>6, <1>7, <1>8, <1>9 DEF Next, vars

LEMMA AlwaysMarked == Spec => []MarkedAreThere
  BY InitMarked, StepMarked, PTL DEF Spec

\* The char* of a registered method's file, a key of the tables or not, never
\* dangles: only what was never registered does (minfo_mark, MethodInfo::ALL).
THEOREM KeysOfRegistered == Spec => []DanglingKeyIsUnregistered
  <1>1. MarkedAreThere => DanglingKeyIsUnregistered
    BY DEF MarkedAreThere, DanglingKeyIsUnregistered, Dangling
  <1>2. QED
    BY <1>1, AlwaysMarked, PTL

-----------------------------------------------------------------------------
(* Scores are found.                                                       *)

KeysOf(p) == {k \in ScoringKeys : PathOf[k] = p}

\* A path's events are all in one entry, or there is a key of it that dangles.
OneEntry(p) ==
  \/ \E k \in KeysOf(p) : Dangling(k)
  \/ KeysOf(p) = {} /\ measured[p] = 0
  \/ \E k \in Strings : KeysOf(p) = {k} /\ scoring[k] = measured[p]

ScoresInOneEntry ==
  /\ code \in [Strings -> CodeStates]
  /\ scoring \in [Strings -> {Qnil} \cup Nat]
  /\ measured \in [Paths -> Nat]
  /\ \A p \in Paths : OneEntry(p)

LEMMA InitOneEntry == Init => ScoresInOneEntry
  <1> SUFFICES ASSUME Init PROVE ScoresInOneEntry
    OBVIOUS
  <1>1. ScoringKeys = {}
    BY DEF Init, ScoringKeys
  <1>2. QED
    BY <1>1 DEF Init, ScoresInOneEntry, OneEntry, KeysOf, CodeStates

\* Keys stay, and a key that dangles dangles for ever.
LEMMA DanglingStays ==
  ASSUME NEW p \in Paths, ScoresInOneEntry,
         \A k \in Strings : Dangling(k) => Dangling(k)',
         \A k \in Strings : scoring[k] # Qnil => scoring'[k] # Qnil,
         \E k \in KeysOf(p) : Dangling(k)
  PROVE  OneEntry(p)'
  BY DEF OneEntry, KeysOf, ScoringKeys

\* The entry of a path for an event of code that is there.
LEMMA FoundEntry ==
  ASSUME NEW s \in Strings, code[s] = "live", ScoresInOneEntry,
         ~ \E k \in KeysOf(PathOf[s]) : Dangling(k)
  PROVE  /\ KeysOf(PathOf[s]) = {} =>
              FindForce(ScoringKeys, s) = ScoringKeys \cup {s}
         /\ \A k \in Strings : KeysOf(PathOf[s]) = {k} =>
              FindForce(ScoringKeys, s) = ScoringKeys
         /\ sinfo_find(FindForce(ScoringKeys, s), s) =
              IF KeysOf(PathOf[s]) = {} THEN {s} ELSE KeysOf(PathOf[s])
  <1>1. \A k \in KeysOf(PathOf[s]) : Contents(k) = PathOf[s]
    BY DEF Dangling, Contents, KeysOf
  <1>2. Contents(s) = PathOf[s]
    BY DEF Contents
  <1>3. sinfo_find(ScoringKeys, s) = KeysOf(PathOf[s])
    BY <1>1 DEF sinfo_find, Compared, KeysOf
  <1>4. CASE KeysOf(PathOf[s]) = {}
    <2>1. FindForce(ScoringKeys, s) = ScoringKeys \cup {s}
      BY <1>3, <1>4 DEF FindForce
    <2>2. sinfo_find(ScoringKeys \cup {s}, s) = sinfo_find(ScoringKeys, s) \cup {s}
      BY <1>2 DEF sinfo_find, Compared
    <2>3. QED
      BY <1>3, <1>4, <2>1, <2>2
  <1>5. CASE KeysOf(PathOf[s]) # {}
    BY <1>3, <1>5 DEF FindForce
  <1>6. QED
    BY <1>4, <1>5

\* The table with an entry for s if no key read like it.
LEMMA ScoringForTable ==
  ASSUME NEW s \in Strings, scoring \in [Strings -> {Qnil} \cup Nat]
  PROVE  /\ ScoringFor(s) \in [Strings -> {Qnil} \cup Nat]
         /\ \A k \in Strings : scoring[k] # Qnil \/ k # s => ScoringFor(s)[k] = scoring[k]
         /\ \A k \in Strings : ScoringFor(s)[k] # Qnil <=> k \in FindForce(ScoringKeys, s)
         /\ scoring[s] = Qnil => ScoringFor(s)[s] \in {Qnil, 0}
  <1>1. FindForce(ScoringKeys, s) \in {ScoringKeys, ScoringKeys \cup {s}}
    BY DEF FindForce
  <1>2. \A k \in Strings : k \in ScoringKeys <=> scoring[k] # Qnil
    BY DEF ScoringKeys
  <1>3. 0 \in Nat /\ 0 # Qnil
    BY NilAssumption
  <1>4. QED
    BY <1>1, <1>2, <1>3 DEF ScoringFor

\* sinfo_find_scoring_sinfo_force finds an entry.
LEMMA HitFound ==
  ASSUME NEW s \in Strings, code[s] = "live"
  PROVE  \E k \in Strings : k \in sinfo_find(FindForce(ScoringKeys, s), s)
  <1>1. Contents(s) = PathOf[s]
    BY DEF Contents
  <1>2. ScoringKeys \subseteq Strings
    BY DEF ScoringKeys
  <1>3. CASE sinfo_find(ScoringKeys, s) = {}
    BY <1>1, <1>3 DEF FindForce, sinfo_find, Compared
  <1>4. CASE sinfo_find(ScoringKeys, s) # {}
    BY <1>2, <1>4 DEF FindForce, sinfo_find, Compared
  <1>5. QED
    BY <1>3, <1>4

\* A step that only changes what the program holds.
LEMMA OtherStep ==
  ASSUME ScoresInOneEntry, UNCHANGED <<scoring, measured>>,
         code' \in [Strings -> CodeStates],
         \A k \in Strings : Dangling(k) => Dangling(k)'
  PROVE  ScoresInOneEntry'
  <1> SUFFICES ASSUME NEW p \in Paths PROVE OneEntry(p)'
    BY DEF ScoresInOneEntry
  <1>1. CASE \E k \in KeysOf(p) : Dangling(k)
    BY <1>1, DanglingStays DEF ScoresInOneEntry
  <1>2. CASE ~ \E k \in KeysOf(p) : Dangling(k)
    <2>1. KeysOf(p)' = KeysOf(p)
      BY DEF KeysOf, ScoringKeys
    <2>2. OneEntry(p)
      BY DEF ScoresInOneEntry
    <2>3. QED
      BY <1>2, <2>1, <2>2 DEF OneEntry
  <1>3. QED
    BY <1>1, <1>2

\* An entry with nothing counted yet, or one more event in the entry of the path.
LEMMA EntryStep ==
  ASSUME ScoresInOneEntry, NEW s \in Strings, code[s] = "live", code' = code,
         \/ scoring' = ScoringFor(s) /\ measured' = measured
         \/ scoring' = Count(s) /\ measured' = [measured EXCEPT ![PathOf[s]] = @ + 1]
  PROVE  ScoresInOneEntry'
  <1> DEFINE p == PathOf[s]
  <1> DEFINE hit == CHOOSE k \in Strings : k \in sinfo_find(FindForce(ScoringKeys, s), s)
  <1>1. p \in Paths
    BY PathAssumption
  <1>2. hit \in Strings /\ hit \in sinfo_find(FindForce(ScoringKeys, s), s)
    BY HitFound
  <1>3. PathOf[hit] = p /\ hit \in FindForce(ScoringKeys, s)
    BY <1>2 DEF sinfo_find, Compared
  <1>4. Count(s) = [ScoringFor(s) EXCEPT ![hit] = @ + 1]
    BY DEF Count
  <1> HIDE DEF hit, p
  <1>5. scoring \in [Strings -> {Qnil} \cup Nat] /\ measured \in [Paths -> Nat]
    BY DEF ScoresInOneEntry
  <1>6. /\ ScoringFor(s) \in [Strings -> {Qnil} \cup Nat]
        /\ \A k \in Strings : scoring[k] # Qnil \/ k # s => ScoringFor(s)[k] = scoring[k]
        /\ \A k \in Strings : ScoringFor(s)[k] # Qnil <=> k \in FindForce(ScoringKeys, s)
        /\ scoring[s] = Qnil => ScoringFor(s)[s] \in {Qnil, 0}
    BY <1>5, ScoringForTable
  <1>7. ScoringFor(s)[hit] \in Nat
    BY <1>2, <1>3, <1>6
  <1>8. Count(s) \in [Strings -> {Qnil} \cup Nat]
    BY <1>2, <1>4, <1>6, <1>7
  <1>9. scoring' \in [Strings -> {Qnil} \cup Nat]
    BY <1>6, <1>8
  <1>10. measured' \in [Paths -> Nat]
    BY <1>1, <1>5 DEF p
  <1>11. \A k \in Strings : scoring'[k] # Qnil <=> k \in FindForce(ScoringKeys, s)
    <2>1. ScoringFor(s)[hit] + 1 \in Nat
      BY <1>7
    <2>2. \A k \in Strings : Count(s)[k] # Qnil <=> ScoringFor(s)[k] # Qnil
      BY <1>2, <1>4, <1>6, <1>7, <2>1, NilAssumption
    <2>3. QED
      BY <1>6, <2>2
  <1>12. \A k \in Strings : k \in ScoringKeys' <=> k \in FindForce(ScoringKeys, s)
    BY <1>11 DEF ScoringKeys
  <1>13. ScoringKeys \subseteq FindForce(ScoringKeys, s)
         /\ FindForce(ScoringKeys, s) \subseteq ScoringKeys \cup {s}
    BY DEF FindForce
  <1>14. \A k \in Strings : Dangling(k)' <=> Dangling(k)
    BY DEF Dangling
  <1> SUFFICES ASSUME NEW q \in Paths PROVE OneEntry(q)'
    BY <1>9, <1>10 DEF ScoresInOneEntry
  <1>15. OneEntry(q)
    BY DEF ScoresInOneEntry
  <1>16. CASE \E k \in KeysOf(q) : Dangling(k)
    <2>1. \A k \in Strings : scoring[k] # Qnil => scoring'[k] # Qnil
      BY <1>11, <1>13 DEF ScoringKeys
    <2>2. QED
      BY <1>14, <1>16, <2>1, DanglingStays
  <1>17. CASE q # p /\ ~ \E k \in KeysOf(q) : Dangling(k)
    <2>1. \A k \in Strings : PathOf[k] = q => k # s /\ k # hit
      BY <1>3, <1>17 DEF p
    <2>2. \A k \in Strings : PathOf[k] = q => ScoringFor(s)[k] = scoring[k]
      BY <1>6, <2>1
    <2>3. \A k \in Strings : PathOf[k] = q => scoring'[k] = scoring[k]
      BY <1>2, <1>4, <1>6, <2>1, <2>2
    <2>4. KeysOf(q)' = KeysOf(q)
      BY <2>3 DEF KeysOf, ScoringKeys
    <2>5. measured'[q] = measured[q]
      BY <1>5, <1>17 DEF p
    <2>6. \A k \in KeysOf(q) : k \in Strings /\ PathOf[k] = q
      BY DEF KeysOf, ScoringKeys
    <2>7. QED
      BY <1>15, <1>17, <2>3, <2>4, <2>5, <2>6 DEF OneEntry
  <1>18. CASE q = p /\ ~ \E k \in KeysOf(q) : Dangling(k)
    <2>1. /\ KeysOf(p) = {} => FindForce(ScoringKeys, s) = ScoringKeys \cup {s}
          /\ \A k \in Strings : KeysOf(p) = {k} => FindForce(ScoringKeys, s) = ScoringKeys
          /\ sinfo_find(FindForce(ScoringKeys, s), s) =
               IF KeysOf(p) = {} THEN {s} ELSE KeysOf(p)
      BY <1>18, FoundEntry DEF p
    <2>2. KeysOf(p)' = {k \in FindForce(ScoringKeys, s) : PathOf[k] = p}
      <3>1. ScoringKeys' = FindForce(ScoringKeys, s)
        BY <1>12, <1>13 DEF ScoringKeys
      <3>2. QED
        BY <3>1 DEF KeysOf, p
    <2>3. \E k \in Strings :
            /\ KeysOf(p)' = {k} /\ hit = k
            /\ ScoringFor(s)[k] = measured[p]
      <3>1. CASE KeysOf(p) = {} /\ measured[p] = 0
        <4>1. KeysOf(p)' = {s}
          BY <2>1, <2>2, <3>1 DEF KeysOf, p
        <4>2. hit = s
          BY <1>2, <2>1, <3>1
        <4>3. scoring[s] = Qnil
          BY <3>1 DEF KeysOf, ScoringKeys, p
        <4>4. ScoringFor(s)[s] = 0
          BY <1>6, <1>7, <4>2, <4>3, NilAssumption
        <4>5. QED
          BY <3>1, <4>1, <4>2, <4>4
      <3>2. ASSUME NEW k \in Strings, KeysOf(p) = {k}, scoring[k] = measured[p]
            PROVE  /\ KeysOf(p)' = {k} /\ hit = k
                   /\ ScoringFor(s)[k] = measured[p]
        <4>1. KeysOf(p)' = {k}
          BY <2>1, <2>2, <3>2 DEF KeysOf
        <4>2. hit = k
          BY <1>2, <2>1, <3>2
        <4>3. scoring[k] # Qnil
          BY <3>2 DEF KeysOf, ScoringKeys
        <4>4. QED
          BY <1>6, <3>2, <4>1, <4>2, <4>3
      <3>3. QED
        BY <1>15, <1>18, <3>1, <3>2 DEF OneEntry
    <2>4. PICK k \in Strings : /\ KeysOf(p)' = {k} /\ hit = k
                               /\ ScoringFor(s)[k] = measured[p]
      BY <2>3
    <2>5. scoring'[k] = measured'[p]
      <3>1. CASE scoring' = ScoringFor(s) /\ measured' = measured
        BY <2>4, <3>1
      <3>2. CASE scoring' = Count(s) /\ measured' = [measured EXCEPT ![PathOf[s]] = @ + 1]
        <4>1. measured'[p] = measured[p] + 1
          BY <1>1, <1>5, <3>2 DEF p
        <4>2. scoring'[k] = ScoringFor(s)[k] + 1
          BY <1>4, <1>6, <2>4, <3>2
        <4>3. QED
          BY <2>4, <4>1, <4>2
      <3>3. QED
        BY <3>1, <3>2
    <2>6. p' = p
      BY DEF p
    <2>7. QED
      BY <1>18, <2>4, <2>5, <2>6 DEF OneEntry
  <1>19. QED
    BY <1>16, <1>17, <1>18

LEMMA StepOneEntry == ScoresInOneEntry /\ [Next]_vars => ScoresInOneEntry'
  <1> SUFFICES ASSUME ScoresInOneEntry, [Next]_vars PROVE ScoresInOneEntry'
    OBVIOUS
  <1>1. code \in [Strings -> CodeStates]
    BY DEF ScoresInOneEntry
  <1>2. CASE UNCHANGED <<code, scoring, measured>>
    BY <1>1, <1>2, OtherStep DEF Dangling
  <1>3. ASSUME NEW s \in Strings, Load(s) \/ Drop(s) \/ Reuse(s)
        PROVE  ScoresInOneEntry'
    <2>1. UNCHANGED <<scoring, measured>>
      BY <1>3 DEF Load, Drop, Reuse
    <2>2. code' \in [Strings -> CodeStates]
      BY <1>1, <1>3 DEF Load, Drop, Reuse, CodeStates
    <2>3. \A k \in Strings : Dangling(k) => Dangling(k)'
      BY <1>1, <1>3 DEF Load, Drop, Reuse, Dangling
    <2>4. QED
      BY <2>1, <2>2, <2>3, OtherStep
  <1>4. CASE Collect
    <2>1. UNCHANGED <<scoring, measured>>
      BY <1>4 DEF Collect
    <2>2. code' \in [Strings -> CodeStates]
      BY <1>1, <1>4 DEF Collect, CodeStates
    <2>3. \A k \in Strings : Dangling(k) => Dangling(k)'
      BY <1>1, <1>4 DEF Collect, Dangling
    <2>4. QED
      BY <2>1, <2>2, <2>3, OtherStep
  <1>5. ASSUME NEW t \in Threads, NEW s \in Strings, sinfo_measure(t, s)
        PROVE  ScoresInOneEntry'
    BY <1>5, EntryStep DEF sinfo_measure, Fires
  <1>6. ASSUME NEW t \in Threads, NEW s \in Strings,
               MeasureFails(t, s) \/ sinfo_container_s_alloc(t, s)
        PROVE  ScoresInOneEntry'
    <2>1. code[s] = "live" /\ code' = code /\ scoring' = ScoringFor(s) /\ measured' = measured
      BY <1>6 DEF MeasureFails, sinfo_container_s_alloc, Fires
    <2>2. QED
      BY <2>1, EntryStep
  <1>7. ASSUME NEW t \in Threads, ThreadEnds(t) \/ Inject(t) \/ Register(t) \/ Interrupt(t)
        PROVE  ScoresInOneEntry'
    BY <1>2, <1>7 DEF ThreadEnds, Inject, Register, Interrupt
  <1>8. ASSUME NEW t \in Threads, NEW s \in Strings,
               minfo_m_init(t, s) \/ ComparesFreed(t, s)
        PROVE  ScoresInOneEntry'
    BY <1>2, <1>8 DEF minfo_m_init, ComparesFreed
  <1>9. QED
    BY <1>2, <1>3, <1>4, <1>5, <1>6, <1>7, <1>8 DEF Next, vars

\* SourceInfo.find gives all that was measured for a path, whichever load of the
\* file an event came from, unless a key dangles that nobody registered.
THEOREM ScoresAreKept == Spec => []ScoresAreFound
  <1>1. ASSUME ScoresInOneEntry, MarkedAreThere PROVE ScoresAreFound
    <2> SUFFICES ASSUME NEW p \in Paths
                 PROVE  \/ measured[p] = 0
                        \/ \E k \in Strings : sinfo_s_find(p) = {k} /\ scoring[k] = measured[p]
                        \/ \E k \in ScoringKeys : PathOf[k] = p /\ Dangling(k) /\ k \notin all
      BY DEF ScoresAreFound
    <2>1. CASE \E k \in KeysOf(p) : Dangling(k)
      BY <1>1, <2>1 DEF MarkedAreThere, KeysOf, Dangling
    <2>2. CASE ~ \E k \in KeysOf(p) : Dangling(k)
      <3>1. sinfo_s_find(p) = KeysOf(p)
        BY <2>2 DEF sinfo_s_find, KeysOf, Dangling, Contents
      <3>2. OneEntry(p)
        BY <1>1 DEF ScoresInOneEntry
      <3>3. QED
        BY <2>2, <3>1, <3>2 DEF OneEntry
    <2>3. QED
      BY <2>1, <2>2
  <1>2. Spec => []ScoresInOneEntry
    BY InitOneEntry, StepOneEntry, PTL DEF Spec
  <1>3. QED
    BY <1>1, <1>2, AlwaysMarked, PTL
=============================================================================
