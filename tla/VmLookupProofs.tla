--------------------------- MODULE VmLookupProofs ---------------------------
(***************************************************************************)
(* The inline caches, for any number of versions, objects and variables:   *)
(* an instruction that goes by its cache does what a fresh search would    *)
(* have it do.  And the names of code, for any nesting of bodies, evals,   *)
(* blocks and methods and any table of constants: a constant is that of    *)
(* the bodies that the code is written in.                                 *)
(***************************************************************************)
EXTENDS MCVmLookup, SequenceTheorems, SumTheorems, TLAPS

\* A fill is of the version at hand or an earlier one since it came around last, so a
\* new version is none that a cache was filled at.
VersionsAscend ==
  /\ version \in 1 .. Versions
  /\ ic.vmstat \in 0 .. version

\* A class that an object or a valid cache has is there.
ClassesAreThere ==
  /\ class_of \in [Objects -> {None, A, Address}]
  /\ \A o \in Objects : class_of[o] = Address => Exists(Address)
  /\ Hit(Address) => Exists(Address)

\* A method == of Fixnum or String is never made without the flag.
FlagIsRaised ==
  /\ operators \in BOOLEAN
  /\ redefined \cap {Fixnum, String} # {} => operators

\* A valid cache of recv == obj is what a search finds.
MethodIsCurrent ==
  site = "==" => \A c \in Classes : Hit(c) => ic.value = rb_method_entry(c)

MethodInv == VersionsAscend /\ ClassesAreThere /\ FlagIsRaised /\ MethodIsCurrent

-----------------------------------------------------------------------------
\* Steps of the names leave the caches alone.
LEMMA StepOfCaches == ASSUME [MCNext]_<<vars, namesVars>> PROVE [CachesNext]_vars
BY DEF MCNext

\* A change of the version makes every cache void.
LEMMA VersionVoidsCache ==
  ASSUME VersionsAscend, INC_VM_STATE_VERSION
  PROVE  VersionsAscend' /\ \A c \in Classes : ~Hit(c)'
  BY CacheAssumption DEF VersionsAscend, INC_VM_STATE_VERSION, EmptyCache, Hit, Classes

\* A class whose ancestors stay has the same method, as long as none is made or removed.
LEMMA SameMethod ==
  ASSUME NEW c \in Classes,
         UNCHANGED <<includes, redefined>>,
         c # Address \/ UNCHANGED class_at
  PROVE  rb_method_entry(c)' = rb_method_entry(c)
<1>1. ASSUME NEW k PROVE AncestorsOfFixed(k)' = AncestorsOfFixed(k)
  BY DEF AncestorsOfFixed
<1>2. AncestorsOf(c)' = AncestorsOf(c)
  BY <1>1 DEF AncestorsOf
<1> QED
  BY <1>2 DEF rb_method_entry

LEMMA MethodInit == ASSUME Init PROVE MethodInv
<1> USE DEF Init
<1>1. VersionsAscend
  BY CacheAssumption DEF VersionsAscend, EmptyCache
<1>2. \A c \in Classes : ~Hit(c)
  BY DEF Hit, EmptyCache
<1>3. ClassesAreThere
  BY <1>2, CacheAssumption DEF ClassesAreThere, Classes
<1>4. FlagIsRaised /\ MethodIsCurrent
  BY <1>2 DEF FlagIsRaised, MethodIsCurrent
<1> QED
  BY <1>1, <1>3, <1>4 DEF MethodInv

\* What changes the version leaves nothing to hold of the caches.
LEMMA MethodVersionSteps ==
  ASSUME MethodInv,
         \/ \E k \in {Object, String, A, Address, Module} : DefineMethod(k) \/ RemoveMethod(k)
         \/ Include
         \/ FreeClass
  PROVE  MethodInv'
<1> USE DEF MethodInv
<1>1. INC_VM_STATE_VERSION
  BY DEF DefineMethod, RemoveMethod, Include, FreeClass
<1>2. VersionsAscend' /\ \A c \in Classes : ~Hit(c)'
  BY <1>1, VersionVoidsCache
<1>3. ClassesAreThere'
  <2>1. class_of' = class_of /\ ~Hit(Address)'
    BY <1>2 DEF DefineMethod, RemoveMethod, Include, FreeClass, Classes
  <2>2. CASE class_at' = class_at
    BY <2>1, <2>2 DEF ClassesAreThere, Exists
  <2>3. CASE FreeClass
    BY <2>1, <2>3 DEF ClassesAreThere, FreeClass
  <2> QED
    BY <2>2, <2>3 DEF DefineMethod, RemoveMethod, Include
<1>4. FlagIsRaised'
  <2>1. CASE \E k \in {Object, String, A, Address, Module} : DefineMethod(k)
    BY <2>1 DEF FlagIsRaised, DefineMethod
  <2>2. CASE ~\E k \in {Object, String, A, Address, Module} : DefineMethod(k)
    <3>1. operators' = operators /\ redefined' \subseteq redefined
      BY <2>2 DEF RemoveMethod, Include, FreeClass
    <3> QED
      BY <3>1 DEF FlagIsRaised
  <2> QED
    BY <2>1, <2>2
<1> QED
  BY <1>2, <1>3, <1>4 DEF MethodIsCurrent

\* A class that is made or given to an object is at an address no valid cache has.
LEMMA MethodClassSteps ==
  ASSUME MethodInv,
         \/ \E super \in {Object, String, A} : NewClass(super)
         \/ \E o \in Objects : SingletonClass(o)
  PROVE  MethodInv'
<1> USE DEF MethodInv
<1>1. /\ UNCHANGED <<site, ic, version, includes, redefined, operators>>
      /\ ~Exists(Address) /\ Exists(Address)'
  BY CacheAssumption DEF NewClass, SingletonClass, Exists
<1>2. \A c \in Classes : Hit(c)' = Hit(c)
  BY <1>1 DEF Hit
<1>3. VersionsAscend' /\ FlagIsRaised'
  BY <1>1 DEF VersionsAscend, FlagIsRaised
<1>4. ClassesAreThere'
  BY <1>1 DEF ClassesAreThere, NewClass, SingletonClass
<1>5. MethodIsCurrent'
  <2> SUFFICES ASSUME site = "==", NEW c \in Classes, Hit(c)'
               PROVE  ic'.value = rb_method_entry(c)'
    BY <1>1 DEF MethodIsCurrent
  <2>1. Hit(c) /\ c # Address
    BY <1>1, <1>2 DEF ClassesAreThere
  <2>2. rb_method_entry(c)' = rb_method_entry(c)
    BY <1>1, <2>1, SameMethod
  <2> QED
    BY <1>1, <2>1, <2>2 DEF MethodIsCurrent
<1> QED
  BY <1>3, <1>4, <1>5

\* Objects are of classes that are there; they do not change what a search finds.
LEMMA MethodObjectSteps ==
  ASSUME MethodInv, NEW o \in Objects,
         FreeObject(o) \/ \E c \in {A, Address} : NewObject(o, c)
  PROVE  MethodInv'
<1> USE DEF MethodInv
<1>1. UNCHANGED <<site, ic, version, class_at, includes, redefined, operators>>
  BY DEF FreeObject, NewObject
<1>2. VersionsAscend' /\ FlagIsRaised'
  BY <1>1 DEF VersionsAscend, FlagIsRaised
<1>3. ClassesAreThere'
  <2>1. Exists(Address)' = Exists(Address) /\ Hit(Address)' = Hit(Address)
    BY <1>1 DEF Exists, Hit
  <2>2. PICK c \in {None, A, Address} :
          class_of' = [class_of EXCEPT ![o] = c] /\ (c = Address => Exists(Address))
    BY CacheAssumption DEF FreeObject, NewObject
  <2> QED
    BY <2>1, <2>2 DEF ClassesAreThere
<1>4. MethodIsCurrent'
  BY <1>1, SameMethod DEF MethodIsCurrent, Hit
<1> QED
  BY <1>2, <1>3, <1>4

\* The instructions change nothing but the cache, which they fill with the version at hand.
LEMMA MethodInstructionSteps ==
  ASSUME MethodInv,
         \/ \E o \in Objects : GetIvar(o) \/ vm_setivar(o) \/ \E id \in Names : SetOther(o, id)
         \/ \E recv, obj \in Values : Compare(recv, obj)
  PROVE  MethodInv'
<1> USE DEF MethodInv
<1>1. UNCHANGED <<site, version, class_at, includes, redefined, operators, class_of>>
  BY DEF GetIvar, vm_setivar, SetOther, Compare, world
<1>2. CASE ic' = ic
  <2>1. UNCHANGED <<VersionsAscend, FlagIsRaised, ClassesAreThere>>
    BY <1>1, <1>2 DEF VersionsAscend, FlagIsRaised, ClassesAreThere, Hit, Exists
  <2>2. MethodIsCurrent'
    BY <1>1, <1>2, SameMethod DEF MethodIsCurrent, Hit
  <2> QED
    BY <2>1, <2>2
<1>3. ASSUME NEW c \in Classes, NEW value, ic' = Filled(c, value), Exists(c),
             site = "==" => value = rb_method_entry(c)
      PROVE  MethodInv'
  <2>1. VersionsAscend' /\ FlagIsRaised'
    BY <1>1, <1>3, CacheAssumption DEF VersionsAscend, FlagIsRaised, Filled
  <2>2. ClassesAreThere'
    BY <1>1, <1>3 DEF ClassesAreThere, Hit, Exists, Filled
  <2>3. MethodIsCurrent'
    BY <1>1, <1>3, SameMethod DEF MethodIsCurrent, Hit, Filled
  <2> QED
    BY <2>1, <2>2, <2>3
<1>4. ASSUME NEW o \in Objects, site = "@x", class_of[o] # None, ic' = AfterIndex(o)
      PROVE  MethodInv'
  <2>1. class_of[o] \in Classes /\ Exists(class_of[o])
    BY <1>4 DEF ClassesAreThere, Classes, Exists
  <2> QED
    BY <1>2, <1>3, <1>4, <2>1 DEF AfterIndex
<1>5. ASSUME NEW recv \in Values, NEW obj \in Values, Compare(recv, obj)
      PROVE  MethodInv'
  <2>1. recv.class \in Classes /\ Exists(recv.class)
    BY ClassAssumption DEF Values, Value, ClassesAreThere, Classes, Exists
  <2> QED
    BY <1>2, <1>3, <1>5, <2>1 DEF Compare, AfterSearch
<1> QED
  BY <1>2, <1>4, <1>5 DEF GetIvar, vm_setivar, SetOther

LEMMA MethodStep == ASSUME MethodInv, [CachesNext]_vars PROVE MethodInv'
<1>1. CASE UNCHANGED vars
  <2>1. UNCHANGED <<VersionsAscend, FlagIsRaised, ClassesAreThere>>
    BY <1>1 DEF vars, VersionsAscend, FlagIsRaised, ClassesAreThere, Hit, Exists
  <2>2. MethodIsCurrent'
    BY <1>1, SameMethod DEF vars, MethodInv, MethodIsCurrent, Hit
  <2> QED
    BY <2>1, <2>2 DEF MethodInv
<1>2. CASE CachesNext
  BY <1>2, MethodVersionSteps, MethodClassSteps, MethodObjectSteps, MethodInstructionSteps
     DEF CachesNext
<1> QED
  BY <1>1, <1>2
-----------------------------------------------------------------------------
\* The methods of Fixnum and String are their own, those of C, unless the flag is up.
LEMMA BuiltInMethod ==
  ASSUME FlagIsRaised, ~operators, NEW c \in {Fixnum, String}
  PROVE  rb_method_entry(c) = [class |-> c, by |-> "C"]
<1>1. AncestorsOf(c) = <<c, Object>>
  BY ClassAssumption DEF AncestorsOf, AncestorsOfFixed
<1> DEFINE has == {j \in DOMAIN <<c, Object>> :
                     <<c, Object>>[j] \in redefined \cup {Fixnum, String, Object}}
<1>2. DOMAIN <<c, Object>> = {1, 2}
  OBVIOUS
<1>3. has \subseteq {1, 2} /\ 1 \in has
  BY <1>2
<1>4. First(has) = 1
  BY <1>3 DEF First
<1>5. c \notin redefined
  BY DEF FlagIsRaised
<1> QED
  BY <1>1, <1>4, <1>5 DEF rb_method_entry

\* What the caches of recv == obj are kept for.
LEMMA MethodInvSuffices == ASSUME MethodInv PROVE EqCallsTheMethod
<1> SUFFICES ASSUME site = "==", NEW recv \in Values, NEW obj \in Values, NEW one \in BOOLEAN
             PROVE  LET me == rb_method_entry(recv.class)
                        answer == opt_eq_func(recv, obj, one)
                    IN /\ answer # Undef =>
                            /\ me.by = "C"
                            /\ (answer = "true") = (IF me.class = Object
                                                    THEN Same(recv, obj, one) ELSE recv = obj)
                       /\ answer = Undef => vm_method_search(recv.class) = me
  BY DEF EqCallsTheMethod
<1>1. recv.class \in Classes
  BY DEF MethodInv, ClassesAreThere, Values, Value, Classes
<1>2. vm_method_search(recv.class) = rb_method_entry(recv.class)
  BY <1>1 DEF MethodInv, MethodIsCurrent, vm_method_search
<1>3. CASE OptimizedUnredefined(recv, obj)
  <2>1. rb_method_entry(recv.class) = [class |-> recv.class, by |-> "C"] /\ recv.class # Object
    BY <1>3, BuiltInMethod, ClassAssumption
       DEF OptimizedUnredefined, Optimized, MethodInv
  <2>2. (recv = obj) = (recv.content = obj.content)
    BY <1>3 DEF OptimizedUnredefined, Optimized, Values, Value
  <2>3. opt_eq_func(recv, obj, one) = Truth(recv.content = obj.content)
    BY <1>3 DEF opt_eq_func
  <2> QED
    BY <2>1, <2>2, <2>3 DEF Truth, Undef
<1>4. CASE ~OptimizedUnredefined(recv, obj) /\ check_cfunc(vm_method_search(recv.class), Object)
  <2>1. opt_eq_func(recv, obj, one) = Truth(Same(recv, obj, one))
    BY <1>4 DEF opt_eq_func
  <2>2. rb_method_entry(recv.class) = [class |-> Object, by |-> "C"]
    BY <1>2, <1>4 DEF check_cfunc
  <2> QED
    BY <2>1, <2>2 DEF Truth, Undef, Same
<1>5. CASE ~OptimizedUnredefined(recv, obj) /\ ~check_cfunc(vm_method_search(recv.class), Object)
  BY <1>2, <1>5 DEF opt_eq_func
<1> QED
  BY <1>3, <1>4, <1>5

\* recv == obj calls the method that a search would find, or does what that would.
THEOREM MethodsAreFresh == Spec => []EqCallsTheMethod
<1>1. MCInit => MethodInv
  BY MethodInit DEF MCInit
<1>2. MethodInv /\ [MCNext]_<<vars, namesVars>> => MethodInv'
  BY MethodStep, StepOfCaches
<1>3. MethodInv => EqCallsTheMethod
  BY MethodInvSuffices
<1> QED
  BY <1>1, <1>2, <1>3, PTL DEF Spec

-----------------------------------------------------------------------------
(* The variable @x.                                                        *)

\* The table that objects of a class go by.
TableOf(c) == iv_index[IF c = Address /\ class_at.singleton THEN class_at.super ELSE c]

\* Only A gets singleton classes; what is freed has no variables.
IvarTypes ==
  /\ iv_index \in [{A, Address} -> Seq(Names)]
  /\ slots \in [Objects -> Seq(Names \cup {None})]
  /\ written \in [Objects -> SUBSET Names]
  /\ class_at.singleton \in BOOLEAN /\ (class_at.singleton => class_at.super = A)
  /\ \A o \in Objects : class_of[o] = None => slots[o] = <<>> /\ written[o] = {}

Once(table) == \A i, j \in DOMAIN table : table[i] = table[j] => i = j
NamesOnce == \A c \in {A, Address} : Once(iv_index[c])

\* A valid cache of @x has the index of @x.
IsIndexFor(c, i) == i \in DOMAIN TableOf(c) /\ TableOf(c)[i] = X
IndexIsCurrent == site = "@x" => \A c \in {A, Address} : Hit(c) => IsIndexFor(c, ic.value)

\* A slot has what was written under the name of its index, nothing written has none.
SlotsHold(object, table, own) ==
  /\ \A i \in DOMAIN object :
       object[i] = IF i \in DOMAIN table /\ table[i] \in own THEN table[i] ELSE None
  /\ \A id \in own : \E i \in DOMAIN table \cap DOMAIN object : table[i] = id
SlotsHoldOwn ==
  \A o \in Objects : class_of[o] # None /\ IsObject(o) =>
    SlotsHold(slots[o], TableOf(class_of[o]), written[o])

IvarInv == IvarTypes /\ NamesOnce /\ IndexIsCurrent /\ SlotsHoldOwn

LEMMA IvarInit == ASSUME Init PROVE IvarInv
<1> USE DEF Init
<1>1. IvarTypes
  BY DEF IvarTypes, NoClass
<1>2. NamesOnce
  BY DEF NamesOnce, Once
<1>3. IndexIsCurrent
  BY CacheAssumption DEF IndexIsCurrent, Hit, EmptyCache
<1>4. SlotsHoldOwn
  BY DEF SlotsHoldOwn
<1> QED
  BY <1>1, <1>2, <1>3, <1>4 DEF IvarInv

\* The table that an object goes by is that of its class or, for a class of its own, of A.
LEMMA TableIsThere ==
  ASSUME IvarTypes, ClassesAreThere, NEW o \in Objects, class_of[o] # None
  PROVE  /\ RealClass(o) \in {A, Address} /\ class_of[o] \in {A, Address}
         /\ Table(o) = iv_index[RealClass(o)] /\ Table(o) = TableOf(class_of[o])
         /\ Table(o) \in Seq(Names)
<1>1. RealClass(o) \in {A, Address} /\ class_of[o] \in {A, Address}
  BY ClassAssumption DEF IvarTypes, ClassesAreThere, RealClass
<1> QED
  BY <1>1 DEF Table, TableOf, RealClass, IvarTypes

\* A table that gets a name keeps what it has.
LEMMA TableWithName ==
  ASSUME NEW old \in Seq(Names), Once(old), NEW id \in Names
  PROVE  LET table == WithName(old, id)
             i == IndexOf(table, id)
         IN /\ table \in Seq(Names) /\ Once(table)
            /\ i \in DOMAIN table /\ table[i] = id
            /\ \A j \in DOMAIN old : j \in DOMAIN table /\ table[j] = old[j]
            /\ \A j \in DOMAIN table \ DOMAIN old : j = i /\ \A k \in DOMAIN old : old[k] # id
<1> DEFINE table == WithName(old, id)
           i == IndexOf(table, id)
<1>1. IndexIn(table, id) # {}
  <2>1. CASE IndexIn(old, id) = {}
    <3>1. table[Len(old) + 1] = id /\ Len(old) + 1 \in DOMAIN table
      BY <2>1 DEF WithName
    <3> QED
      BY <3>1 DEF IndexIn
  <2> QED
    BY <2>1 DEF WithName
<1>2. i \in DOMAIN table /\ table[i] = id
  BY <1>1 DEF IndexIn, IndexOf
<1>3. CASE IndexIn(old, id) = {}
  <2>1. /\ table \in Seq(Names) /\ Len(table) = Len(old) + 1 /\ table[Len(table)] = id
        /\ \A j \in DOMAIN old : table[j] = old[j]
    BY <1>3 DEF WithName
  <2>2. \A k \in DOMAIN old : old[k] # id
    BY <1>3 DEF IndexIn
  <2> QED
    BY <1>2, <2>1, <2>2 DEF Once
<1>4. CASE IndexIn(old, id) # {}
  <2>1. table = old
    BY <1>4 DEF WithName
  <2> QED
    BY <1>2, <2>1
<1> QED
  BY <1>3, <1>4

\* An object that gets a slot keeps what it has; slots in between hold nothing.
LEMMA ObjectWithSlot ==
  ASSUME IvarTypes, NEW o \in Objects, NEW i \in Nat \ {0}, NEW id \in Names
  PROVE  LET object == WithSlot(o, i, id)
         IN /\ object \in Seq(Names \cup {None})
            /\ i \in DOMAIN object /\ DOMAIN slots[o] \subseteq DOMAIN object
            /\ \A j \in DOMAIN object : object[j] = IF j = i THEN id ELSE Slot(o, j)
<1> DEFINE n == IF i > Len(slots[o]) THEN i ELSE Len(slots[o])
<1>1. slots[o] \in Seq(Names \cup {None})
  BY DEF IvarTypes
<1>2. Len(slots[o]) \in Nat /\ DOMAIN slots[o] = 1 .. Len(slots[o])
  BY <1>1
<1>3. n \in Nat /\ i \in 1 .. n /\ 1 .. Len(slots[o]) \subseteq 1 .. n
  BY <1>2
<1>4. \A j \in 1 .. n : (IF j = i THEN id ELSE Slot(o, j)) \in Names \cup {None}
  BY <1>1 DEF Slot
<1>5. WithSlot(o, i, id) = [j \in 1 .. n |-> IF j = i THEN id ELSE Slot(o, j)]
  BY DEF WithSlot
<1>6. WithSlot(o, i, id) \in [1 .. n -> Names \cup {None}]
  BY <1>4, <1>5
<1>7. WithSlot(o, i, id) \in Seq(Names \cup {None})
  BY <1>3, <1>6
<1> QED
  BY <1>2, <1>3, <1>5, <1>7

\* rb_ivar_set keeps tables and objects in step, whoever else has the table.
LEMMA SetKeeps ==
  ASSUME IvarTypes, NamesOnce, SlotsHoldOwn, ClassesAreThere,
         NEW o \in Objects, class_of[o] # None, NEW id \in Names,
         rb_ivar_set(o, id), UNCHANGED <<class_at, class_of>>
  PROVE  /\ IvarTypes' /\ NamesOnce' /\ SlotsHoldOwn'
         /\ \A c \in {A, Address} : \A i : IsIndexFor(c, i) => IsIndexFor(c, i)'
<1>1. written' = [written EXCEPT ![o] = @ \cup {id}]
  BY DEF rb_ivar_set
<1>2. CASE ~IsObject(o)
  <2>1. UNCHANGED <<iv_index, slots>>
    BY <1>2 DEF rb_ivar_set
  <2>2. IvarTypes'
    BY <1>1, <2>1 DEF IvarTypes
  <2>3. NamesOnce' /\ \A c : TableOf(c)' = TableOf(c)
    BY <2>1 DEF NamesOnce, Once, TableOf
  <2>4. SlotsHoldOwn'
    <3> SUFFICES ASSUME NEW p \in Objects, class_of[p] # None, IsObject(p)
                 PROVE  SlotsHold(slots[p], TableOf(class_of[p]), written[p])'
      BY DEF SlotsHoldOwn, IsObject
    <3>1. p # o /\ written'[p] = written[p]
      BY <1>1, <1>2 DEF IvarTypes
    <3> QED
      BY <2>1, <2>3, <3>1 DEF SlotsHoldOwn, SlotsHold
  <2> QED
    BY <2>2, <2>3, <2>4 DEF IsIndexFor
<1>3. CASE IsObject(o)
  <2> DEFINE old == Table(o)
             table == WithName(old, id)
             i == IndexOf(table, id)
  <2>1. /\ iv_index' = [iv_index EXCEPT ![RealClass(o)] = table]
        /\ slots' = [slots EXCEPT ![o] = WithSlot(o, i, id)]
    BY <1>3 DEF rb_ivar_set
  <2>2. /\ RealClass(o) \in {A, Address} /\ class_of[o] \in {A, Address}
        /\ old = iv_index[RealClass(o)] /\ old = TableOf(class_of[o]) /\ old \in Seq(Names)
    BY TableIsThere
  <2>3. /\ table \in Seq(Names) /\ Once(table)
        /\ i \in DOMAIN table /\ table[i] = id
        /\ \A j \in DOMAIN old : j \in DOMAIN table /\ table[j] = old[j]
        /\ \A j \in DOMAIN table \ DOMAIN old : j = i /\ \A k \in DOMAIN old : old[k] # id
    <3>1. old \in Seq(Names) /\ Once(old)
      BY <2>2 DEF NamesOnce
    <3> HIDE DEF old
    <3> QED
      BY <3>1, TableWithName
  <2> HIDE DEF old, table, i
  <2>4. i \in Nat \ {0}
    BY <2>3
  <2> DEFINE object == WithSlot(o, i, id)
  <2>5. /\ object \in Seq(Names \cup {None})
        /\ i \in DOMAIN object /\ DOMAIN slots[o] \subseteq DOMAIN object
        /\ \A j \in DOMAIN object : object[j] = IF j = i THEN id ELSE Slot(o, j)
    BY <2>4, ObjectWithSlot
  <2> HIDE DEF object
  <2>6. slots' = [slots EXCEPT ![o] = object]
    BY <2>1 DEF object
  <2>7. IvarTypes'
    BY <1>1, <2>1, <2>2, <2>3, <2>5, <2>6 DEF IvarTypes
  <2>8. NamesOnce'
    BY <2>1, <2>2, <2>3 DEF NamesOnce, Once, IvarTypes
  <2>9. ASSUME NEW c \in {A, Address}, class_at.singleton => class_at.super = A
        PROVE  \/ TableOf(c) = old /\ TableOf(c)' = table
               \/ TableOf(c)' = TableOf(c)
    BY <2>1, <2>2, <2>9 DEF TableOf, IvarTypes
  <2>10. SlotsHoldOwn'
    <3> SUFFICES ASSUME NEW p \in Objects, class_of[p] # None, IsObject(p)
                 PROVE  SlotsHold(slots[p], TableOf(class_of[p]), written[p])'
      BY DEF SlotsHoldOwn, IsObject
    <3>1. class_of[p] \in {A, Address} /\ SlotsHold(slots[p], TableOf(class_of[p]), written[p])
      BY DEF ClassesAreThere, SlotsHoldOwn
    <3>2. CASE p # o
      <4>1. slots'[p] = slots[p] /\ written'[p] = written[p]
        BY <1>1, <2>6, <3>2 DEF IvarTypes
      <4>2. CASE TableOf(class_of[p])' = TableOf(class_of[p])
        BY <3>1, <4>1, <4>2
      <4>3. CASE TableOf(class_of[p]) = old /\ TableOf(class_of[p])' = table
        <5>1. \A j \in DOMAIN slots[p] :
                slots[p][j] = IF j \in DOMAIN table /\ table[j] \in written[p]
                              THEN table[j] ELSE None
          BY <2>3, <3>1, <4>3 DEF SlotsHold
        <5>2. \A own \in written[p] : \E j \in DOMAIN table \cap DOMAIN slots[p] : table[j] = own
          BY <2>3, <3>1, <4>3 DEF SlotsHold
        <5> QED
          BY <4>1, <4>3, <5>1, <5>2 DEF SlotsHold
      <4> QED
        BY <2>9, <3>1, <4>2, <4>3 DEF IvarTypes
    <3>3. CASE p = o
      <4>1. slots'[o] = object /\ written'[o] = written[o] \cup {id}
        BY <1>1, <2>6 DEF IvarTypes
      <4>2. TableOf(class_of[o])' = table
        BY <2>1, <2>2 DEF TableOf, RealClass, IvarTypes
      <4>3. ASSUME NEW j \in DOMAIN object
            PROVE  object[j] = IF j \in DOMAIN table /\ table[j] \in written[o] \cup {id}
                               THEN table[j] ELSE None
        <5>1. CASE j = i
          BY <2>3, <2>5, <5>1
        <5>2. CASE j # i /\ j \in DOMAIN slots[o]
          <6>1. object[j] = slots[o][j]
            BY <2>5, <5>2 DEF Slot
          <6> QED
            BY <2>2, <2>3, <3>1, <3>3, <5>2, <6>1 DEF SlotsHold, Once
        <5>3. CASE j # i /\ j \notin DOMAIN slots[o]
          <6>1. object[j] = None
            BY <2>5, <5>3 DEF Slot
          <6>2. j \in DOMAIN table => table[j] \notin written[o] \cup {id}
            BY <2>2, <2>3, <3>1, <3>3, <5>3 DEF SlotsHold, Once
          <6> QED
            BY <6>1, <6>2
        <5> QED
          BY <5>1, <5>2, <5>3
      <4>4. \A own \in written[o] \cup {id} : \E j \in DOMAIN table \cap DOMAIN object : table[j] = own
        BY <2>2, <2>3, <2>5, <3>1, <3>3 DEF SlotsHold
      <4> QED
        BY <3>3, <4>1, <4>2, <4>3, <4>4 DEF SlotsHold
    <3> QED
      BY <3>2, <3>3
  <2>11. \A c \in {A, Address} : \A k : IsIndexFor(c, k) => IsIndexFor(c, k)'
    BY <2>3, <2>9 DEF IsIndexFor, IvarTypes
  <2> QED
    BY <2>7, <2>8, <2>10, <2>11
<1> QED
  BY <1>2, <1>3

\* What an instruction leaves in the cache is the index of @x.
LEMMA FillIsIndex ==
  ASSUME IvarTypes, IndexIsCurrent, ClassesAreThere, site = "@x",
         NEW o \in Objects, class_of[o] # None,
         NEW c \in {A, Address}, AfterIndex(o).class = c, AfterIndex(o).vmstat = version
  PROVE  IsIndexFor(c, AfterIndex(o).value)
<1>1. CASE AfterIndex(o) = ic
  BY <1>1 DEF IndexIsCurrent, Hit
<1>2. CASE AfterIndex(o) # ic
  <2>1. AfterIndex(o) = Filled(class_of[o], IndexOf(Table(o), X)) /\ IndexIn(Table(o), X) # {}
    BY <1>2 DEF AfterIndex
  <2>2. IndexOf(Table(o), X) \in IndexIn(Table(o), X)
    BY <2>1 DEF IndexOf
  <2> QED
    BY <2>1, <2>2, TableIsThere DEF Filled, IndexIn, IsIndexFor
<1> QED
  BY <1>1, <1>2

LEMMA IvarVersionSteps ==
  ASSUME MethodInv, IvarInv,
         \/ \E k \in {Object, String, A, Address, Module} : DefineMethod(k) \/ RemoveMethod(k)
         \/ Include
         \/ FreeClass
  PROVE  IvarInv'
<1> USE DEF IvarInv
<1>1. \A c \in {A, Address} : ~Hit(c)'
  BY VersionVoidsCache DEF MethodInv, DefineMethod, RemoveMethod, Include, FreeClass, Classes
<1>2. UNCHANGED <<site, class_of, slots, written>>
  BY DEF DefineMethod, RemoveMethod, Include, FreeClass
<1>3. IndexIsCurrent'
  BY <1>1 DEF IndexIsCurrent
<1>4. CASE UNCHANGED <<class_at, iv_index>>
  <2>1. \A c : TableOf(c)' = TableOf(c)
    BY <1>4 DEF TableOf
  <2>2. SlotsHoldOwn'
    BY <1>2, <1>4, <2>1 DEF SlotsHoldOwn, SlotsHold, IsObject
  <2> QED
    BY <1>2, <1>3, <1>4, <2>2 DEF IvarTypes, NamesOnce, Once
<1>5. CASE FreeClass
  <2>1. class_at' = NoClass /\ iv_index' = [iv_index EXCEPT ![Address] = <<>>]
    BY <1>5 DEF FreeClass
  <2>2. IvarTypes' /\ NamesOnce'
    BY <1>2, <2>1 DEF IvarTypes, NamesOnce, Once, NoClass
  <2>3. \A o \in Objects : class_of[o] # None => class_of[o] = A
    BY <1>5 DEF FreeClass, MethodInv, ClassesAreThere
  <2>4. TableOf(A)' = TableOf(A)
    BY <2>1, ClassAssumption DEF TableOf, IvarTypes
  <2>5. SlotsHoldOwn'
    BY <1>2, <2>3, <2>4, ClassAssumption DEF SlotsHoldOwn, SlotsHold, IsObject
  <2> QED
    BY <1>3, <2>2, <2>5
<1> QED
  BY <1>4, <1>5 DEF DefineMethod, RemoveMethod, Include

LEMMA IvarClassSteps ==
  ASSUME MethodInv, IvarInv,
         \/ \E super \in {Object, String, A} : NewClass(super)
         \/ \E o \in Objects : SingletonClass(o)
  PROVE  IvarInv'
<1> USE DEF IvarInv
<1>1. /\ UNCHANGED <<site, ic, version, iv_index, slots, written>>
      /\ ~Exists(Address) /\ ~Hit(Address)
      /\ \A o \in Objects : class_of[o] # None => class_of[o] = A
  BY DEF NewClass, SingletonClass, MethodInv, ClassesAreThere
<1>2. TableOf(A)' = TableOf(A) /\ TableOf(A) = iv_index[A]
  BY <1>1, ClassAssumption DEF TableOf
<1>3. /\ class_at'.singleton \in BOOLEAN
      /\ class_at'.singleton => class_at'.super = A
      /\ \A o \in Objects : class_of[o] = None <=> class_of'[o] = None
      /\ \A o \in Objects : class_of'[o] = Address =>
           class_at'.singleton /\ class_at'.super = A /\ class_of[o] = A
  <2>1. CASE \E super \in {Object, String, A} : NewClass(super)
    <3>1. class_of' = class_of /\ class_at'.singleton = FALSE
      BY <2>1 DEF NewClass
    <3>2. \A o \in Objects : class_of[o] # Address
      BY <1>1, CacheAssumption DEF MethodInv, ClassesAreThere
    <3> QED
      BY <3>1, <3>2
  <2>2. ASSUME NEW o \in Objects, SingletonClass(o)
        PROVE  /\ class_at'.singleton = TRUE /\ class_at'.super = A
               /\ class_of[o] = A
               /\ \A p \in Objects : class_of'[p] = IF p = o THEN Address ELSE class_of[p]
    BY <2>2 DEF SingletonClass, MethodInv, ClassesAreThere
  <2> QED
    BY <1>1, <2>1, <2>2, CacheAssumption
<1>4. IvarTypes' /\ NamesOnce'
  BY <1>1, <1>3 DEF IvarTypes, NamesOnce, Once
<1>5. IndexIsCurrent'
  BY <1>1, <1>2 DEF IndexIsCurrent, Hit, IsIndexFor
<1>6. SlotsHoldOwn'
  <2> SUFFICES ASSUME NEW o \in Objects, class_of'[o] # None
               PROVE  SlotsHold(slots[o], TableOf(class_of[o]), written[o])'
    BY DEF SlotsHoldOwn
  <2>1. class_of[o] = A /\ IsObject(o)
    BY <1>1, <1>3, ClassAssumption DEF IsObject
  <2>2. TableOf(class_of[o])' = iv_index[A]
    BY <1>1, <1>2, <1>3, <2>1 DEF TableOf, SingletonClass, NewClass, MethodInv, ClassesAreThere
  <2>3. SlotsHold(slots[o], iv_index[A], written[o])
    BY <1>2, <2>1, CacheAssumption DEF SlotsHoldOwn
  <2> QED
    BY <1>1, <2>2, <2>3 DEF SlotsHold
<1> QED
  BY <1>4, <1>5, <1>6

LEMMA IvarObjectSteps ==
  ASSUME MethodInv, IvarInv, NEW o \in Objects,
         FreeObject(o) \/ \E c \in {A, Address} : NewObject(o, c)
  PROVE  IvarInv'
<1> USE DEF IvarInv
<1>1. UNCHANGED <<site, ic, version, class_at, iv_index>>
  BY DEF FreeObject, NewObject
<1>2. \A c : TableOf(c)' = TableOf(c)
  BY <1>1 DEF TableOf
<1>3. IndexIsCurrent' /\ NamesOnce'
  BY <1>1, <1>2 DEF IndexIsCurrent, Hit, IsIndexFor, NamesOnce, Once
<1>4. \A p \in Objects \ {o} : UNCHANGED <<class_of[p], slots[p], written[p]>>
  BY DEF FreeObject, NewObject, MethodInv, ClassesAreThere, IvarTypes
<1>5. PICK n \in Nat :
        /\ slots' = [slots EXCEPT ![o] = [i \in 1 .. n |-> None]]
        /\ class_of'[o] = None => slots'[o] = <<>>
        /\ written'[o] = {} /\ written' \in [Objects -> SUBSET Names]
  <2>1. CASE FreeObject(o)
    <3>1. [i \in 1 .. 0 |-> None] = <<>>
      OBVIOUS
    <3> QED
      BY <2>1, <3>1 DEF FreeObject, IvarTypes
  <2>2. CASE \E c \in {A, Address} : NewObject(o, c)
    BY <2>2, CacheAssumption DEF NewObject, MethodInv, ClassesAreThere, IvarTypes
  <2> QED
    BY <2>1, <2>2
<1>6. [i \in 1 .. n |-> None] \in Seq(Names \cup {None})
  OBVIOUS
<1>7. IvarTypes'
  BY <1>1, <1>4, <1>5, <1>6 DEF IvarTypes
<1>8. SlotsHoldOwn'
  <2> SUFFICES ASSUME NEW p \in Objects, class_of'[p] # None, IsObject(p)'
               PROVE  SlotsHold(slots[p], TableOf(class_of[p]), written[p])'
    BY DEF SlotsHoldOwn
  <2>1. CASE p = o
    BY <1>5, <2>1 DEF SlotsHold, IvarTypes
  <2>2. CASE p # o
    BY <1>1, <1>2, <1>4, <2>2 DEF SlotsHoldOwn, SlotsHold, IsObject
  <2> QED
    BY <2>1, <2>2
<1> QED
  BY <1>3, <1>7, <1>8

\* A slot that is there is written in its place.
LEMMA SlotWritten ==
  ASSUME NEW S, NEW q \in Seq(S), NEW i \in DOMAIN q, NEW v \in S
  PROVE  [q EXCEPT ![i] = v] \in Seq(S) /\ DOMAIN [q EXCEPT ![i] = v] = DOMAIN q
  OBVIOUS

\* A write where the cache says is a write under the name @x.
LEMMA SetBySlot ==
  ASSUME MethodInv, IvarInv, site = "@x",
         NEW o \in Objects, class_of[o] # None, IsObject(o),
         Hit(class_of[o]), ic.value <= Len(slots[o]),
         slots' = [slots EXCEPT ![o][ic.value] = X],
         written' = [written EXCEPT ![o] = @ \cup {X}],
         UNCHANGED <<site, ic, version, class_at, class_of, iv_index>>
  PROVE  IvarInv'
<1> USE DEF IvarInv, MethodInv
<1>1. \A c : TableOf(c)' = TableOf(c)
  BY DEF TableOf
<1>2. IndexIsCurrent' /\ NamesOnce'
  BY <1>1 DEF IndexIsCurrent, Hit, IsIndexFor, NamesOnce, Once
<1> DEFINE table == TableOf(class_of[o])
<1>3. table \in Seq(Names) /\ Once(table) /\ class_of[o] \in {A, Address}
  BY TableIsThere DEF NamesOnce
<1>4. ic.value \in DOMAIN table /\ table[ic.value] = X
  BY <1>3 DEF IndexIsCurrent, IsIndexFor
<1> HIDE DEF table
<1>5. slots[o] \in Seq(Names \cup {None}) /\ ic.value \in DOMAIN slots[o]
  <2>1. slots[o] \in Seq(Names \cup {None})
    BY DEF IvarTypes
  <2>2. ic.value \in 1 .. Len(table)
    BY <1>3, <1>4
  <2>3. ic.value \in 1 .. Len(slots[o])
    BY <2>1, <2>2
  <2> QED
    BY <2>1, <2>3
<1>6. /\ slots'[o] = [slots[o] EXCEPT ![ic.value] = X]
      /\ written'[o] = written[o] \cup {X}
      /\ \A p \in Objects \ {o} : slots'[p] = slots[p] /\ written'[p] = written[p]
  <2>1. DOMAIN slots = Objects /\ DOMAIN written = Objects
    BY DEF IvarTypes
  <2> USE <2>1
  <2> HIDE DEF IvarInv, MethodInv
  <2>2. slots'[o] = [slots[o] EXCEPT ![ic.value] = X]
    OBVIOUS
  <2>3. written'[o] = written[o] \cup {X}
    OBVIOUS
  <2> QED
    BY <2>2, <2>3
<1>7. slots'[o] \in Seq(Names \cup {None}) /\ DOMAIN slots'[o] = DOMAIN slots[o]
  <2>1. X \in Names \cup {None}
    BY CacheAssumption
  <2> HIDE DEF IvarInv, MethodInv
  <2> QED
    BY SMTT(30), <1>5, <1>6, <2>1, SlotWritten
<1>8. IvarTypes'
  BY <1>6, <1>7, CacheAssumption DEF IvarTypes
<1>9. SlotsHold(slots[o], table, written[o])
  BY DEF SlotsHoldOwn, table
<1>10. SlotsHold(slots'[o], table, written'[o])
  <2>1. ASSUME NEW i \in DOMAIN slots[o]
        PROVE  slots'[o][i] = IF i \in DOMAIN table /\ table[i] \in written[o] \cup {X}
                              THEN table[i] ELSE None
    <3>1. CASE i = ic.value
      BY <1>4, <1>5, <1>6, <3>1
    <3>2. CASE i # ic.value
      <4>1. slots'[o][i] = slots[o][i] /\ (i \in DOMAIN table => table[i] # X)
        BY <1>3, <1>4, <1>5, <1>6, <3>2 DEF Once
      <4> QED
        BY <1>9, <4>1 DEF SlotsHold
    <3> QED
      BY <3>1, <3>2
  <2>2. \A id \in written[o] \cup {X} : \E i \in DOMAIN table \cap DOMAIN slots[o] : table[i] = id
    BY <1>4, <1>5, <1>9 DEF SlotsHold
  <2> QED
    BY <1>6, <1>7, <2>1, <2>2 DEF SlotsHold
<1>11. SlotsHoldOwn'
  <2> SUFFICES ASSUME NEW p \in Objects, class_of[p] # None, IsObject(p)
               PROVE  SlotsHold(slots[p], TableOf(class_of[p]), written[p])'
    BY DEF SlotsHoldOwn, IsObject
  <2>1. CASE p = o
    BY <1>1, <1>10, <2>1 DEF table
  <2>2. CASE p # o
    BY <1>1, <1>6, <2>2 DEF SlotsHoldOwn, SlotsHold
  <2> QED
    BY <2>1, <2>2
<1> QED
  BY <1>2, <1>8, <1>11

LEMMA IvarInstructionSteps ==
  ASSUME MethodInv, IvarInv, NEW o \in Objects,
         GetIvar(o) \/ vm_setivar(o) \/ \E id \in Names : SetOther(o, id)
  PROVE  IvarInv'
<1> USE DEF IvarInv, MethodInv
<1>1. /\ site = "@x" /\ class_of[o] # None
      /\ UNCHANGED <<site, version, class_at, class_of>>
  BY DEF GetIvar, vm_setivar, SetOther, world
<1>2. CASE GetIvar(o)
  <2>1. UNCHANGED <<iv_index, slots, written>> /\ \A c : TableOf(c)' = TableOf(c)
    BY <1>1, <1>2 DEF GetIvar, world, TableOf
  <2>2. IndexIsCurrent'
    BY <1>1, <1>2, <2>1, FillIsIndex DEF GetIvar, IndexIsCurrent, Hit, IsIndexFor
  <2> QED
    BY <1>1, <2>1, <2>2 DEF IvarTypes, NamesOnce, Once, SlotsHoldOwn, SlotsHold, IsObject
<1>3. ASSUME NEW id \in Names, rb_ivar_set(o, id), ic' = ic \/ ic' = AfterIndex(o)
      PROVE  IvarInv'
  <2>1. /\ IvarTypes' /\ NamesOnce' /\ SlotsHoldOwn'
        /\ \A c \in {A, Address} : \A i : IsIndexFor(c, i) => IsIndexFor(c, i)'
    BY <1>1, <1>3, SetKeeps
  <2>2. \A c \in {A, Address} : Hit(c)' => IsIndexFor(c, ic'.value)
    BY <1>1, <1>3, FillIsIndex DEF IndexIsCurrent, Hit
  <2> QED
    BY <2>1, <2>2 DEF IndexIsCurrent, IsIndexFor
<1>4. CASE vm_setivar(o)
  <2>1. CASE IsObject(o) /\ Hit(class_of[o]) /\ ic.value <= Len(slots[o])
    BY <1>1, <1>4, <2>1, SetBySlot DEF vm_setivar
  <2>2. CASE ~(IsObject(o) /\ Hit(class_of[o]) /\ ic.value <= Len(slots[o]))
    BY <1>3, <1>4, <2>2, CacheAssumption DEF vm_setivar
  <2> QED
    BY <2>1, <2>2
<1> QED
  BY <1>2, <1>3, <1>4 DEF SetOther

LEMMA IvarStep == ASSUME MethodInv, IvarInv, [CachesNext]_vars PROVE IvarInv'
<1> USE DEF IvarInv
<1>1. ASSUME UNCHANGED <<site, version, class_at, class_of, iv_index, slots, written>>,
             ic' = ic \/ site # "@x"
      PROVE  IvarInv'
  <2>1. \A c : TableOf(c)' = TableOf(c)
    BY <1>1 DEF TableOf
  <2> QED
    BY <1>1, <2>1 DEF IvarTypes, NamesOnce, Once, IndexIsCurrent, Hit, IsIndexFor,
       SlotsHoldOwn, SlotsHold, IsObject
<1>2. CASE UNCHANGED vars
  BY <1>1, <1>2 DEF vars
<1>3. ASSUME NEW recv \in Values, NEW obj \in Values, Compare(recv, obj)
      PROVE  IvarInv'
  BY <1>1, <1>3 DEF Compare, world
<1>4. CASE CachesNext
  BY <1>3, <1>4, IvarVersionSteps, IvarClassSteps, IvarObjectSteps, IvarInstructionSteps
     DEF CachesNext
<1> QED
  BY <1>2, <1>4

\* What the caches of @x are kept for.
LEMMA IvarInvSuffices == ASSUME MethodInv, IvarInv PROVE IvarsAreOwn
<1> USE DEF IvarInv, MethodInv
<1> SUFFICES ASSUME site = "@x", NEW o \in Objects, class_of[o] # None, IsObject(o)
             PROVE  vm_getivar(o) = IF X \in written[o] THEN X ELSE None
  BY DEF IvarsAreOwn, vm_getivar
<1>1. /\ Table(o) = TableOf(class_of[o]) /\ Once(Table(o)) /\ class_of[o] \in {A, Address}
      /\ SlotsHold(slots[o], Table(o), written[o])
  BY TableIsThere DEF NamesOnce, SlotsHoldOwn
<1>2. ASSUME NEW i \in DOMAIN Table(o), Table(o)[i] = X
      PROVE  Slot(o, i) = IF X \in written[o] THEN X ELSE None
  BY <1>1, <1>2 DEF SlotsHold, Slot, Once
<1>3. CASE Hit(class_of[o])
  BY <1>1, <1>2, <1>3 DEF vm_getivar, IndexIsCurrent, IsIndexFor
<1>4. CASE ~Hit(class_of[o]) /\ IndexIn(Table(o), X) # {}
  <2>1. IndexOf(Table(o), X) \in IndexIn(Table(o), X)
    BY <1>4 DEF IndexOf
  <2> QED
    BY <1>2, <1>4, <2>1 DEF vm_getivar, IndexIn
<1>5. CASE ~Hit(class_of[o]) /\ IndexIn(Table(o), X) = {}
  BY <1>1, <1>5 DEF vm_getivar, IndexIn, SlotsHold
<1> QED
  BY <1>3, <1>4, <1>5

\* @x reads what the program gave the object, by whatever class and index the cache has.
THEOREM VariablesAreOwn == Spec => []IvarsAreOwn
<1>1. MCInit => MethodInv /\ IvarInv
  BY MethodInit, IvarInit DEF MCInit
<1>2. MethodInv /\ IvarInv /\ [MCNext]_<<vars, namesVars>> => MethodInv' /\ IvarInv'
  BY MethodStep, IvarStep, StepOfCaches
<1>3. MethodInv /\ IvarInv => IvarsAreOwn
  BY IvarInvSuffices
<1> QED
  BY <1>1, <1>2, <1>3, PTL DEF Spec

-----------------------------------------------------------------------------
(* Names.                                                                  *)

Nodes == [class : Bodies \cup {TopClass, Nil}, eval : BOOLEAN]

\* The bodies and evals around code: the program is the outermost, and only an eval
\* has no class.
IsCref(list) ==
  /\ list \in Seq(Nodes) /\ list # <<>> /\ list[Len(list)] = Node(TopClass, FALSE)
  /\ \A i \in 1 .. Len(list) - 1 :
       list[i].class # TopClass /\ (list[i].class = Nil => list[i].eval)

Contexts ==
  [blocks : Seq(Seq(Nodes)), cref_stack : Seq(Nodes), self : Spaces, within : Seq(Nodes)]

\* The cref an activation finds is what it is written in.
IsWell(context) ==
  /\ context \in Contexts /\ IsCref(context.within)
  /\ vm_get_cref(context) = context.within

NamesInv ==
  /\ running \in Seq(Contexts) /\ running # <<>>
  /\ \A i \in DOMAIN running : IsWell(running[i])
  /\ IsWell(kept)

-----------------------------------------------------------------------------
(* The first of some places.                                               *)

LEMMA FirstIsIn ==
  ASSUME NEW T \in SUBSET Nat, T # {}
  PROVE  FirstOf(T) \in T /\ FirstOf(T) \in Nat /\ \A j \in T : FirstOf(T) <= j
<1>1. \E m \in T : \A j \in T : m <= j
  BY SmallestOf
<1>2. FirstOf(T) \in T /\ \A j \in T : FirstOf(T) <= j
  BY <1>1 DEF FirstOf
<1> QED
  BY <1>2

LEMMA FirstIs ==
  ASSUME NEW T \in SUBSET Nat, NEW m \in T, \A j \in T : m <= j
  PROVE  FirstOf(T) = m
<1>1. FirstOf(T) \in T /\ FirstOf(T) \in Nat /\ FirstOf(T) <= m
  BY FirstIsIn
<1>2. m <= FirstOf(T) /\ m \in Nat
  BY <1>1
<1> HIDE DEF FirstOf
<1> QED
  BY <1>1, <1>2

-----------------------------------------------------------------------------
(* Activations.                                                            *)

LEMMA CrefOfIseq ==
  ASSUME NEW stack, NEW self, NEW within
  PROVE  vm_get_cref(Context(<<>>, stack, self, within)) = stack
BY DEF vm_get_cref, Context

\* A sequence with one more in front.
LEMMA Prefixed ==
  ASSUME NEW S, NEW x \in S, NEW s \in Seq(S)
  PROVE  /\ <<x>> \o s \in Seq(S) /\ Len(<<x>> \o s) = Len(s) + 1 /\ Len(s) \in Nat
         /\ (<<x>> \o s)[1] = x
         /\ \A i \in 1 .. Len(s) : (<<x>> \o s)[i + 1] = s[i]
<1>1. /\ <<x>> \in Seq(S) /\ Len(<<x>>) = 1 /\ Len(s) \in Nat /\ <<x>>[1] = x
  OBVIOUS
<1>2. /\ <<x>> \o s \in Seq(S) /\ Len(<<x>> \o s) = Len(<<x>>) + Len(s)
      /\ \A i \in 1 .. Len(<<x>>) + Len(s) : (<<x>> \o s)[i] =
           IF i <= Len(<<x>>) THEN <<x>>[i] ELSE s[i - Len(<<x>>)]
  BY <1>1, ConcatProperties
<1>3. ASSUME NEW t, t \in Seq(S), Len(t) = 1 + Len(s),
             \A i \in 1 .. 1 + Len(s) : t[i] = IF i <= 1 THEN <<x>>[i] ELSE s[i - 1]
      PROVE  t[1] = x /\ \A i \in 1 .. Len(s) : t[i + 1] = s[i]
  BY <1>1, <1>3
<1> QED
  BY <1>1, <1>2, <1>3

\* The cref of a block evaluated for a receiver, and of one that is called.
LEMMA CrefOfBlock ==
  ASSUME NEW context \in Contexts, NEW own \in Seq(Nodes), NEW self, NEW within
  PROVE  vm_get_cref(Context(<<own>> \o context.blocks, context.cref_stack, self, within)) =
           IF own # <<>> THEN own ELSE vm_get_cref(context)
<1> DEFINE blocks == context.blocks
           new == <<own>> \o blocks
           Own(seq) == {i \in DOMAIN seq : seq[i] # <<>>}
           stack == context.cref_stack
           got == vm_get_cref(Context(new, stack, self, within))
           old == vm_get_cref(context)
<1>1. blocks \in Seq(Seq(Nodes)) /\ DOMAIN blocks = 1 .. Len(blocks)
  BY DEF Contexts
<1>2. /\ new \in Seq(Seq(Nodes)) /\ Len(new) = Len(blocks) + 1 /\ Len(blocks) \in Nat
      /\ new[1] = own /\ \A i \in 1 .. Len(blocks) : new[i + 1] = blocks[i]
  BY <1>1, Prefixed
<1>3. DOMAIN new = 1 .. Len(blocks) + 1
  BY <1>2
<1>4. got = IF Own(new) = {} THEN stack ELSE new[FirstOf(Own(new))]
  BY DEF vm_get_cref, Context
<1>5. old = IF Own(blocks) = {} THEN stack ELSE blocks[FirstOf(Own(blocks))]
  BY DEF vm_get_cref
<1>6. Own(blocks) \in SUBSET Nat /\ Own(new) \in SUBSET Nat
  BY <1>1, <1>3
<1> HIDE DEF new, blocks, stack, got, old
<1>7. ASSUME own # <<>> PROVE got = own
  <2>1. 1 \in Own(new) /\ \A j \in Own(new) : 1 <= j
    BY <1>2, <1>3, <1>7
  <2>2. FirstOf(Own(new)) = 1
    BY <2>1, <1>6, FirstIs
  <2> QED
    BY <2>1, <2>2, <1>2, <1>4
<1>8. ASSUME own = <<>> PROVE got = old
  <2>1. \A i \in 1 .. Len(blocks) : i \in Own(blocks) => i + 1 \in Own(new)
    BY <1>2, <1>3
  <2>2. \A j \in Own(new) : j - 1 \in Own(blocks)
    BY SMTT(30), <1>1, <1>2, <1>3, <1>8
  <2>3. CASE Own(blocks) = {}
    BY <2>2, <2>3, <1>4, <1>5
  <2>4. CASE Own(blocks) # {}
    <3> DEFINE m == FirstOf(Own(blocks))
    <3>1. m \in Own(blocks) /\ m \in Nat /\ \A j \in Own(blocks) : m <= j
      BY <2>4, <1>6, FirstIsIn
    <3> HIDE DEF m
    <3>2. m \in 1 .. Len(blocks) /\ m + 1 \in Own(new)
      BY <3>1, <2>1, <1>1
    <3>3. \A j \in Own(new) : m + 1 <= j
      BY <3>1, <2>2, <1>6
    <3>4. FirstOf(Own(new)) = m + 1
      BY <3>2, <3>3, <1>6, FirstIs
    <3>5. new[m + 1] = blocks[m]
      BY <3>2, <1>2
    <3> QED
      BY <3>2, <3>4, <3>5, <2>4, <1>4, <1>5 DEF m
  <2> QED
    BY <2>3, <2>4
<1> QED
  BY <1>7, <1>8 DEF new, blocks, stack, got, old

\* A body or an eval more around code.
LEMMA CrefPushed ==
  ASSUME NEW list, IsCref(list), NEW c \in Bodies \cup {Nil}, NEW eval \in BOOLEAN, c = Nil => eval
  PROVE  IsCref(<<Node(c, eval)>> \o list) /\ <<Node(c, eval)>> \o list # <<>>
<1>1. /\ Node(c, eval) \in Nodes /\ c # TopClass
      /\ Node(c, eval).class = c /\ Node(c, eval).eval = eval
  BY NameAssumption DEF Node, Nodes
<1>2. list \in Seq(Nodes) /\ Len(list) \in Nat \ {0}
  BY EmptySeq DEF IsCref
<1> DEFINE new == <<Node(c, eval)>> \o list
<1>3. /\ new \in Seq(Nodes) /\ Len(new) = Len(list) + 1 /\ new[1] = Node(c, eval)
      /\ \A i \in 1 .. Len(list) : new[i + 1] = list[i]
  BY <1>1, <1>2, Prefixed
<1> HIDE DEF new
<1>4. new # <<>>
  BY <1>2, <1>3
<1>5. new[Len(new)] = Node(TopClass, FALSE)
  <2>1. Len(list) \in 1 .. Len(list)
    BY <1>2
  <2>2. new[Len(list) + 1] = list[Len(list)]
    BY <2>1, <1>3
  <2> QED
    BY <2>2, <1>3 DEF IsCref
<1>6. ASSUME NEW i \in 1 .. Len(new) - 1
      PROVE  new[i].class # TopClass /\ (new[i].class = Nil => new[i].eval)
  <2>1. CASE i = 1
    BY <2>1, <1>1, <1>3
  <2>2. CASE i # 1
    <3>1. i - 1 \in 1 .. Len(list) - 1 /\ i - 1 \in 1 .. Len(list) /\ (i - 1) + 1 = i
      BY <2>2, <1>2, <1>3
    <3>2. new[i] = list[i - 1]
      BY <3>1, <1>3
    <3> QED
      BY <3>1, <3>2 DEF IsCref
  <2> QED
    BY <2>1, <2>2
<1> QED
  BY <1>3, <1>4, <1>5, <1>6 DEF IsCref, new

\* A sequence of one.
LEMMA OneAlone ==
  ASSUME NEW S, NEW x \in S
  PROVE  <<x>> \in Seq(S) /\ <<x>> # <<>> /\ Len(<<x>>) = 1 /\ <<x>>[1] = x /\ DOMAIN <<x>> = {1}
OBVIOUS

\* Code with its cref in its iseq.
LEMMA ContextIsWell ==
  ASSUME NEW blocks \in Seq(Seq(Nodes)), NEW stack \in Seq(Nodes), NEW self \in Spaces, NEW within,
         IsCref(within), vm_get_cref(Context(blocks, stack, self, within)) = within
  PROVE  IsWell(Context(blocks, stack, self, within))
<1>1. within \in Seq(Nodes)
  BY DEF IsCref
<1>2. Context(blocks, stack, self, within) \in Contexts
  BY <1>1 DEF Context, Contexts
<1>3. Context(blocks, stack, self, within).within = within
  BY DEF Context
<1> QED
  BY <1>2, <1>3 DEF IsWell

\* YieldBlock changes the blocks and nothing else.
LEMMA OtherBlocks ==
  ASSUME NEW context \in Contexts, NEW blocks
  PROVE  [context EXCEPT !.blocks = blocks] =
           Context(blocks, context.cref_stack, context.self, context.within)
<1>1. context = [blocks |-> context.blocks, cref_stack |-> context.cref_stack,
                 self |-> context.self, within |-> context.within]
  BY DEF Contexts
<1> QED
  BY <1>1 DEF Context

\* The program at its start.
LEMMA ProgramIsWell == IsWell(Program)
<1>1. Node(TopClass, FALSE) \in Nodes
  BY DEF Node, Nodes
<1>2. Outermost \in Seq(Nodes) /\ Outermost # <<>> /\ Len(Outermost) = 1
      /\ Outermost[1] = Node(TopClass, FALSE)
  BY <1>1, OneAlone DEF Outermost
<1>3. IsCref(Outermost)
  BY <1>2 DEF IsCref
<1>4. <<>> \in Seq(Seq(Nodes)) /\ TopClass \in Spaces
  BY DEF Spaces
<1> QED
  BY <1>2, <1>3, <1>4, CrefOfIseq, ContextIsWell DEF Program

LEMMA NamesInitially == ASSUME NamesInit PROVE NamesInv
<1>1. IsWell(Program) /\ Program \in Contexts
  BY ProgramIsWell DEF IsWell
<1>2. <<Program>> \in Seq(Contexts) /\ <<Program>> # <<>> /\ DOMAIN <<Program>> = {1}
      /\ <<Program>>[1] = Program
  BY <1>1, OneAlone
<1> QED
  BY <1>1, <1>2 DEF NamesInit, NamesInv

\* The activation at hand.
LEMMA CurrentIsWell ==
  ASSUME NamesInv
  PROVE  IsWell(Current) /\ Len(running) \in Nat \ {0} /\ DOMAIN running = 1 .. Len(running)
<1>1. Len(running) \in Nat \ {0} /\ DOMAIN running = 1 .. Len(running)
  BY EmptySeq DEF NamesInv
<1>2. Len(running) \in DOMAIN running
  BY <1>1
<1> QED
  BY <1>1, <1>2 DEF NamesInv, Current

\* An activation more, and one less.
LEMMA EnterKeeps ==
  ASSUME NamesInv, NEW context, IsWell(context), Enter(context)
  PROVE  NamesInv'
<1>1. context \in Contexts /\ running \in Seq(Contexts) /\ Len(running) \in Nat
  BY DEF NamesInv, IsWell
<1> DEFINE new == Append(running, context)
<1>2. /\ new \in Seq(Contexts) /\ Len(new) = Len(running) + 1 /\ DOMAIN new = 1 .. Len(running) + 1
      /\ \A i \in 1 .. Len(running) : new[i] = running[i]
      /\ new[Len(running) + 1] = context
  BY <1>1
<1>3. running' = new /\ kept' = kept
  BY DEF Enter
<1> HIDE DEF new
<1>4. new # <<>>
  BY <1>1, <1>2
<1>5. ASSUME NEW i \in DOMAIN new PROVE IsWell(new[i])
  <2>1. CASE i = Len(running) + 1
    BY <2>1, <1>2
  <2>2. CASE i # Len(running) + 1
    <3>1. i \in 1 .. Len(running)
      BY <2>2, <1>1, <1>2
    <3> QED
      BY <3>1, <1>1, <1>2 DEF NamesInv
  <2> QED
    BY <2>1, <2>2
<1>6. \A x : IsWell(x)' <=> IsWell(x')
  OBVIOUS
<1> QED
  BY ZenonT(60), <1>2, <1>3, <1>4, <1>5 DEF NamesInv, IsWell, vm_get_cref

LEMMA ReturnKeepsNames ==
  ASSUME NamesInv, Return
  PROVE  NamesInv'
<1>1. running \in Seq(Contexts) /\ Len(running) \in Nat /\ Len(running) > 1
      /\ Len(running) - 1 \in Int /\ DOMAIN running = 1 .. Len(running)
  BY DEF NamesInv, Return
<1> DEFINE new == SubSeq(running, 1, Len(running) - 1)
<1>2. /\ Len(new) = IF 1 <= Len(running) - 1 THEN Len(running) - 1 - 1 + 1 ELSE 0
      /\ \A i \in 1 .. Len(running) - 1 - 1 + 1 : new[i] = running[1 + i - 1]
  BY <1>1, SubSeqProperties
<1>3. new \in Seq(Contexts)
  BY <1>1
<1>4. running' = new /\ kept' = kept
  BY DEF Return
<1> HIDE DEF new
<1>5. Len(new) = Len(running) - 1 /\ DOMAIN new = 1 .. Len(running) - 1 /\ new # <<>>
  <2>1. Len(new) = Len(running) - 1
    <3>1. PICK n \in Nat : n = Len(running) /\ n > 1
      BY <1>1
    <3>2. Len(new) = IF 1 <= n - 1 THEN n - 1 - 1 + 1 ELSE 0
      BY <3>1, <1>2
    <3>3. Len(new) = n - 1
      BY <3>1, <3>2
    <3> QED
      BY <3>1, <3>3
  <2>2. Len(new) # 0
    BY <1>1, <2>1
  <2> QED
    BY <2>1, <2>2, <1>3
<1>6. ASSUME NEW i \in DOMAIN new PROVE IsWell(new[i])
  <2>1. i \in 1 .. Len(running) - 1 - 1 + 1 /\ i \in DOMAIN running /\ 1 + i - 1 = i
    BY <1>1, <1>5
  <2>2. new[i] = running[i]
    BY <2>1, <1>2
  <2> QED
    BY <2>1, <2>2 DEF NamesInv
<1> QED
  BY <1>3, <1>4, <1>5, <1>6 DEF NamesInv, IsWell, vm_get_cref

\* Every step keeps NamesInv.
LEMMA NamesStep ==
  ASSUME NamesInv, NamesNext
  PROVE  NamesInv'
<1>1. /\ Current \in Contexts /\ IsCref(Current.within)
      /\ vm_get_cref(Current) = Current.within
      /\ kept \in Contexts /\ IsCref(kept.within) /\ vm_get_cref(kept) = kept.within
  BY CurrentIsWell DEF NamesInv, IsWell
<1>2. /\ kept.blocks \in Seq(Seq(Nodes)) /\ kept.cref_stack \in Seq(Nodes) /\ kept.self \in Spaces
      /\ <<>> \in Seq(Seq(Nodes)) /\ <<>> \in Seq(Nodes)
  BY <1>1 DEF Contexts
<1>3. \A context : IsCref(context.within) => context.within \in Seq(Nodes)
  BY DEF IsCref
<1>4. ASSUME NEW c \in Bodies, ClassBody(c) PROVE NamesInv'
  <2> DEFINE within == <<Node(c, FALSE)>> \o Current.within
  <2>1. IsCref(within) /\ c \in Spaces
    <3>1. c \in Bodies \cup {Nil} /\ c # Nil /\ FALSE \in BOOLEAN /\ c \in Spaces
      BY NameAssumption DEF Spaces
    <3> QED
      BY <3>1, <1>1, CrefPushed
  <2>2. vm_cref_push(c, FALSE, Current) = within
    BY <1>1 DEF vm_cref_push
  <2>3. within \in Seq(Nodes)
    BY <2>1 DEF IsCref
  <2>4. Enter(Context(<<>>, within, c, within))
    BY <1>4, <2>2 DEF ClassBody
  <2> HIDE DEF within
  <2>5. IsWell(Context(<<>>, within, c, within))
    BY <1>2, <2>1, <2>3, CrefOfIseq, ContextIsWell
  <2> QED
    BY <2>4, <2>5, EnterKeeps
<1>5. ASSUME NEW c \in Bodies, CallMethod(c) PROVE NamesInv'
  <2> DEFINE within == kept.within
  <2>1. IsCref(within) /\ c \in Spaces /\ within \in Seq(Nodes)
    BY <1>1, <1>3 DEF Spaces
  <2>2. Enter(Context(<<>>, within, c, within))
    BY <1>1, <1>5 DEF CallMethod
  <2> HIDE DEF within
  <2>3. IsWell(Context(<<>>, within, c, within))
    BY <1>2, <2>1, CrefOfIseq, ContextIsWell
  <2> QED
    BY <2>2, <2>3, EnterKeeps
<1>6. ASSUME NEW c \in Bodies \cup {Nil}, NEW eval \in BOOLEAN, c = Nil => eval,
             EvalString(c, eval)
      PROVE  NamesInv'
  <2> DEFINE within == <<Node(c, eval)>> \o Current.within
             self == IF c = Nil THEN TopClass ELSE c
  <2>1. IsCref(within) /\ self \in Spaces
    BY <1>1, <1>6, CrefPushed DEF Spaces
  <2>2. vm_cref_push(c, eval, Current) = within
    BY <1>1 DEF vm_cref_push
  <2>3. within \in Seq(Nodes)
    BY <2>1 DEF IsCref
  <2>4. Enter(Context(<<>>, within, self, within))
    BY <1>6, <2>2 DEF EvalString
  <2> HIDE DEF within, self
  <2>5. IsWell(Context(<<>>, within, self, within))
    BY <1>2, <2>1, <2>3, CrefOfIseq, ContextIsWell
  <2> QED
    BY <2>4, <2>5, EnterKeeps
<1>7. ASSUME NEW c \in Bodies \cup {Nil}, NEW eval \in BOOLEAN, c = Nil => eval,
             EvalBlock(c, eval)
      PROVE  NamesInv'
  <2> DEFINE within == <<Node(c, eval)>> \o kept.within
             self == IF c = Nil THEN TopClass ELSE c
             blocks == <<within>> \o kept.blocks
  <2>1. IsCref(within) /\ within # <<>> /\ self \in Spaces
    BY <1>1, <1>7, CrefPushed DEF Spaces
  <2>2. vm_cref_push(c, eval, kept) = within
    BY <1>1 DEF vm_cref_push
  <2>3. within \in Seq(Nodes)
    BY <2>1 DEF IsCref
  <2>4. Enter(Context(blocks, kept.cref_stack, self, within))
    BY <1>7, <2>2 DEF EvalBlock
  <2> HIDE DEF within, self
  <2>5. blocks \in Seq(Seq(Nodes))
    BY <1>2, <2>3, Prefixed
  <2>6. vm_get_cref(Context(blocks, kept.cref_stack, self, within)) = within
    BY <1>1, <2>1, <2>3, CrefOfBlock
  <2> HIDE DEF blocks
  <2>7. IsWell(Context(blocks, kept.cref_stack, self, within))
    BY <1>2, <2>1, <2>5, <2>6, ContextIsWell
  <2> QED
    BY <2>4, <2>7, EnterKeeps
<1>8. ASSUME YieldBlock PROVE NamesInv'
  <2> DEFINE within == kept.within
             blocks == <<<<>>>> \o kept.blocks
  <2>1. [kept EXCEPT !.blocks = blocks] = Context(blocks, kept.cref_stack, kept.self, within)
    <3>1. kept \in Contexts
      BY <1>1
    <3> QED
      BY <3>1, OtherBlocks
  <2>2. Enter(Context(blocks, kept.cref_stack, kept.self, within))
    BY <1>8, <2>1 DEF YieldBlock
  <2>3. blocks \in Seq(Seq(Nodes))
    BY <1>2, Prefixed
  <2>4. vm_get_cref(Context(blocks, kept.cref_stack, kept.self, within)) = within
    <3>1. PICK own \in Seq(Nodes) : own = <<>>
      BY <1>2
    <3> HIDE DEF within
    <3>2. kept \in Contexts
      BY <1>1
    <3>3. vm_get_cref(Context(<<own>> \o kept.blocks, kept.cref_stack, kept.self, within)) =
            IF own # <<>> THEN own ELSE vm_get_cref(kept)
      BY <3>2, CrefOfBlock
    <3> QED
      BY <3>1, <3>3, <1>1 DEF within
  <2>5. IsCref(within)
    BY <1>1
  <2> HIDE DEF blocks, within
  <2>6. IsWell(Context(blocks, kept.cref_stack, kept.self, within))
    BY <1>2, <2>3, <2>4, <2>5, ContextIsWell
  <2> QED
    BY <2>2, <2>6, EnterKeeps
<1>9. ASSUME Keep PROVE NamesInv'
  BY <1>9, CurrentIsWell DEF Keep, NamesInv, IsWell, vm_get_cref
<1>10. ASSUME Return PROVE NamesInv'
  BY <1>10, ReturnKeepsNames
<1> QED
  BY <1>4, <1>5, <1>6, <1>7, <1>8, <1>9, <1>10 DEF NamesNext

-----------------------------------------------------------------------------
(* A search that gathers what it meets on its way.                         *)

Gathers(f, n, stops, here) ==
  f = [i \in 1 .. n |-> IF i \in stops THEN here[i] ELSE here[i] \cup f[i + 1]]

\* What it meets from i on.
Met(i, n, stops) == {j \in i .. n : \A l \in i .. j - 1 : l \notin stops}

\* It meets its own place, and what comes next where it goes on.
LEMMA MetFrom ==
  ASSUME NEW n \in Nat, NEW stops, n \in stops, NEW i \in 1 .. n
  PROVE  /\ i \in Met(i, n, stops)
         /\ i \in stops => Met(i, n, stops) = {i}
         /\ i \notin stops => /\ i + 1 \in 1 .. n
                              /\ Met(i, n, stops) = {i} \cup Met(i + 1, n, stops)
<1>1. i \in Met(i, n, stops)
  BY DEF Met
<1>2. ASSUME i \in stops PROVE Met(i, n, stops) = {i}
  <2>1. ASSUME NEW j \in Met(i, n, stops) PROVE j = i
    <3>1. j \in i .. n /\ \A l \in i .. j - 1 : l \notin stops
      BY DEF Met
    <3>2. i \notin i .. j - 1
      BY <3>1, <1>2
    <3> QED
      BY <3>1, <3>2
  <2> QED
    BY <2>1, <1>1
<1>3. ASSUME i \notin stops
      PROVE  i + 1 \in 1 .. n /\ Met(i, n, stops) = {i} \cup Met(i + 1, n, stops)
  <2>1. i + 1 \in 1 .. n
    BY <1>3
  <2>2. ASSUME NEW j \in Met(i, n, stops) PROVE j = i \/ j \in Met(i + 1, n, stops)
    <3>1. j \in i .. n /\ \A l \in i .. j - 1 : l \notin stops
      BY DEF Met
    <3>2. \A l \in i + 1 .. j - 1 : l \in i .. j - 1
      BY <3>1
    <3>3. j = i \/ j \in i + 1 .. n
      BY <3>1
    <3> QED
      BY <3>1, <3>2, <3>3 DEF Met
  <2>3. ASSUME NEW j \in Met(i + 1, n, stops) PROVE j \in Met(i, n, stops)
    <3>1. j \in i + 1 .. n /\ \A l \in i + 1 .. j - 1 : l \notin stops
      BY DEF Met
    <3>2. j \in i .. n /\ \A l \in i .. j - 1 : l = i \/ l \in i + 1 .. j - 1
      BY <3>1
    <3> QED
      BY <3>1, <3>2, <1>3 DEF Met
  <2> QED
    BY <2>1, <2>2, <2>3, <1>1
<1> QED
  BY <1>1, <1>2, <1>3

\* There is such a function.
LEMMA GatheringExists ==
  ASSUME NEW n \in Nat, NEW stops, n \in stops, NEW here
  PROVE  \E f : Gathers(f, n, stops, here)
<1> DEFINE f == [i \in 1 .. n |-> UNION {here[j] : j \in Met(i, n, stops)}]
<1>1. ASSUME NEW i \in 1 .. n
      PROVE  f[i] = IF i \in stops THEN here[i] ELSE here[i] \cup f[i + 1]
  <2>1. f[i] = UNION {here[j] : j \in Met(i, n, stops)}
    OBVIOUS
  <2>2. CASE i \in stops
    <3>1. Met(i, n, stops) = {i}
      BY <2>2, MetFrom
    <3> QED
      BY <2>1, <2>2, <3>1
  <2>3. CASE i \notin stops
    <3>1. i + 1 \in 1 .. n /\ Met(i, n, stops) = {i} \cup Met(i + 1, n, stops)
      BY <2>3, MetFrom
    <3>2. f[i + 1] = UNION {here[j] : j \in Met(i + 1, n, stops)}
      BY <3>1
    <3> QED
      BY <2>1, <2>3, <3>1, <3>2
  <2> QED
    BY <2>2, <2>3
<1>2. f = [i \in 1 .. n |-> f[i]]
  OBVIOUS
<1> HIDE DEF f
<1>3. f = [i \in 1 .. n |-> IF i \in stops THEN here[i] ELSE here[i] \cup f[i + 1]]
  BY <1>1, <1>2
<1> QED
  BY <1>3 DEF Gathers

\* What is gathered from the first place was met on the way.
LEMMA GatheredIsMet ==
  ASSUME NEW n \in Nat \ {0}, NEW stops, n \in stops, NEW here, NEW f,
         Gathers(f, n, stops, here), NEW x \in f[1]
  PROVE  \E j \in 1 .. n : (\A l \in 1 .. j - 1 : l \notin stops) /\ x \in here[j]
<1> DEFINE Right(i) == \A y \in f[i] : \E j \in Met(i, n, stops) : y \in here[j]
<1>1. PICK P : P = {k \in Nat : \A i \in 1 .. n : n - i <= k => Right(i)}
  OBVIOUS
<1>2. \A i \in 1 .. n : f[i] = IF i \in stops THEN here[i] ELSE here[i] \cup f[i + 1]
  BY DEF Gathers
<1>3. ASSUME NEW i \in 1 .. n, i \in stops \/ Right(i + 1) PROVE Right(i)
  <2>1. CASE i \in stops
    BY <2>1, <1>2, MetFrom
  <2>2. CASE i \notin stops
    <3>1. i \in Met(i, n, stops) /\ Met(i, n, stops) = {i} \cup Met(i + 1, n, stops)
      BY <2>2, MetFrom
    <3>2. f[i] = here[i] \cup f[i + 1]
      BY <2>2, <1>2
    <3> QED
      BY <2>2, <3>1, <3>2, <1>3
  <2> QED
    BY <2>1, <2>2
<1> HIDE DEF Right
<1>4. 0 \in P
  <2>1. \A i \in 1 .. n : n - i <= 0 => i = n
    OBVIOUS
  <2> QED
    BY <2>1, <1>1, <1>3
<1>5. ASSUME NEW k \in P PROVE k + 1 \in P
  <2>1. ASSUME NEW i \in 1 .. n, n - i <= k + 1 PROVE Right(i)
    <3>1. CASE i \in stops
      BY <3>1, <1>3
    <3>2. CASE i \notin stops
      <4>1. i + 1 \in 1 .. n
        BY <3>2
      <4>2. n - (i + 1) <= k /\ k \in Nat
        BY <2>1, <1>1
      <4> QED
        BY <4>1, <4>2, <1>1, <1>3
    <3> QED
      BY <3>1, <3>2
  <2> QED
    BY <2>1, <1>1
<1>6. P = Nat
  BY <1>1, <1>4, <1>5, NumbersByInduction
<1>7. Right(1)
  <2>1. n \in P /\ 1 \in 1 .. n /\ n - 1 <= n
    BY <1>6
  <2> QED
    BY <2>1, <1>1
<1>8. PICK j \in Met(1, n, stops) : x \in here[j]
  BY <1>7 DEF Right
<1> QED
  BY <1>8 DEF Met

-----------------------------------------------------------------------------
(* The searches for a constant.                                            *)

AllTables == [Spaces -> {"none", "value", "autoload"}]

\* The classes that rb_const_get searches.
LEMMA InheritedType ==
  ASSUME NEW class \in Spaces
  PROVE  Inherited(class) \in Seq(Spaces) /\ Len(Inherited(class)) \in Nat
         /\ DOMAIN Inherited(class) = 1 .. Len(Inherited(class))
<1>1. Ancestors[class] \in Seq(Spaces) /\ Ancestors[TopClass] \in Seq(Spaces)
  BY AncestorsAssumption DEF Spaces
<1>2. <<>> \in Seq(Spaces)
  OBVIOUS
<1>3. Inherited(class) \in Seq(Spaces)
  BY <1>1, <1>2 DEF Inherited
<1> QED
  BY <1>3

GetIs(chain, table, get) ==
  get = [i \in 1 .. Len(chain) + 1 |->
          CASE i > Len(chain) -> {NameError(table)}
            [] i <= Len(chain) /\ table[chain[i]] = "value" -> {Found(chain[i], table)}
            [] i <= Len(chain) /\ table[chain[i]] = "none" -> get[i + 1]
            [] OTHER -> {Found(chain[i], Loaded(chain[i], table))} \cup get[i + 1]]

\* What the search of a class and its ancestors can answer: what the first that has the
\* constant says, or one before it that loads it; or there is none.
IsInherited(chain, table, answer) ==
  \/ answer = NameError(table) /\ \A i \in 1 .. Len(chain) : table[chain[i]] # "value"
  \/ \E j \in 1 .. Len(chain) :
       /\ \A l \in 1 .. j - 1 : table[chain[l]] # "value"
       /\ table[chain[j]] # "none" /\ answer = Found(chain[j], Loaded(chain[j], table))

\* A constant that is there is not loaded.
LEMMA LoadedTwice ==
  ASSUME NEW table \in AllTables, NEW class, table[class] = "value"
  PROVE  Loaded(class, table) = table
BY DEF Loaded, AllTables

\* The search of a chain of ancestors gathers.
LEMMA GetGathers ==
  ASSUME NEW chain \in Seq(Spaces), NEW table \in AllTables
  PROVE  \E get : /\ get = (CHOOSE f : GetIs(chain, table, f))
                  /\ \A answer \in get[1] : IsInherited(chain, table, answer)
<1>1. PICK n \in Nat \ {0} : n = Len(chain) + 1
  OBVIOUS
<1>2. PICK stops, here :
        /\ stops = {i \in 1 .. n : i > Len(chain) \/ table[chain[i]] = "value"}
        /\ here = [i \in 1 .. n |->
                    IF i > Len(chain) THEN {NameError(table)}
                    ELSE IF table[chain[i]] = "none" THEN {}
                    ELSE {Found(chain[i], Loaded(chain[i], table))}]
  OBVIOUS
<1>3. n \in stops /\ n \in 1 .. n /\ \A i \in 1 .. n : i <= Len(chain) => chain[i] \in Spaces
  BY <1>1, <1>2
<1>4. \A c \in Spaces : table[c] \in {"none", "value", "autoload"}
  BY DEF AllTables
<1>5. ASSUME NEW f, NEW i \in 1 .. n
      PROVE  (CASE i > Len(chain) -> {NameError(table)}
                [] i <= Len(chain) /\ table[chain[i]] = "value" -> {Found(chain[i], table)}
                [] i <= Len(chain) /\ table[chain[i]] = "none" -> f[i + 1]
                [] OTHER -> {Found(chain[i], Loaded(chain[i], table))} \cup f[i + 1])
             = IF i \in stops THEN here[i] ELSE here[i] \cup f[i + 1]
  <2>1. CASE i > Len(chain)
    <3>1. ~(i <= Len(chain))
      BY <2>1, <1>1
    <3> QED
      BY <2>1, <3>1, <1>2
  <2>2. CASE ~(i > Len(chain)) /\ table[chain[i]] = "value"
    <3>1. i <= Len(chain) /\ chain[i] \in Spaces
      BY <2>2, <1>1, <1>3
    <3>2. i \in stops /\ here[i] = {Found(chain[i], table)}
      BY <2>2, <1>2, LoadedTwice
    <3> QED
      BY <2>2, <3>1, <3>2
  <2>3. CASE ~(i > Len(chain)) /\ table[chain[i]] = "none"
    <3>1. i <= Len(chain)
      BY <2>3, <1>1
    <3>2. i \notin stops /\ here[i] = {}
      BY <2>3, <1>2
    <3> QED
      BY <2>3, <3>1, <3>2
  <2>4. CASE ~(i > Len(chain)) /\ table[chain[i]] \notin {"none", "value"}
    <3>1. i \notin stops /\ here[i] = {Found(chain[i], Loaded(chain[i], table))}
      BY <2>4, <1>2
    <3> QED
      BY <2>4, <3>1
  <2> QED
    BY <2>1, <2>2, <2>3, <2>4
<1>6. ASSUME NEW f PROVE GetIs(chain, table, f) <=> Gathers(f, n, stops, here)
  <2> DEFINE C(i) == CASE i > Len(chain) -> {NameError(table)}
                       [] i <= Len(chain) /\ table[chain[i]] = "value" -> {Found(chain[i], table)}
                       [] i <= Len(chain) /\ table[chain[i]] = "none" -> f[i + 1]
                       [] OTHER -> {Found(chain[i], Loaded(chain[i], table))} \cup f[i + 1]
             R(i) == IF i \in stops THEN here[i] ELSE here[i] \cup f[i + 1]
  <2>1. \A i \in 1 .. n : C(i) = R(i)
    BY <1>5
  <2>2. GetIs(chain, table, f) <=> f = [i \in 1 .. n |-> C(i)]
    BY <1>1 DEF GetIs
  <2>3. Gathers(f, n, stops, here) <=> f = [i \in 1 .. n |-> R(i)]
    BY DEF Gathers
  <2> HIDE DEF C, R
  <2> QED
    BY <2>1, <2>2, <2>3
<1>7. \E f : GetIs(chain, table, f)
  <2>1. PICK f : Gathers(f, n, stops, here)
    BY <1>3, GatheringExists
  <2> QED
    BY <2>1, <1>6
<1>8. PICK get : get = CHOOSE f : GetIs(chain, table, f)
  OBVIOUS
<1>9. GetIs(chain, table, get)
  BY <1>7, <1>8
<1>10. Gathers(get, n, stops, here)
  BY <1>6, <1>9
<1>11. ASSUME NEW answer \in get[1] PROVE IsInherited(chain, table, answer)
  <2>1. PICK j \in 1 .. n : (\A l \in 1 .. j - 1 : l \notin stops) /\ answer \in here[j]
    BY <1>3, <1>10, GatheredIsMet
  <2>2. \A l \in 1 .. j - 1 : l \in 1 .. n
    OBVIOUS
  <2>3. \A l \in 1 .. j - 1 : table[chain[l]] # "value"
    BY <2>1, <2>2, <1>2
  <2>4. CASE j > Len(chain)
    <3>1. \A l \in 1 .. Len(chain) : l \in 1 .. j - 1
      BY <2>4, <1>1
    <3>2. answer = NameError(table)
      BY <2>1, <2>4, <1>2
    <3> QED
      BY <3>1, <3>2, <2>3 DEF IsInherited
  <2>5. CASE ~(j > Len(chain))
    <3>1. j \in 1 .. Len(chain)
      BY <2>5, <1>1
    <3>2. table[chain[j]] # "none" /\ answer = Found(chain[j], Loaded(chain[j], table))
      BY <2>1, <2>5, <1>2
    <3> QED
      BY <3>1, <3>2, <2>3 DEF IsInherited
  <2> QED
    BY <2>4, <2>5
<1> QED
  BY <1>8, <1>11

\* rb_const_get.
LEMMA InheritedAnswers ==
  ASSUME NEW class \in Spaces, NEW table \in AllTables, NEW answer \in rb_const_get(class, table)
  PROVE  IsInherited(Inherited(class), table, answer)
<1>1. PICK get : /\ get = (CHOOSE f : GetIs(Inherited(class), table, f))
                 /\ rb_const_get(class, table) = get[1]
  BY DEF rb_const_get, GetIs
<1>2. Inherited(class) \in Seq(Spaces)
  BY InheritedType
<1>3. PICK got : /\ got = (CHOOSE f : GetIs(Inherited(class), table, f))
                 /\ \A it \in got[1] : IsInherited(Inherited(class), table, it)
  BY <1>2, GetGathers
<1> QED
  BY <1>1, <1>3

SearchIs(cref, self, table, in) ==
  in = [i \in 1 .. Len(cref) |->
         CASE i = Len(cref) -> rb_const_get(self, table)
           [] i < Len(cref) /\ Has(cref[i], table, "value") -> {Found(cref[i].class, table)}
           [] i < Len(cref) /\ Has(cref[i], table, "autoload") ->
                {Found(cref[i].class, Loaded(cref[i].class, table))} \cup rb_const_get(self, table)
           [] OTHER -> in[i + 1]]

\* What the search of the bodies can answer: what the first that has the constant says
\* or loads; or, with none or that one left open, what the ancestors say.
IsSearched(cref, self, table, answer) ==
  \E j \in 1 .. Len(cref) :
    /\ \A l \in 1 .. j - 1 : Has(cref[l], table, "none")
    /\ \/ /\ j < Len(cref) /\ ~Has(cref[j], table, "none")
          /\ answer = Found(cref[j].class, Loaded(cref[j].class, table))
       \/ /\ j = Len(cref) \/ Has(cref[j], table, "autoload")
          /\ answer \in rb_const_get(self, table)

\* A node has the constant, has it to load, or has not.
LEMMA HasOne ==
  ASSUME NEW node \in Nodes, NEW table \in AllTables
  PROVE  /\ Has(node, table, "none") => ~Has(node, table, "value") /\ ~Has(node, table, "autoload")
         /\ ~Has(node, table, "none") => /\ Searched(node) /\ node.class \in Spaces
                                         /\ table[node.class] # "none"
         /\ Has(node, table, "value") => ~Has(node, table, "autoload") /\ table[node.class] = "value"
         /\ \/ Has(node, table, "none") \/ Has(node, table, "value") \/ Has(node, table, "autoload")
<1>1. Searched(node) => node.class \in Spaces
  BY DEF Searched, Nodes, Spaces
<1>2. node.class \in Spaces => table[node.class] \in {"none", "value", "autoload"}
  BY DEF AllTables
<1> QED
  BY <1>1, <1>2 DEF Has

\* SearchFrom.
LEMMA SearchAnswers ==
  ASSUME NEW cref \in Seq(Nodes), cref # <<>>, NEW self, NEW table \in AllTables,
         NEW answer \in SearchFrom(cref, self, table)
  PROVE  IsSearched(cref, self, table, answer)
<1>1. PICK in : /\ in = (CHOOSE f : SearchIs(cref, self, table, f))
                /\ SearchFrom(cref, self, table) = in[1]
  BY DEF SearchFrom, SearchIs
<1>2. PICK n \in Nat \ {0} : n = Len(cref)
  BY EmptySeq
<1>3. PICK other, one :
        /\ other = rb_const_get(self, table)
        /\ one = [i \in 1 .. n |-> {Found(cref[i].class, Loaded(cref[i].class, table))}]
  OBVIOUS
<1>4. PICK stops, here :
        /\ stops = {i \in 1 .. n : i = n \/ ~Has(cref[i], table, "none")}
        /\ here = [i \in 1 .. n |->
                    IF i = n THEN other
                    ELSE IF Has(cref[i], table, "none") THEN {}
                    ELSE IF Has(cref[i], table, "value") THEN one[i]
                    ELSE one[i] \cup other]
  OBVIOUS
<1>5. n \in stops /\ \A i \in 1 .. n : cref[i] \in Nodes /\ (i = n \/ (i < n /\ i # n))
  BY <1>2, <1>4
<1>6. ASSUME NEW f, NEW i \in 1 .. n
      PROVE  (CASE i = n -> other
                [] i < n /\ Has(cref[i], table, "value") -> {Found(cref[i].class, table)}
                [] i < n /\ Has(cref[i], table, "autoload") -> one[i] \cup other
                [] OTHER -> f[i + 1])
             = IF i \in stops THEN here[i] ELSE here[i] \cup f[i + 1]
  <2>1. CASE i = n
    <3>1. ~(i < n)
      BY <2>1
    <3> QED
      BY <2>1, <3>1, <1>4
  <2>2. CASE i # n /\ Has(cref[i], table, "none")
    <3>1. i < n /\ ~Has(cref[i], table, "value") /\ ~Has(cref[i], table, "autoload")
      BY <2>2, <1>5, HasOne
    <3>2. i \notin stops /\ here[i] = {}
      BY <2>2, <1>4
    <3> QED
      BY <2>2, <3>1, <3>2
  <2>3. CASE i # n /\ Has(cref[i], table, "value")
    <3>1. /\ i < n /\ ~Has(cref[i], table, "none") /\ ~Has(cref[i], table, "autoload")
          /\ table[cref[i].class] = "value"
      BY <2>3, <1>5, HasOne
    <3>2. one[i] = {Found(cref[i].class, table)}
      BY <3>1, <1>3, LoadedTwice
    <3>3. i \in stops /\ here[i] = {Found(cref[i].class, table)}
      BY <2>3, <3>1, <3>2, <1>4
    <3> QED
      BY <2>3, <3>1, <3>3
  <2>4. CASE i # n /\ ~Has(cref[i], table, "none") /\ ~Has(cref[i], table, "value")
    <3>1. i \in stops /\ here[i] = one[i] \cup other
      BY <2>4, <1>4
    <3>2. i < n /\ Has(cref[i], table, "autoload")
      BY <2>4, <1>5, HasOne
    <3> QED
      BY <2>4, <3>1, <3>2
  <2> QED
    BY <2>1, <2>2, <2>3, <2>4
<1>7. ASSUME NEW f PROVE SearchIs(cref, self, table, f) <=> Gathers(f, n, stops, here)
  <2> DEFINE C(i) ==
               CASE i = n -> other
                 [] i < n /\ Has(cref[i], table, "value") -> {Found(cref[i].class, table)}
                 [] i < n /\ Has(cref[i], table, "autoload") -> one[i] \cup other
                 [] OTHER -> f[i + 1]
             D(i) ==
               CASE i = Len(cref) -> rb_const_get(self, table)
                 [] i < Len(cref) /\ Has(cref[i], table, "value") -> {Found(cref[i].class, table)}
                 [] i < Len(cref) /\ Has(cref[i], table, "autoload") ->
                      {Found(cref[i].class, Loaded(cref[i].class, table))}
                        \cup rb_const_get(self, table)
                 [] OTHER -> f[i + 1]
             R(i) == IF i \in stops THEN here[i] ELSE here[i] \cup f[i + 1]
  <2>1. \A i \in 1 .. n : C(i) = R(i)
    BY <1>6
  <2>2. \A i \in 1 .. n : C(i) = D(i)
    <3>1. ASSUME NEW i \in 1 .. n
          PROVE  one[i] = {Found(cref[i].class, Loaded(cref[i].class, table))}
      BY <1>3
    <3> QED
      BY <3>1, <1>2, <1>3
  <2>3. SearchIs(cref, self, table, f) <=> f = [i \in 1 .. n |-> D(i)]
    BY <1>2 DEF SearchIs
  <2>4. Gathers(f, n, stops, here) <=> f = [i \in 1 .. n |-> R(i)]
    BY DEF Gathers
  <2> HIDE DEF C, D, R
  <2> QED
    BY <2>1, <2>2, <2>3, <2>4
<1>8. \E f : SearchIs(cref, self, table, f)
  <2>1. PICK f : Gathers(f, n, stops, here)
    BY <1>5, GatheringExists
  <2> QED
    BY <2>1, <1>7
<1>9. SearchIs(cref, self, table, in)
  BY <1>1, <1>8
<1>10. Gathers(in, n, stops, here) /\ answer \in in[1]
  BY <1>1, <1>7, <1>9
<1>11. PICK j \in 1 .. n : (\A l \in 1 .. j - 1 : l \notin stops) /\ answer \in here[j]
  BY <1>5, <1>10, GatheredIsMet
<1>12. ASSUME NEW l \in 1 .. j - 1 PROVE Has(cref[l], table, "none")
  <2>1. l \in 1 .. n /\ l # n
    OBVIOUS
  <2> QED
    BY <2>1, <1>4, <1>11
<1>13. \/ /\ j < n /\ ~Has(cref[j], table, "none")
          /\ answer = Found(cref[j].class, Loaded(cref[j].class, table))
       \/ /\ j = n \/ Has(cref[j], table, "autoload")
          /\ answer \in other
  <2>1. CASE j = n
    BY <2>1, <1>4, <1>11
  <2>2. CASE j # n
    <3>1. j < n /\ ~Has(cref[j], table, "none")
      BY <2>2, <1>4, <1>5, <1>11
    <3>2. \/ answer \in one[j]
          \/ answer \in other /\ ~Has(cref[j], table, "value")
      BY <2>2, <1>4, <1>11
    <3>3. answer \in one[j] => answer = Found(cref[j].class, Loaded(cref[j].class, table))
      BY <1>3
    <3>4. ~Has(cref[j], table, "value") => Has(cref[j], table, "autoload")
      BY <3>1, <1>5, HasOne
    <3> QED
      BY <3>1, <3>2, <3>3, <3>4
  <2> QED
    BY <2>1, <2>2
<1> QED
  BY <1>2, <1>3, <1>12, <1>13 DEF IsSearched

-----------------------------------------------------------------------------
(* Where the searches find it.                                             *)

\* The bodies of a cref; evals do not count.
Counted(cref) == {i \in DOMAIN cref : ~cref[i].eval}

\* A body has a class; it is the program's only at the end.
LEMMA BodiesOfCref ==
  ASSUME NEW w, IsCref(w)
  PROVE  /\ w \in Seq(Nodes) /\ Len(w) \in Nat \ {0} /\ DOMAIN w = 1 .. Len(w)
         /\ Counted(w) \in SUBSET (1 .. Len(w)) /\ Len(w) \in Counted(w)
         /\ \A i \in 1 .. Len(w) : /\ w[i] \in Nodes
                                   /\ i \in Counted(w) <=> Searched(w[i])
                                   /\ i \in Counted(w) => w[i].class \in Spaces /\ w[i].class # Nil
         /\ \A i \in Counted(w) : i # Len(w) => w[i].class \in Bodies
         /\ w[Len(w)].class = TopClass
<1>1. w \in Seq(Nodes) /\ Len(w) \in Nat \ {0} /\ DOMAIN w = 1 .. Len(w)
  BY EmptySeq DEF IsCref
<1>2. w[Len(w)] = Node(TopClass, FALSE) /\ TopClass # Nil /\ Len(w) \in 1 .. Len(w)
  BY <1>1, NameAssumption DEF IsCref
<1>3. w[Len(w)].class = TopClass /\ ~w[Len(w)].eval
  BY <1>2 DEF Node
<1>4. \A i \in 1 .. Len(w) : w[i] \in Nodes
  BY <1>1
<1>5. \A i \in 1 .. Len(w) : i = Len(w) \/ i \in 1 .. Len(w) - 1
  <2>1. PICK n \in Nat : n = Len(w)
    BY <1>1
  <2>2. \A i \in 1 .. n : i = n \/ i \in 1 .. n - 1
    OBVIOUS
  <2> QED
    BY <2>1, <2>2
<1>6. ASSUME NEW i \in 1 .. Len(w)
      PROVE  /\ i \in Counted(w) <=> ~w[i].eval
             /\ ~w[i].eval => w[i].class # Nil
             /\ ~w[i].eval /\ i # Len(w) => w[i].class # TopClass
  BY <1>1, <1>2, <1>3, <1>5 DEF IsCref, Counted
<1>7. ASSUME NEW i \in 1 .. Len(w)
      PROVE  w[i].class \in Bodies \cup {TopClass, Nil}
  BY <1>4 DEF Nodes
<1>8. Counted(w) \in SUBSET (1 .. Len(w)) /\ Len(w) \in Counted(w)
  BY <1>1, <1>2, <1>3 DEF Counted
<1> QED
  BY <1>1, <1>3, <1>4, <1>6, <1>7, <1>8 DEF Searched, Spaces

\* RootOf drops the evals before the innermost body.
LEMMA RootIs ==
  ASSUME NEW w, IsCref(w)
  PROVE  \E k \in 1 .. Len(w) :
            /\ k = FirstOf(Counted(w)) /\ k \in Counted(w)
            /\ \A i \in 1 .. k - 1 : i \notin Counted(w)
            /\ RootOf(w) \in Seq(Nodes) /\ RootOf(w) # <<>>
            /\ Len(RootOf(w)) = Len(w) - k + 1
            /\ \A i \in 1 .. Len(w) - k + 1 : RootOf(w)[i] = w[k + i - 1]
            /\ RootOf(w)[1] = w[k]
<1>1. /\ w \in Seq(Nodes) /\ Len(w) \in Nat \ {0}
      /\ Counted(w) \in SUBSET (1 .. Len(w)) /\ Len(w) \in Counted(w)
  BY BodiesOfCref
<1>2. PICK k : k = FirstOf(Counted(w))
  OBVIOUS
<1>3. k \in Counted(w) /\ k \in 1 .. Len(w) /\ \A i \in Counted(w) : k <= i
  <2>1. Counted(w) \in SUBSET Nat /\ Counted(w) # {}
    BY <1>1
  <2> QED
    BY <2>1, <1>1, <1>2, FirstIsIn
<1>4. RootOf(w) = SubSeq(w, k, Len(w))
  BY <1>2 DEF RootOf, Counted
<1>5. /\ SubSeq(w, k, Len(w)) \in Seq(Nodes) /\ Len(SubSeq(w, k, Len(w))) = Len(w) - k + 1
      /\ \A i \in 1 .. Len(w) - k + 1 : SubSeq(w, k, Len(w))[i] = w[k + i - 1]
  BY <1>1, <1>3, SubSeqProperties
<1>6. SubSeq(w, k, Len(w)) # <<>> /\ SubSeq(w, k, Len(w))[1] = w[k]
  <2>1. 1 \in 1 .. Len(w) - k + 1 /\ k + 1 - 1 = k /\ Len(w) - k + 1 # 0
    BY <1>1, <1>3
  <2> QED
    BY <2>1, <1>5, EmptySeq
<1>7. \A i \in 1 .. k - 1 : i \notin Counted(w)
  BY <1>1, <1>3
<1> QED
  BY <1>2, <1>3, <1>4, <1>5, <1>6, <1>7

\* The search of the root answers as one of the whole cref, which passes over evals.
LEMMA SearchedFromRoot ==
  ASSUME NEW w, IsCref(w), NEW self, NEW table, NEW answer,
         IsSearched(RootOf(w), self, table, answer)
  PROVE  IsSearched(w, self, table, answer)
<1> DEFINE root == RootOf(w)
<1>1. PICK k \in 1 .. Len(w) :
        /\ Len(root) = Len(w) - k + 1
        /\ \A i \in 1 .. k - 1 : i \notin Counted(w)
        /\ \A i \in 1 .. Len(w) - k + 1 : root[i] = w[k + i - 1]
  BY RootIs
<1>2. Len(w) \in Nat /\ \A i \in 1 .. Len(w) : i \notin Counted(w) => Has(w[i], table, "none")
  BY BodiesOfCref DEF Has
<1>3. PICK j \in 1 .. Len(root) :
        /\ \A l \in 1 .. j - 1 : Has(root[l], table, "none")
        /\ \/ /\ j < Len(root) /\ ~Has(root[j], table, "none")
              /\ answer = Found(root[j].class, Loaded(root[j].class, table))
           \/ /\ j = Len(root) \/ Has(root[j], table, "autoload")
              /\ answer \in rb_const_get(self, table)
  BY DEF IsSearched
<1> HIDE DEF root
<1>4. PICK at \in 1 .. Len(w) : at = k + j - 1
  BY <1>1, <1>2
<1>5. root[j] = w[at] /\ (j < Len(root) => at < Len(w)) /\ (j = Len(root) => at = Len(w))
  BY <1>1, <1>2, <1>4
<1>6. ASSUME NEW l \in 1 .. at - 1 PROVE Has(w[l], table, "none")
  <2>1. CASE l < k
    <3>1. l \in 1 .. k - 1 /\ l \in 1 .. Len(w)
      BY <2>1, <1>1, <1>2
    <3> QED
      BY <3>1, <1>1, <1>2
  <2>2. CASE ~(l < k)
    <3>1. PICK i \in 1 .. j - 1 : l = k + i - 1 /\ i \in 1 .. Len(w) - k + 1
      <4>1. l - k + 1 \in 1 .. j - 1 /\ l = k + (l - k + 1) - 1 /\ l - k + 1 \in 1 .. Len(w) - k + 1
        BY <2>2, <1>1, <1>2, <1>4
      <4> QED
        BY <4>1
    <3>2. root[i] = w[l]
      BY <3>1, <1>1
    <3> QED
      BY <3>2, <1>3
  <2> QED
    BY <2>1, <2>2
<1> QED
  BY <1>3, <1>5, <1>6 DEF IsSearched

\* The bodies but the program.
Lexical(context) == Counting(context) \ {Len(context.within)}
LeftOpen(context, table) ==
  {i \in Lexical(context) : table[context.within[i].class] = "autoload"}
HaveIt(context, table) ==
  {i \in Lexical(context) :
     table[context.within[i].class] = "value" /\ \A j \in LeftOpen(context, table) : i < j}
ChainHas(chain, table) == {i \in DOMAIN chain : table[chain[i]] = "value"}

\* PlaceOf by its parts.
LEMMA PlaceIs ==
  ASSUME NEW context, NEW self, NEW table
  PROVE  /\ HaveIt(context, table) # {} =>
              PlaceOf(context, self, table) =
                context.within[FirstOf(HaveIt(context, table))].class
         /\ HaveIt(context, table) = {} /\ ChainHas(Inherited(self), table) # {} =>
              PlaceOf(context, self, table) =
                Inherited(self)[FirstOf(ChainHas(Inherited(self), table))]
         /\ HaveIt(context, table) = {} /\ ChainHas(Inherited(self), table) = {} =>
              PlaceOf(context, self, table) = Nil
BY DEF PlaceOf, HaveIt, LeftOpen, Lexical, ChainHas

\* A load changes the table at its class.
LEMMA LoadedIs ==
  ASSUME NEW table \in AllTables, NEW class \in Spaces
  PROVE  /\ Loaded(class, table)[class] = "value"
         /\ \A c \in Spaces : c # class => Loaded(class, table)[c] = table[c]
BY DEF Loaded, AllTables

\* What a body has or loads is found there.
LEMMA FoundInBody ==
  ASSUME NEW context, IsCref(context.within), NEW self, NEW table \in AllTables,
         NEW j \in 1 .. Len(context.within), j < Len(context.within),
         \A l \in 1 .. j - 1 : Has(context.within[l], table, "none"),
         ~Has(context.within[j], table, "none")
  PROVE  context.within[j].class =
           PlaceOf(context, self, Loaded(context.within[j].class, table))
<1> DEFINE w == context.within
           c == w[j].class
           T == Loaded(c, table)
<1>1. /\ Len(w) \in Nat \ {0} /\ DOMAIN w = 1 .. Len(w) /\ Counting(context) = Counted(w)
      /\ Counted(w) \in SUBSET (1 .. Len(w))
      /\ \A i \in 1 .. Len(w) : /\ w[i] \in Nodes /\ (i \in Counted(w) <=> Searched(w[i]))
                                /\ i \in Counted(w) => w[i].class \in Spaces
  BY BodiesOfCref DEF Counting, Counted
<1>2. j # Len(w) /\ \A l \in Counted(w) : l \in 1 .. j - 1 \/ j <= l
  <2>1. PICK n \in Nat : n = Len(w)
    BY <1>1
  <2>2. j # n /\ j \in Nat /\ \A l \in 1 .. n : l \in 1 .. j - 1 \/ j <= l
    BY <2>1
  <2> QED
    BY <2>1, <2>2, <1>1
<1>3. Searched(w[j]) /\ c \in Spaces /\ table[c] # "none"
  BY <1>1, HasOne
<1>4. T[c] = "value" /\ \A d \in Spaces : d # c => T[d] = table[d]
  BY <1>3, LoadedIs
<1> HIDE DEF w, c, T
<1>5. \A l \in Counted(w) : l \in 1 .. j - 1 => T[w[l].class] = "none"
  <2>1. ASSUME NEW l \in Counted(w), l \in 1 .. j - 1 PROVE table[w[l].class] = "none"
    BY <2>1, <1>1 DEF Has, w
  <2>2. \A l \in Counted(w) : l \in 1 .. j - 1 => w[l].class # c
    BY <2>1, <1>3
  <2> QED
    BY <2>1, <2>2, <1>1, <1>4
<1>6. j \in Lexical(context) /\ Lexical(context) \subseteq Counted(w)
  BY <1>1, <1>2, <1>3 DEF Lexical, w
<1>7. \A i \in LeftOpen(context, T) : j < i
  <2>1. ASSUME NEW i \in LeftOpen(context, T) PROVE i \in Counted(w) /\ i # j /\ j <= i
    BY <1>2, <1>4, <1>5, <1>6 DEF LeftOpen, w, c
  <2> QED
    BY <2>1, <1>1
<1>8. j \in HaveIt(context, T)
  BY <1>4, <1>6, <1>7 DEF HaveIt, w, c
<1>9. \A i \in HaveIt(context, T) : j <= i
  BY <1>2, <1>5, <1>6 DEF HaveIt, w
<1>10. FirstOf(HaveIt(context, T)) = j
  <2>1. HaveIt(context, T) \in SUBSET Nat
    BY <1>1, <1>6 DEF HaveIt
  <2> QED
    BY <2>1, <1>8, <1>9, FirstIs
<1>11. PlaceOf(context, self, T) = w[j].class
  BY <1>8, <1>10, PlaceIs DEF w
<1> QED
  BY <1>11 DEF T, c, w

\* Every answer is the place where the constant is to be found, with the files that
\* the search has loaded.
LEMMA PlaceFound ==
  ASSUME NEW context, IsCref(context.within), NEW self \in Spaces, NEW table \in AllTables,
         NEW answer, IsSearched(context.within, self, table, answer)
  PROVE  answer.class = PlaceOf(context, self, answer.table)
<1> DEFINE w == context.within
           chain == Inherited(self)
           T == answer.table
<1>1. /\ Len(w) \in Nat \ {0} /\ DOMAIN w = 1 .. Len(w) /\ Counting(context) = Counted(w)
      /\ Counted(w) \in SUBSET (1 .. Len(w))
      /\ \A i \in 1 .. Len(w) : /\ w[i] \in Nodes /\ (i \in Counted(w) <=> Searched(w[i]))
                                /\ i \in Counted(w) => w[i].class \in Spaces
  BY BodiesOfCref DEF Counting, Counted
<1>2. chain \in Seq(Spaces) /\ Len(chain) \in Nat /\ DOMAIN chain = 1 .. Len(chain)
  BY InheritedType
<1>3. PICK j \in 1 .. Len(w) :
        /\ \A l \in 1 .. j - 1 : Has(w[l], table, "none")
        /\ \/ /\ j < Len(w) /\ ~Has(w[j], table, "none")
              /\ answer = Found(w[j].class, Loaded(w[j].class, table))
           \/ /\ j = Len(w) \/ Has(w[j], table, "autoload")
              /\ answer \in rb_const_get(self, table)
  BY DEF IsSearched
<1>4. CASE j < Len(w) /\ ~Has(w[j], table, "none")
           /\ answer = Found(w[j].class, Loaded(w[j].class, table))
  <2>1. w[j].class = PlaceOf(context, self, Loaded(w[j].class, table))
    BY <1>3, <1>4, FoundInBody
  <2> QED
    BY <2>1, <1>4 DEF Found
<1>5. CASE (j = Len(w) \/ Has(w[j], table, "autoload")) /\ answer \in rb_const_get(self, table)
  <2>1. IsInherited(chain, table, answer)
    BY <1>5, InheritedAnswers
  <2>2. \A l \in Counted(w) : l \in 1 .. j - 1 => table[w[l].class] = "none"
    BY <1>1, <1>3 DEF Has
  <2>3. \A l \in Lexical(context) : /\ l \in Counted(w) /\ l \in 1 .. Len(w) /\ l # Len(w)
                                    /\ w[l].class \in Spaces
    BY <1>1 DEF Lexical
  <2>4. \A l \in Lexical(context) : l \in 1 .. j - 1 \/ (j # Len(w) /\ j <= l)
    <3>1. PICK n \in Nat : n = Len(w)
      BY <1>1
    <3>2. \A l \in 1 .. n : l # n => l \in 1 .. j - 1 \/ (j # n /\ j <= l)
      BY <3>1
    <3> QED
      BY <3>1, <3>2, <2>3
  <2>5. j # Len(w) => /\ Has(w[j], table, "autoload") /\ ~Has(w[j], table, "none")
                      /\ j \in Lexical(context) /\ table[w[j].class] = "autoload"
                      /\ w[j].class \in Spaces
    <3>1. ASSUME j # Len(w) PROVE Has(w[j], table, "autoload") /\ ~Has(w[j], table, "none")
      BY <3>1, <1>1, <1>5, HasOne
    <3> QED
      BY <3>1, <1>1, HasOne DEF Has, Lexical
  <2>6. T \in AllTables /\ (\A l \in Lexical(context) : l \in 1 .. j - 1 => T[w[l].class] = "none")
        /\ (j # Len(w) => j \in LeftOpen(context, T))
        => HaveIt(context, T) = {}
    <3> SUFFICES ASSUME T \in AllTables,
                        \A l \in Lexical(context) : l \in 1 .. j - 1 => T[w[l].class] = "none",
                        j # Len(w) => j \in LeftOpen(context, T),
                        NEW l \in HaveIt(context, T)
                 PROVE  FALSE
      OBVIOUS
    <3>1. l \in Lexical(context) /\ T[w[l].class] = "value"
          /\ \A i \in LeftOpen(context, T) : l < i
      BY DEF HaveIt
    <3>2. l \notin 1 .. j - 1
      BY <3>1
    <3>3. j <= l /\ l < j /\ l \in 1 .. Len(w)
      BY <3>1, <3>2, <2>3, <2>4
    <3> HIDE DEF w
    <3> QED
      BY <3>3, <1>1
  <2>7. CASE answer = NameError(table) /\ \A i \in 1 .. Len(chain) : table[chain[i]] # "value"
    <3>1. T = table /\ answer.class = Nil
      BY <2>7 DEF NameError, Found
    <3>2. ChainHas(chain, T) = {}
      BY <2>7, <3>1, <1>2 DEF ChainHas
    <3>3. j # Len(w) => j \in LeftOpen(context, T)
      BY <3>1, <2>5 DEF LeftOpen
    <3>4. HaveIt(context, T) = {}
      BY <3>1, <3>3, <2>2, <2>3, <2>6
    <3> QED
      BY <3>1, <3>2, <3>4, PlaceIs
  <2>8. CASE \E m \in 1 .. Len(chain) :
               /\ \A l \in 1 .. m - 1 : table[chain[l]] # "value"
               /\ table[chain[m]] # "none" /\ answer = Found(chain[m], Loaded(chain[m], table))
    <3>1. PICK m \in 1 .. Len(chain) :
            /\ \A l \in 1 .. m - 1 : table[chain[l]] # "value"
            /\ table[chain[m]] # "none" /\ answer = Found(chain[m], Loaded(chain[m], table))
      BY <2>8
    <3>2. PICK d : d = chain[m] /\ d \in Spaces
      BY <1>2
    <3>3. answer.class = d /\ T = Loaded(d, table)
      BY <3>1, <3>2 DEF Found
    <3>4. T[d] = "value" /\ \A e \in Spaces : e # d => T[e] = table[e]
      BY <3>2, <3>3, LoadedIs
    <3>5. T \in AllTables
      BY <3>2, <3>3 DEF Loaded, AllTables
    <3>6. CASE j # Len(w) /\ w[j].class = d
      <4>1. j < Len(w)
        BY <3>6, <1>1
      <4>2. d = PlaceOf(context, self, Loaded(d, table))
        BY <4>1, <3>6, <2>5, <1>3, FoundInBody
      <4> QED
        BY <4>2, <3>3
    <3>7. CASE ~(j # Len(w) /\ w[j].class = d)
      <4>1. \A l \in Lexical(context) : l \in 1 .. j - 1 => T[w[l].class] = "none"
        BY <3>1, <3>2, <3>4, <2>2, <2>3
      <4>2. j # Len(w) => j \in LeftOpen(context, T)
        BY <3>7, <3>4, <2>5 DEF LeftOpen
      <4>3. HaveIt(context, T) = {}
        BY <4>1, <4>2, <3>5, <2>6
      <4>4. m \in ChainHas(chain, T) /\ ChainHas(chain, T) \in SUBSET Nat
        BY <3>2, <3>4, <1>2 DEF ChainHas
      <4>5. PICK first : first = FirstOf(ChainHas(chain, T))
        OBVIOUS
      <4>6. first \in ChainHas(chain, T) /\ first <= m
        BY <4>4, <4>5, FirstIsIn
      <4>7. first \in 1 .. Len(chain) /\ T[chain[first]] = "value" /\ chain[first] \in Spaces
        BY <4>6, <1>2 DEF ChainHas
      <4>8. first \in 1 .. m - 1 \/ first = m
        BY <4>6, <4>7
      <4>9. chain[first] = d
        BY <4>7, <4>8, <3>1, <3>2, <3>4
      <4> QED
        BY <4>3, <4>4, <4>5, <4>9, <3>3, PlaceIs
    <3> QED
      BY <3>6, <3>7
  <2> QED
    BY <2>1, <2>7, <2>8 DEF IsInherited
<1> QED
  BY <1>3, <1>4, <1>5

-----------------------------------------------------------------------------
(* The parts of ConstantsAreLexical.                                       *)

\* The root begins with the innermost body, and it is all there is in the program alone.
LEMMA InnermostIs ==
  ASSUME NEW context, IsWell(context)
  PROVE  /\ RootOf(context.within)[1].class = InnermostBody(context)
         /\ InnermostBody(context) \in Spaces
         /\ Len(RootOf(context.within)) = 1 <=> Counting(context) = {Len(context.within)}
         /\ Len(RootOf(context.within)) = 1 => InnermostBody(context) = TopClass
         /\ Len(RootOf(context.within)) # 1 => InnermostBody(context) \in Bodies
         /\ Len(RootOf(context.within)) \in Nat \ {0}
<1> DEFINE w == context.within
           n == Len(RootOf(w))
<1>1. IsCref(w) /\ Counting(context) = Counted(w)
  BY DEF IsWell, Counting, Counted
<1>2. PICK k \in 1 .. Len(w) :
        /\ k = FirstOf(Counted(w)) /\ k \in Counted(w)
        /\ \A i \in 1 .. k - 1 : i \notin Counted(w)
        /\ n = Len(w) - k + 1
        /\ RootOf(w)[1] = w[k]
  BY <1>1, RootIs
<1>3. /\ Len(w) \in Nat \ {0} /\ Counted(w) \in SUBSET (1 .. Len(w)) /\ Len(w) \in Counted(w)
      /\ \A i \in Counted(w) : /\ w[i].class \in Spaces
                               /\ i # Len(w) => w[i].class \in Bodies
      /\ w[Len(w)].class = TopClass
  BY <1>1, BodiesOfCref
<1>4. InnermostBody(context) = w[k].class
  BY <1>1, <1>2 DEF InnermostBody
<1>5. n \in Nat \ {0} /\ (n = 1 <=> k = Len(w))
  BY SMTT(30), <1>2, <1>3
<1>6. k = Len(w) <=> Counted(w) = {Len(w)}
  <2>1. ASSUME k = Len(w), NEW i \in Counted(w) PROVE i = Len(w)
    <3>1. i \in 1 .. Len(w) /\ i \notin 1 .. k - 1
      BY <1>2, <1>3
    <3> QED
      BY <3>1, <2>1, <1>3
  <2> QED
    BY <2>1, <1>2, <1>3
<1> HIDE DEF w, n
<1>7. RootOf(w)[1].class = InnermostBody(context)
  BY <1>2, <1>4
<1>8. InnermostBody(context) \in Spaces
  BY <1>2, <1>3, <1>4
<1>9. n = 1 <=> Counting(context) = {Len(w)}
  BY <1>1, <1>5, <1>6
<1>10. n = 1 => InnermostBody(context) = TopClass
  BY <1>3, <1>4, <1>5
<1>11. n # 1 => InnermostBody(context) \in Bodies
  BY <1>2, <1>3, <1>4, <1>5
<1> QED
  BY <1>5, <1>7, <1>8, <1>9, <1>10, <1>11 DEF w, n

\* vm_get_ev_const.
LEMMA SearchIsOfRoot ==
  ASSUME NEW context, IsWell(context), NEW table \in AllTables,
         NEW answer \in vm_get_ev_const(context, table)
  PROVE  IsSearched(RootOf(context.within), InnermostBody(context), table, answer)
<1>1. RootOf(context.within) \in Seq(Nodes) /\ RootOf(context.within) # <<>>
  BY RootIs DEF IsWell
<1>2. answer \in SearchFrom(RootOf(context.within), InnermostBody(context), table)
  BY InnermostIs DEF vm_get_ev_const, IsWell
<1> QED
  BY <1>1, <1>2, SearchAnswers

\* 1.9.3: in the bodies and in the ancestors of the innermost.
LEMMA ConstantIsPlace ==
  ASSUME NEW context, IsWell(context), NEW table \in AllTables,
         NEW answer \in vm_get_ev_const(context, table)
  PROVE  answer.class = PlaceOf(context, InnermostBody(context), answer.table)
<1>1. IsCref(context.within) /\ InnermostBody(context) \in Spaces
  BY InnermostIs DEF IsWell
<1>2. IsSearched(context.within, InnermostBody(context), table, answer)
  BY <1>1, SearchIsOfRoot, SearchedFromRoot
<1> QED
  BY <1>1, <1>2, PlaceFound

\* 1.9.2: the same, but for an eval right in the program.
LEMMA ConstantIsPlaceIn192 ==
  ASSUME NEW context, IsWell(context), NEW table \in AllTables,
         NEW answer \in vm_get_ev_const_192(context, table)
  PROVE  LET receiver == IF Counting(context) = {Len(context.within)} THEN context.self
                         ELSE InnermostBody(context)
         IN answer.class = PlaceOf(context, receiver, answer.table)
<1>1. PICK receiver : receiver = IF Counting(context) = {Len(context.within)} THEN context.self
                                 ELSE InnermostBody(context)
  OBVIOUS
<1>2. receiver \in Spaces
  BY <1>1, InnermostIs DEF IsWell, Contexts
<1>3. answer \in SearchFrom(context.within, receiver, table)
  BY <1>1, InnermostIs DEF vm_get_ev_const_192, IsWell
<1>4. IsCref(context.within) /\ context.within \in Seq(Nodes) /\ context.within # <<>>
  BY DEF IsWell, IsCref
<1>5. IsSearched(context.within, receiver, table, answer)
  BY <1>3, <1>4, SearchAnswers
<1>6. answer.class = PlaceOf(context, receiver, answer.table)
  BY <1>2, <1>4, <1>5, PlaceFound
<1> QED
  BY <1>1, <1>6

\* Class variables, and methods.
LEMMA BasesAreLexical ==
  ASSUME NEW context, IsWell(context)
  PROVE  /\ vm_get_const_base(vm_get_cref(context)) = InnermostBody(context)
         /\ vm_get_cvar_base(vm_get_cref(context)) =
              context.within[FirstOf({i \in Counting(context) :
                                        context.within[i].class \notin Singletons})].class
         /\ vm_get_cbase(vm_get_cref(context)) = context.within[1].class
<1> DEFINE w == context.within
           stops == {i \in DOMAIN w : \/ i = Len(w)
                                      \/ ~w[i].eval /\ w[i].class \notin Singletons \cup {Nil}}
           cvars == {i \in Counting(context) : w[i].class \notin Singletons}
<1>1. vm_get_cref(context) = w /\ IsCref(w) /\ Counting(context) = Counted(w)
  BY DEF IsWell, Counting, Counted
<1>2. /\ DOMAIN w = 1 .. Len(w) /\ Counted(w) \in SUBSET (1 .. Len(w)) /\ Len(w) \in Counted(w)
      /\ \A i \in Counted(w) : w[i].class # Nil
      /\ \A i \in DOMAIN w : i \in Counted(w) <=> ~w[i].eval
      /\ w[Len(w)].class = TopClass /\ TopClass \notin Singletons
  BY <1>1, BodiesOfCref, NameAssumption DEF Counted
<1>3. stops = cvars
  BY <1>1, <1>2
<1>4. vm_get_cvar_base(w) = w[FirstOf(stops)].class
  BY DEF vm_get_cvar_base
<1>5. vm_get_const_base(w) = InnermostBody(context)
  BY InnermostIs DEF vm_get_const_base
<1> QED
  BY <1>1, <1>3, <1>4, <1>5 DEF vm_get_cbase

\* What is found in a body that has it there, or in an ancestor that has it.
LEMMA FoundWhere ==
  ASSUME NEW context, IsWell(context), NEW table \in AllTables,
         NEW answer \in vm_get_ev_const(context, table)
  PROVE  LET root == RootOf(context.within)
             chain == Inherited(InnermostBody(context))
         IN \E j \in 1 .. Len(root) :
              /\ \A l \in 1 .. j - 1 : Has(root[l], table, "none")
              /\ \/ /\ j \in 1 .. Len(root) - 1 /\ ~Has(root[j], table, "none")
                    /\ answer.class = root[j].class
                 \/ /\ j = Len(root) \/ \E c \in Spaces : table[c] = "autoload"
                    /\ \/ answer.class = Nil /\ \A i \in 1 .. Len(chain) : table[chain[i]] # "value"
                       \/ \E m \in 1 .. Len(chain) :
                            /\ \A l \in 1 .. m - 1 : table[chain[l]] # "value"
                            /\ table[chain[m]] # "none" /\ answer.class = chain[m]
<1> DEFINE root == RootOf(context.within)
           body == InnermostBody(context)
           chain == Inherited(body)
<1>1. IsSearched(root, body, table, answer)
  BY SearchIsOfRoot
<1>2. root \in Seq(Nodes) /\ Len(root) \in Nat /\ body \in Spaces
  BY RootIs, InnermostIs DEF IsWell
<1> HIDE DEF root, body
<1>3. PICK j \in 1 .. Len(root) :
        /\ \A l \in 1 .. j - 1 : Has(root[l], table, "none")
        /\ \/ /\ j < Len(root) /\ ~Has(root[j], table, "none")
              /\ answer = Found(root[j].class, Loaded(root[j].class, table))
           \/ /\ j = Len(root) \/ Has(root[j], table, "autoload")
              /\ answer \in rb_const_get(body, table)
  BY <1>1 DEF IsSearched
<1>4. CASE j < Len(root) /\ ~Has(root[j], table, "none")
           /\ answer = Found(root[j].class, Loaded(root[j].class, table))
  <2>1. j \in 1 .. Len(root) - 1
    BY <1>2, <1>4
  <2>2. answer.class = root[j].class
    BY <1>4 DEF Found
  <2> QED
    BY <1>3, <1>4, <2>1, <2>2 DEF root, body
<1>5. CASE (j = Len(root) \/ Has(root[j], table, "autoload")) /\ answer \in rb_const_get(body, table)
  <2>1. Has(root[j], table, "autoload") => \E c \in Spaces : table[c] = "autoload"
    <3>1. root[j] \in Nodes
      BY <1>2
    <3> QED
      BY <3>1 DEF Has, Searched, Nodes, Spaces
  <2>2. IsInherited(chain, table, answer)
    BY <1>2, <1>5, InheritedAnswers
  <2>3. \/ answer.class = Nil /\ \A i \in 1 .. Len(chain) : table[chain[i]] # "value"
        \/ \E m \in 1 .. Len(chain) :
             /\ \A l \in 1 .. m - 1 : table[chain[l]] # "value"
             /\ table[chain[m]] # "none" /\ answer.class = chain[m]
    BY <2>2 DEF IsInherited, NameError, Found
  <2> QED
    BY <1>3, <1>5, <2>1, <2>3 DEF root, body
<1> QED
  BY <1>3, <1>4, <1>5

\* defined? and the search.
LEMMA DefinedIsFound ==
  ASSUME NEW context, IsWell(context), NEW table \in AllTables,
         NEW answer \in vm_get_ev_const(context, table)
  PROVE  /\ answer.class # Nil => vm_const_defined(context, table)
         /\ vm_const_defined(context, table) /\ (\A c \in Spaces : table[c] # "autoload")
              => answer.class # Nil
<1> DEFINE root == RootOf(context.within)
           chain == Inherited(InnermostBody(context))
<1>1. PICK j \in 1 .. Len(root) :
        /\ \A l \in 1 .. j - 1 : Has(root[l], table, "none")
        /\ \/ /\ j \in 1 .. Len(root) - 1 /\ ~Has(root[j], table, "none")
              /\ answer.class = root[j].class
           \/ /\ j = Len(root) \/ \E c \in Spaces : table[c] = "autoload"
              /\ \/ answer.class = Nil /\ \A i \in 1 .. Len(chain) : table[chain[i]] # "value"
                 \/ \E m \in 1 .. Len(chain) :
                      /\ \A l \in 1 .. m - 1 : table[chain[l]] # "value"
                      /\ table[chain[m]] # "none" /\ answer.class = chain[m]
  BY FoundWhere
<1>2. /\ root \in Seq(Nodes) /\ DOMAIN chain = 1 .. Len(chain)
      /\ \A i \in 1 .. Len(chain) : chain[i] \in Spaces
      /\ \A i \in 1 .. Len(root) : root[i] \in Nodes
  <2>1. root \in Seq(Nodes) /\ InnermostBody(context) \in Spaces
    BY RootIs, InnermostIs DEF IsWell
  <2>2. chain \in Seq(Spaces) /\ DOMAIN chain = 1 .. Len(chain)
    BY <2>1, InheritedType
  <2> QED
    BY <2>1, <2>2
<1>3. vm_const_defined(context, table) <=>
        \/ \E i \in 1 .. Len(root) - 1 : ~Has(root[i], table, "none")
        \/ \E i \in 1 .. Len(chain) : table[chain[i]] # "none"
  <2>1. vm_get_cref(context) = context.within /\ root[1].class = InnermostBody(context)
    BY InnermostIs DEF IsWell
  <2> QED
    BY <2>1, <1>2 DEF vm_const_defined, rb_const_defined
<1>4. Nil \notin Spaces
  BY NameAssumption DEF Spaces
<1> HIDE DEF root, chain
<1>5. answer.class # Nil => vm_const_defined(context, table)
  BY <1>1, <1>3
<1>6. ASSUME vm_const_defined(context, table), \A c \in Spaces : table[c] # "autoload"
      PROVE  answer.class # Nil
  <2>1. CASE j \in 1 .. Len(root) - 1 /\ ~Has(root[j], table, "none")
             /\ answer.class = root[j].class
    BY <2>1, <1>2 DEF Has, Searched
  <2>2. CASE /\ j = Len(root)
             /\ answer.class = Nil /\ \A i \in 1 .. Len(chain) : table[chain[i]] # "value"
    <3>1. \A i \in 1 .. Len(root) - 1 : Has(root[i], table, "none")
      BY <2>2, <1>1
    <3>2. \A c \in Spaces : table[c] \in {"none", "value"}
      BY <1>6 DEF AllTables
    <3>3. \A i \in 1 .. Len(chain) : table[chain[i]] = "none"
      BY <2>2, <3>2, <1>2
    <3> QED
      BY <3>1, <3>3, <1>3, <1>6
  <2>3. CASE \E m \in 1 .. Len(chain) : answer.class = chain[m]
    BY <2>3, <1>2, <1>4
  <2> QED
    BY <1>1, <1>6, <2>1, <2>2, <2>3
<1> QED
  BY <1>5, <1>6

\* "class X" and the search.
LEMMA OpensWhatIsFound ==
  ASSUME NEW context, IsWell(context), NEW table \in AllTables,
         NEW answer \in vm_get_ev_const(context, table),
         \A c \in Spaces : table[c] # "autoload",
         vm_search_const_defined_class(InnermostBody(context), table) # Nil
  PROVE  answer.class = vm_search_const_defined_class(InnermostBody(context), table)
<1> DEFINE root == RootOf(context.within)
           body == InnermostBody(context)
           chain == Inherited(body)
           own == IF body = TopClass THEN Ancestors[TopClass] ELSE <<body>>
           has == {i \in DOMAIN own : table[own[i]] # "none"}
           again == vm_search_const_defined_class(body, table)
<1>1. PICK j \in 1 .. Len(root) :
        /\ \A l \in 1 .. j - 1 : Has(root[l], table, "none")
        /\ \/ /\ j \in 1 .. Len(root) - 1 /\ ~Has(root[j], table, "none")
              /\ answer.class = root[j].class
           \/ /\ j = Len(root) \/ \E c \in Spaces : table[c] = "autoload"
              /\ \/ answer.class = Nil /\ \A i \in 1 .. Len(chain) : table[chain[i]] # "value"
                 \/ \E m \in 1 .. Len(chain) :
                      /\ \A l \in 1 .. m - 1 : table[chain[l]] # "value"
                      /\ table[chain[m]] # "none" /\ answer.class = chain[m]
  BY FoundWhere
<1>2. /\ root \in Seq(Nodes) /\ body \in Spaces /\ root[1].class = body
      /\ Len(root) \in Nat \ {0}
      /\ Len(root) = 1 => body = TopClass
      /\ Len(root) # 1 => body \in Bodies
  BY RootIs, InnermostIs DEF IsWell
<1>3. TopClass \notin Bodies /\ Nil \notin Spaces
  BY NameAssumption DEF Spaces
<1>4. has # {} /\ again = own[FirstOf(has)]
  BY DEF vm_search_const_defined_class
<1>5. own \in Seq(Spaces) /\ Len(own) \in Nat /\ DOMAIN own = 1 .. Len(own)
  <2>1. Ancestors[TopClass] \in Seq(Spaces)
    BY AncestorsAssumption DEF Spaces
  <2>2. <<body>> \in Seq(Spaces)
    BY <1>2
  <2>3. own \in Seq(Spaces)
    BY <2>1, <2>2
  <2> HIDE DEF own
  <2> QED
    BY <2>3
<1>6. PICK f : f = FirstOf(has)
  OBVIOUS
<1>7. /\ f \in 1 .. Len(own) /\ table[own[f]] # "none" /\ own[f] \in Spaces
      /\ \A i \in 1 .. Len(own) : table[own[i]] # "none" => f <= i
  <2> HIDE DEF own
  <2>1. has \in SUBSET Nat
    BY <1>5
  <2>2. f \in has /\ \A i \in has : f <= i
    BY <2>1, <1>4, <1>6, FirstIsIn
  <2> QED
    BY <2>2, <1>5
<1>8. CASE body # TopClass
  <2>1. own = <<body>> /\ Len(<<body>>) = 1 /\ <<body>>[1] = body
    BY <1>8
  <2>2. f = 1 /\ own[f] = body
    BY <2>1, <1>7
  <2>3. Len(root) # 1 /\ body \in Bodies
    BY <1>2, <1>8
  <2>4. 1 \in 1 .. Len(root) /\ root[1] \in Nodes
    BY <1>2
  <2>5. ~Has(root[1], table, "none")
    <3>1. IsCref(context.within)
      BY DEF IsWell
    <3>2. PICK k : k \in Counted(context.within) /\ root[1] = context.within[k]
      BY <3>1, RootIs
    <3>3. Searched(root[1])
      BY <3>1, <3>2, BodiesOfCref
    <3>4. table[root[1].class] # "none"
      BY <2>2, <1>2, <1>7
    <3> QED
      BY <3>3, <3>4 DEF Has
  <2> HIDE DEF root, body, chain, own, has, again
  <2>6. j = 1
    <3>1. j # 1 => 1 \in 1 .. j - 1
      OBVIOUS
    <3> QED
      BY <3>1, <2>5, <1>1
  <2>7. answer.class = root[1].class
    BY <2>3, <2>6, <1>1
  <2> QED
    BY <2>2, <2>7, <1>2, <1>4, <1>6 DEF body, again
<1>9. CASE body = TopClass
  <2>1. own = Ancestors[TopClass]
    BY <1>9
  <2>2. PICK rest \in Seq(Spaces) : chain = own \o rest
    <3>1. Ancestors[TopClass] \in Seq(Spaces) /\ <<>> \in Seq(Spaces)
      BY AncestorsAssumption DEF Spaces
    <3> QED
      BY <3>1, <2>1, <1>9 DEF Inherited
  <2>3. Len(root) = 1
    BY <1>2, <1>3, <1>9
  <2> HIDE DEF root, body, chain, own, has, again
  <2>4. /\ chain \in Seq(Spaces) /\ Len(chain) \in Nat /\ Len(own) <= Len(chain)
        /\ \A i \in 1 .. Len(own) : chain[i] = own[i]
    <3>1. /\ own \o rest \in Seq(Spaces) /\ Len(own \o rest) = Len(own) + Len(rest)
          /\ \A i \in 1 .. Len(own) + Len(rest) : (own \o rest)[i] =
               IF i <= Len(own) THEN own[i] ELSE rest[i - Len(own)]
      BY <1>5, ConcatProperties
    <3>2. Len(rest) \in Nat
      OBVIOUS
    <3>3. PICK s : s = own \o rest
      OBVIOUS
    <3>4. /\ s \in Seq(Spaces) /\ Len(s) = Len(own) + Len(rest)
          /\ \A i \in 1 .. Len(own) + Len(rest) : s[i] =
               IF i <= Len(own) THEN own[i] ELSE rest[i - Len(own)]
      BY <3>1, <3>3
    <3>5. s \in Seq(Spaces) /\ Len(s) \in Nat /\ Len(own) <= Len(s)
          /\ \A i \in 1 .. Len(own) : s[i] = own[i]
      BY <3>2, <3>4, <1>5
    <3> QED
      BY <3>3, <3>5, <2>2
  <2>5. \A c \in Spaces : table[c] \in {"none", "value"}
    BY DEF AllTables
  <2>6. f \in 1 .. Len(chain) /\ chain[f] = own[f] /\ table[chain[f]] = "value"
    BY <1>5, <1>7, <2>4, <2>5
  <2>7. PICK m \in 1 .. Len(chain) :
          /\ \A l \in 1 .. m - 1 : table[chain[l]] # "value"
          /\ table[chain[m]] # "none" /\ answer.class = chain[m]
    BY <1>1, <2>3, <2>6
  <2>8. m <= f
    BY <2>6, <2>7
  <2>9. f <= m
    <3>1. m \in 1 .. Len(own)
      BY <2>8, <1>5, <1>7
    <3> QED
      BY <3>1, <2>4, <2>7, <1>7
  <2>10. m = f
    BY <2>8, <2>9, <2>6
  <2> QED
    BY <2>6, <2>7, <2>10, <1>4, <1>6 DEF again, body
<1> QED
  BY <1>8, <1>9

-----------------------------------------------------------------------------
\* Whatever bodies, evals, blocks and methods call each other, vm_get_cref finds what the
\* code is written in, and so vm_get_ev_const, in both versions, vm_get_cvar_base,
\* vm_get_cbase, vm_const_defined and vm_search_const_defined_class answer for that.
THEOREM NamesStayLexical == Spec => []NamesAreLexical
<1>1. MCInit => NamesInv
  BY NamesInitially DEF MCInit
<1>2. NamesInv /\ [MCNext]_<<vars, namesVars>> => NamesInv'
  <2> SUFFICES ASSUME NamesInv, [MCNext]_<<vars, namesVars>> PROVE NamesInv'
    OBVIOUS
  <2>1. CASE NamesNext
    BY <2>1, NamesStep
  <2>2. CASE UNCHANGED namesVars
    BY <2>2 DEF NamesInv, namesVars
  <2> QED
    BY <2>1, <2>2 DEF MCNext
<1>3. NamesInv => NamesAreLexical
  <2> SUFFICES ASSUME NamesInv PROVE ConstantsAreLexical
    BY DEF NamesAreLexical
  <2>1. IsWell(Current)
    BY CurrentIsWell
  <2>2. Tables \subseteq AllTables
    BY DEF Tables, AllTables
  <2>3. PICK c : c = Current
    OBVIOUS
  <2>4. ASSUME NEW table \in Tables, NEW answer \in vm_get_ev_const(c, table)
        PROVE  /\ answer.class = PlaceOf(c, InnermostBody(c), answer.table)
               /\ answer.class # Nil => vm_const_defined(c, table)
               /\ vm_const_defined(c, table) /\ ~(\E k \in Spaces : table[k] = "autoload")
                    => answer.class # Nil
               /\ LET again == vm_search_const_defined_class(InnermostBody(c), table)
                  IN again # Nil /\ ~(\E k \in Spaces : table[k] = "autoload")
                       => answer.class = again
    <3>1. table \in AllTables /\ IsWell(c)
      BY <2>1, <2>2, <2>3
    <3> QED
      BY <3>1, ConstantIsPlace, DefinedIsFound, OpensWhatIsFound
  <2>5. ASSUME NEW table \in Tables, NEW answer \in vm_get_ev_const_192(c, table)
        PROVE  LET receiver == IF Counting(c) = {Len(c.within)} THEN c.self ELSE InnermostBody(c)
               IN answer.class = PlaceOf(c, receiver, answer.table)
    BY <2>1, <2>2, <2>3, ConstantIsPlaceIn192
  <2>6. /\ vm_get_const_base(vm_get_cref(c)) = InnermostBody(c)
        /\ vm_get_cvar_base(vm_get_cref(c)) =
             c.within[FirstOf({i \in Counting(c) : c.within[i].class \notin Singletons})].class
        /\ vm_get_cbase(vm_get_cref(c)) = c.within[1].class
    BY <2>1, <2>3, BasesAreLexical
  <2> QED
    BY <2>3, <2>4, <2>5, <2>6 DEF ConstantsAreLexical
<1> QED
  BY <1>1, <1>2, <1>3, PTL DEF Spec
=============================================================================
