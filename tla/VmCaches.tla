------------------------------ MODULE VmCaches ------------------------------
(***************************************************************************)
(* ruby_source/1.9.3/vm_insnhelper.c: the inline cache of an instruction.  *)
(* It keeps what a search found for a class, with the version of the VM's  *)
(* state, which every change of a method or a class counts up and which    *)
(* comes around (INC_VM_STATE_VERSION).  A class ends and another one gets *)
(* its address; an object gets a class of its own.                         *)
(*                                                                         *)
(* There is one instruction: recv == obj, or one of the variable @x.       *)
(***************************************************************************)
EXTENDS Naturals, Sequences

CONSTANTS
  Fixnum, String, Object,  \* built-in classes, of which the first two have their own ==
  A,         \* a class of the program, which may include a module
  Address,   \* where the program's other class is, and later another one
  Module,
  Objects,
  Names,     \* names of instance variables
  X,         \* the one of the instruction
  Embedded,  \* the variables an object has room for from the start
  Versions,  \* bound: ruby_vm_global_state_version is one of 1 .. Versions
  None

ASSUME CacheAssumption ==
  /\ Embedded \in Nat /\ Versions \in Nat \ {0, 1} /\ X \in Names
  /\ None \notin {Fixnum, String, Object, A, Address, Module} \cup Names

\* The built-in classes, A and the one at Address are different ones.
ASSUME ClassAssumption ==
  /\ Address \notin {Fixnum, String, Object, A}
  /\ A \notin {Fixnum, String, Object}
  /\ Object \notin {Fixnum, String}

VARIABLES
  site,      \* the instruction: "==", "@x", or none of these
  ic,        \* its inline cache
  version,   \* ruby_vm_global_state_version
  class_at,  \* the class that is at Address: its superclass, and if it is a singleton
  includes,  \* A includes Module
  redefined, \* who has an == of the program
  operators, \* ruby_vm_redefined_flag[BOP_EQ]
  class_of,  \* each object's class pointer
  iv_index,  \* the variables known to A and to the class at Address, in their order
  slots,     \* each object's variables; None is Qundef
  written    \* the variables the program gave each object

vars == <<site, ic, version, class_at, includes, redefined, operators, class_of, iv_index,
          slots, written>>
world == <<class_at, includes, redefined, operators, class_of, iv_index, slots, written>>

Classes == {Fixnum, String, Object, A, Address}
NoClass == [super |-> None, singleton |-> FALSE]
EmptyCache == [class |-> None, vmstat |-> 0, value |-> None]

Init ==
  /\ site \in {"==", "@x", "none"}
  /\ ic = EmptyCache
  /\ version = 1
  /\ class_at = NoClass
  /\ includes = FALSE
  /\ redefined = {}
  /\ operators = FALSE
  /\ class_of = [o \in Objects |-> None]
  /\ iv_index = [c \in {A, Address} |-> <<>>]
  /\ slots = [o \in Objects |-> <<>>]
  /\ written = [o \in Objects |-> {}]

-----------------------------------------------------------------------------
(* The classes, and the searches that do not use the cache.                *)

Exists(c) == c # Address \/ class_at.super # None

\* The ancestors of a class, of one that stays and of any.
AncestorsOfFixed(c) ==
  CASE c = A -> (IF includes THEN <<A, Module>> ELSE <<A>>) \o <<Object>>
    [] c = Object -> <<Object>>
    [] OTHER -> <<c, Object>>

AncestorsOf(c) ==
  IF c = Address THEN <<Address>> \o AncestorsOfFixed(class_at.super) ELSE AncestorsOfFixed(c)

First(positions) == CHOOSE i \in positions : \A j \in positions : i <= j

\* rb_method_entry for ==: whose it is, and if it is the program's.
rb_method_entry(c) ==
  LET chain == AncestorsOf(c)
      i == First({j \in DOMAIN chain : chain[j] \in redefined \cup {Fixnum, String, Object}})
  IN [class |-> chain[i], by |-> IF chain[i] \in redefined THEN "program" ELSE "C"]

\* The class whose table of variables an object has: not its singleton class.
RealClass(o) == IF class_of[o] = Address /\ class_at.singleton THEN class_at.super ELSE class_of[o]
IsObject(o) == class_of[o] # Address \/ class_at.super # String  \* T_OBJECT
Table(o) == iv_index[RealClass(o)]
IndexIn(table, id) == {i \in DOMAIN table : table[i] = id}
IndexOf(table, id) == CHOOSE i \in IndexIn(table, id) : TRUE
WithName(table, id) == IF IndexIn(table, id) = {} THEN Append(table, id) ELSE table

\* Faulty, for the mutants: the version comes around with the caches as they are, as
\* with the macro of 1.9.2.
Inc192 ==
  version' = (version % Versions) + 1 /\ UNCHANGED ic

\* INC_VM_STATE_VERSION: at zero the caches are cleared.
INC_VM_STATE_VERSION ==
  IF version < Versions
  THEN version' = version + 1 /\ UNCHANGED ic
  ELSE version' = 1 /\ ic' = EmptyCache

-----------------------------------------------------------------------------
(* What the program does to its classes and objects.                       *)

\* A method == is made in a class of the program or in a built-in one, which raises
\* the flag of the operators if it takes the place of their own.
DefineMethod(k) ==
  /\ site = "==" /\ k \notin redefined /\ (k # Address \/ Exists(k))
  /\ redefined' = redefined \cup {k}
  /\ operators' = (operators \/ k \in {Fixnum, String})
  /\ INC_VM_STATE_VERSION
  /\ UNCHANGED <<site, class_at, includes, class_of, iv_index, slots, written>>

RemoveMethod(k) ==
  /\ site = "==" /\ k \in redefined \ {Fixnum, String}
  /\ redefined' = redefined \ {k}
  /\ INC_VM_STATE_VERSION
  /\ UNCHANGED <<site, class_at, includes, operators, class_of, iv_index, slots, written>>

Include ==
  /\ site = "==" /\ ~includes
  /\ includes' = TRUE
  /\ INC_VM_STATE_VERSION
  /\ UNCHANGED <<site, class_at, redefined, operators, class_of, iv_index, slots, written>>

\* A class is made.  No search can have met it, so the version stays.
NewClass(super) ==
  /\ ~Exists(Address)
  /\ class_at' = [super |-> super, singleton |-> FALSE]
  /\ UNCHANGED <<site, ic, version, includes, redefined, operators, class_of, iv_index, slots,
                 written>>

\* An object gets a class of its own.
SingletonClass(o) ==
  /\ ~Exists(Address) /\ class_of[o] = A
  /\ class_at' = [super |-> A, singleton |-> TRUE]
  /\ class_of' = [class_of EXCEPT ![o] = Address]
  /\ UNCHANGED <<site, ic, version, includes, redefined, operators, iv_index, slots, written>>

\* A class that nothing refers to is collected, the caches do not keep it; those
\* filled for it are made void (rb_clear_cache_by_class).
FreeClass ==
  /\ Exists(Address) /\ \A o \in Objects : class_of[o] # Address
  /\ class_at' = NoClass
  /\ redefined' = redefined \ {Address}
  /\ iv_index' = [iv_index EXCEPT ![Address] = <<>>]
  /\ INC_VM_STATE_VERSION
  /\ UNCHANGED <<site, includes, operators, class_of, slots, written>>

NewObject(o, c) ==
  /\ class_of[o] = None /\ Exists(c) /\ ~(c = Address /\ class_at.singleton)
  /\ class_of' = [class_of EXCEPT ![o] = c]
  /\ slots' = [slots EXCEPT ![o] = [i \in 1 .. Embedded |-> None]]
  /\ UNCHANGED <<site, ic, version, class_at, includes, redefined, operators, iv_index, written>>

FreeObject(o) ==
  /\ class_of[o] # None
  /\ class_of' = [class_of EXCEPT ![o] = None]
  /\ slots' = [slots EXCEPT ![o] = <<>>]
  /\ written' = [written EXCEPT ![o] = {}]
  /\ UNCHANGED <<site, ic, version, class_at, includes, redefined, operators, iv_index>>

-----------------------------------------------------------------------------
(* recv == obj                                                             *)

Hit(c) == ic.class = c /\ ic.vmstat = version
Filled(c, value) == [class |-> c, vmstat |-> version, value |-> value]

\* vm_method_search: what it finds, and what it leaves in the cache.
vm_method_search(c) == IF Hit(c) THEN ic.value ELSE rb_method_entry(c)
AfterSearch(c) == IF Hit(c) THEN ic ELSE Filled(c, rb_method_entry(c))

check_cfunc(me, class) == me = [class |-> class, by |-> "C"]

\* Values: of a built-in class with what they contain, or objects.
Value(class, content) == [class |-> class, content |-> content]
Values ==
  {Value(c, n) : c \in {Fixnum, String}, n \in {1, 2}}
    \cup {Value(class_of[o], o) : o \in {p \in Objects : class_of[p] # None}}
\* A number is itself; strings with the same content may be two objects.
Same(recv, obj, one) == recv = obj /\ (recv.class = String => one)

Undef == "Qundef"
Truth(b) == IF b THEN "true" ELSE "false"

\* Faulty, for the mutants: the flag is not looked at.
Optimized(recv, obj) == recv.class = obj.class /\ recv.class \in {Fixnum, String}

\* Both are numbers or strings (floats are like strings here), and == is as it was.
OptimizedUnredefined(recv, obj) == Optimized(recv, obj) /\ ~operators

\* one: a string is compared with itself.
opt_eq_func(recv, obj, one) ==
  CASE OptimizedUnredefined(recv, obj) -> Truth(recv.content = obj.content)
    [] ~OptimizedUnredefined(recv, obj) /\ check_cfunc(vm_method_search(recv.class), Object) ->
         Truth(Same(recv, obj, one))
    [] OTHER -> Undef

\* The instruction; after Qundef it calls the method, which it searches again.
Compare(recv, obj) ==
  /\ site = "=="
  /\ ic' = IF OptimizedUnredefined(recv, obj) THEN ic ELSE AfterSearch(recv.class)
  /\ UNCHANGED <<site, version, world>>

-----------------------------------------------------------------------------
(* @x                                                                      *)

Slot(o, i) == IF i \in DOMAIN slots[o] THEN slots[o][i] ELSE None

\* vm_getivar: None stands for nil.  Other kinds of objects have their variables
\* elsewhere (rb_ivar_get).
vm_getivar(o) ==
  IF IsObject(o)
  THEN IF Hit(class_of[o]) THEN Slot(o, ic.value)
       ELSE IF IndexIn(Table(o), X) = {} THEN None ELSE Slot(o, IndexOf(Table(o), X))
  ELSE IF X \in written[o] THEN X ELSE None

\* Both instructions keep the index they find.
AfterIndex(o) ==
  IF IsObject(o) /\ ~Hit(class_of[o]) /\ IndexIn(Table(o), X) # {}
  THEN Filled(class_of[o], IndexOf(Table(o), X))
  ELSE ic

GetIvar(o) ==
  /\ site = "@x" /\ class_of[o] # None
  /\ ic' = AfterIndex(o)
  /\ UNCHANGED <<site, version, world>>

\* The slots with one set, and those before it made if they are not there.
WithSlot(o, i, id) ==
  [j \in 1 .. (IF i > Len(slots[o]) THEN i ELSE Len(slots[o])) |->
     IF j = i THEN id ELSE Slot(o, j)]

\* rb_ivar_set: the name gets an index in the table, the object room for it.
rb_ivar_set(o, id) ==
  /\ written' = [written EXCEPT ![o] = @ \cup {id}]
  /\ IF IsObject(o)
     THEN LET table == WithName(Table(o), id)
          IN /\ iv_index' = [iv_index EXCEPT ![RealClass(o)] = table]
             /\ slots' = [slots EXCEPT ![o] = WithSlot(o, IndexOf(table, id), id)]
     ELSE UNCHANGED <<iv_index, slots>>

\* vm_setivar, for an object that is not frozen (else it raises and nothing changes).
vm_setivar(o) ==
  /\ site = "@x" /\ class_of[o] # None
  /\ IF IsObject(o) /\ Hit(class_of[o]) /\ ic.value <= Len(slots[o])
     THEN /\ slots' = [slots EXCEPT ![o][ic.value] = X]
          /\ written' = [written EXCEPT ![o] = @ \cup {X}]
          /\ UNCHANGED <<ic, iv_index>>
     ELSE ic' = AfterIndex(o) /\ rb_ivar_set(o, X)
  /\ UNCHANGED <<site, version, class_at, includes, redefined, operators, class_of>>

\* Another variable is set elsewhere.
SetOther(o, id) ==
  /\ site = "@x" /\ class_of[o] # None /\ id # X
  /\ rb_ivar_set(o, id)
  /\ UNCHANGED <<site, ic, version, class_at, includes, redefined, operators, class_of>>

-----------------------------------------------------------------------------
CachesNext ==
  \/ \E k \in {Object, String, A, Address, Module} : DefineMethod(k) \/ RemoveMethod(k)
  \/ Include
  \/ \E super \in {Object, String, A} : NewClass(super)
  \/ FreeClass
  \/ \E o \in Objects :
       \/ SingletonClass(o) \/ FreeObject(o) \/ GetIvar(o) \/ vm_setivar(o)
       \/ \E c \in {A, Address} : NewObject(o, c)
       \/ \E id \in Names : SetOther(o, id)
  \/ \E recv, obj \in Values : Compare(recv, obj)

-----------------------------------------------------------------------------
\* Whatever was redefined, included, freed or made since the cache was filled, and
\* however often the version has come around: == answers by itself only if the
\* method that a fresh search finds is the one of C it stands for, and as that would;
\* otherwise it leaves the call to the method, which is the right one.
EqCallsTheMethod ==
  site = "==" =>
    \A recv, obj \in Values, one \in BOOLEAN :
      LET me == rb_method_entry(recv.class)
          answer == opt_eq_func(recv, obj, one)
      IN /\ answer # Undef =>
              /\ me.by = "C"
              /\ (answer = "true") = (IF me.class = Object THEN Same(recv, obj, one) ELSE recv = obj)
         /\ answer = Undef => vm_method_search(recv.class) = me

\* An object's variable is what the program gave this object under this name, nil if
\* it gave none: by whatever class and index the cache was filled, and whatever the
\* object has room for.
IvarsAreOwn ==
  site = "@x" =>
    \A o \in Objects : class_of[o] # None =>
      vm_getivar(o) = IF X \in written[o] THEN X ELSE None
=============================================================================
