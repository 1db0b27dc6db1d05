------------------------------ MODULE VmNames -------------------------------
(***************************************************************************)
(* ruby_source/{1.9.2,1.9.3}/vm_insnhelper.c: what a constant, a class     *)
(* variable or def belongs to.  A cref is the list of the class bodies     *)
(* around code, innermost first; the code of a body, a method or an eval   *)
(* has one in its iseq, and a block that runs for another receiver has one *)
(* with its variables (dfp[-1]).                                           *)
(*                                                                         *)
(* There is one constant.  Which classes have it, or are to load it, is    *)
(* for all tables in the property: no code here changes it but a load.     *)
(***************************************************************************)
EXTENDS Naturals, Sequences, FiniteSets

CONSTANTS
  Bodies,        \* classes and modules that bodies are written for
  Singletons,    \* those among them that are singleton classes
  TopClass,      \* Object
  Kernel,        \* a module above it
  Ancestors,     \* the ancestors of each, itself first
  MaxEntries,    \* bound on the classes that have the constant at a time
  MaxContexts,   \* bound on the activations there are at a time
  MaxNesting,    \* bound on the bodies and evals around code, the program counted
  Nil

ASSUME NameAssumption ==
  /\ Singletons \subseteq Bodies /\ TopClass \notin Bodies /\ {MaxEntries, MaxContexts, MaxNesting} \subseteq Nat \ {0}
  /\ Nil \notin Bodies \cup {TopClass, Kernel}
ASSUME AncestorsAssumption ==
  Ancestors \in [Bodies \cup {TopClass, Kernel} -> Seq(Bodies \cup {TopClass, Kernel})]

VARIABLES
  running,  \* the activations of code, the current one last
  kept      \* the activation that a block or method was written in which is called later

namesVars == <<running, kept>>

Spaces == Bodies \cup {TopClass, Kernel}

\* A node of a cref: a body's class, or what an eval runs for (nil for a number).
Node(class, eval) == [class |-> class, eval |-> eval]
Outermost == <<Node(TopClass, FALSE)>>

\* An activation: dfp[-1] of the blocks (<<>> for nil), inner ones first, the
\* cref_stack of its iseq, the class of self, and the bodies and evals that it is
\* written in, which is what the others are for.
Context(blocks, stack, self, within) ==
  [blocks |-> blocks, cref_stack |-> stack, self |-> self, within |-> within]
Current == running[Len(running)]

FirstOf(places) == CHOOSE i \in places : \A j \in places : i <= j

-----------------------------------------------------------------------------
(* The cref of an activation.                                              *)

\* vm_get_cref0, vm_get_cref: of the innermost block that has one, or of the iseq.
vm_get_cref(context) ==
  LET own == {i \in DOMAIN context.blocks : context.blocks[i] # <<>>}
  IN IF own = {} THEN context.cref_stack
     ELSE context.blocks[FirstOf(own)]

\* Faulty, for the mutants: below the caller's, whatever the block was written in.
PushBelowCaller(class, eval, around) == <<Node(class, eval)>> \o vm_get_cref(Current)

\* vm_cref_push: below the cref of the block, or of the caller where there is none.
vm_cref_push(class, eval, around) == <<Node(class, eval)>> \o vm_get_cref(around)

\* Where def goes: the innermost class (a node without one is that of code which has
\* not run yet).
vm_get_cbase(cref) == cref[1].class

\* The part of a cref without evals at its head.
RootOf(cref) == SubSeq(cref, FirstOf({i \in DOMAIN cref : ~cref[i].eval}), Len(cref))

\* Where a constant is set.
vm_get_const_base(cref) == RootOf(cref)[1].class

\* Where class variables are, Nil for TypeError.
vm_get_cvar_base(cref) ==
  LET stops == {i \in DOMAIN cref :
                  \/ i = Len(cref)
                  \/ ~cref[i].eval /\ cref[i].class \notin Singletons \cup {Nil}}
  IN cref[FirstOf(stops)].class

-----------------------------------------------------------------------------
(* Constants.  A table says for each class if it has the constant, not, or *)
(* is to load it (autoload, Qundef).                                       *)

Tables ==
  {table \in [Spaces -> {"none", "value", "autoload"}] :
     Cardinality({c \in Spaces : table[c] # "none"}) <= MaxEntries}
Found(class, table) == [class |-> class, table |-> table]
NameError(table) == Found(Nil, table)

\* rb_autoload_load runs a file, which may set the constant, or leave the table as it is.
Loaded(class, table) == [table EXCEPT ![class] = "value"]

\* rb_const_get: in the ancestors, and for a module in Object's; files are loaded.
Inherited(class) ==
  Ancestors[class] \o (IF TopClass \in {Ancestors[class][i] : i \in DOMAIN Ancestors[class]}
                       THEN <<>> ELSE Ancestors[TopClass])
rb_const_get(class, table) ==
  LET chain == Inherited(class)
      get[i \in 1 .. Len(chain) + 1] ==
        CASE i > Len(chain) -> {NameError(table)}
          [] i <= Len(chain) /\ table[chain[i]] = "value" -> {Found(chain[i], table)}
          [] i <= Len(chain) /\ table[chain[i]] = "none" -> get[i + 1]
          [] OTHER -> {Found(chain[i], Loaded(chain[i], table))} \cup get[i + 1]
  IN get[1]

rb_const_defined(class, table) == \E i \in DOMAIN Inherited(class) : table[Inherited(class)[i]] # "none"

\* The search of the bodies passes over those of evals.
Searched(node) == ~node.eval /\ node.class # Nil

Has(node, table, what) == IF Searched(node) THEN table[node.class] = what ELSE what = "none"

\* The search of the bodies, but the outermost, and then of the ancestors of self,
\* which is what the caller says.  A file that leaves the constant to be loaded ends
\* the search of the bodies.
SearchFrom(cref, self, table) ==
  LET in[i \in 1 .. Len(cref)] ==
        CASE i = Len(cref) -> rb_const_get(self, table)
          [] i < Len(cref) /\ Has(cref[i], table, "value") -> {Found(cref[i].class, table)}
          [] i < Len(cref) /\ Has(cref[i], table, "autoload") ->
               {Found(cref[i].class, Loaded(cref[i].class, table))} \cup rb_const_get(self, table)
          [] OTHER -> in[i + 1]
  IN in[1]

\* vm_get_ev_const without an explicit class: all it can answer, with the table then.
vm_get_ev_const(context, table) ==
  LET root == RootOf(vm_get_cref(context))
  IN SearchFrom(root, root[1].class, table)

\* In 1.9.2 evals count for the outermost body as well: with nothing else around, self
\* is the receiver.  (It searches a body again for every eval in it, to no effect.)
vm_get_ev_const_192(context, table) ==
  LET cref == vm_get_cref(context)
      root == RootOf(cref)
  IN SearchFrom(cref, IF Len(root) = 1 THEN context.self ELSE root[1].class, table)

\* With is_defined, for which a file to load is enough.
vm_const_defined(context, table) ==
  LET root == RootOf(vm_get_cref(context))
  IN \/ \E i \in 1 .. Len(root) - 1 : ~Has(root[i], table, "none")
     \/ rb_const_defined(root[1].class, table)

\* What "class X" opens again: a constant of the base itself, or of Object's ancestors.
vm_search_const_defined_class(cbase, table) ==
  LET chain == IF cbase = TopClass THEN Ancestors[TopClass] ELSE <<cbase>>
      has == {i \in DOMAIN chain : table[chain[i]] # "none"}
  IN IF has = {} THEN Nil ELSE chain[FirstOf(has)]

-----------------------------------------------------------------------------
(* Code runs: class bodies, evals, blocks and methods.                     *)

Program == Context(<<>>, Outermost, TopClass, Outermost)

NamesInit ==
  /\ running = <<Program>>
  /\ kept = Program

Enter(context) ==
  /\ Len(running) < MaxContexts /\ Len(context.within) <= MaxNesting
  /\ running' = Append(running, context)
  /\ UNCHANGED kept

\* A body below the code that it is in.
ClassBody(c) ==
  Enter(Context(<<>>, vm_cref_push(c, FALSE, Current), c, <<Node(c, FALSE)>> \o Current.within))

\* A string evaluated for a receiver, below the code that calls.
EvalString(c, eval) ==
  Enter(Context(<<>>, vm_cref_push(c, eval, Current), IF c = Nil THEN TopClass ELSE c,
                <<Node(c, eval)>> \o Current.within))

\* A block evaluated for a receiver, below the code that it is written in.
EvalBlock(c, eval) ==
  Enter(Context(<<vm_cref_push(c, eval, kept)>> \o kept.blocks, kept.cref_stack,
                IF c = Nil THEN TopClass ELSE c, <<Node(c, eval)>> \o kept.within))

\* A block is called, or a method with its code in the body that was kept: a method
\* has the body's cref in its iseq, and its receiver may be of another class.
YieldBlock ==
  Enter([kept EXCEPT !.blocks = <<<<>>>> \o @])
CallMethod(c) ==
  Enter(Context(<<>>, vm_get_cref(kept), c, kept.within))

\* Bound: one activation is kept, once.
Keep ==
  /\ kept = Program /\ Current # Program
  /\ kept' = Current
  /\ UNCHANGED running

Return ==
  /\ Len(running) > 1
  /\ running' = SubSeq(running, 1, Len(running) - 1)
  /\ UNCHANGED kept

NamesNext ==
  \/ \E c \in Bodies : ClassBody(c) \/ CallMethod(c)
  \/ \E c \in Bodies \cup {Nil}, eval \in BOOLEAN :
       (c = Nil => eval) /\ (EvalString(c, eval) \/ EvalBlock(c, eval))
  \/ YieldBlock \/ Keep \/ Return

-----------------------------------------------------------------------------
\* The places of the bodies around code; evals do not count.
Counting(context) == {i \in DOMAIN context.within : ~context.within[i].eval}
InnermostBody(context) == context.within[FirstOf(Counting(context))].class

\* Where the constant is to be found: in the bodies the code is written in (but the
\* program), wherever it is called from, unless a load has left it open in one further
\* in, and then in the ancestors of the innermost.
PlaceOf(context, self, table) ==
  LET ClassAt(i) == context.within[i].class
      lexical == Counting(context) \ {Len(context.within)}
      open == {i \in lexical : table[ClassAt(i)] = "autoload"}
      has == {i \in lexical : table[ClassAt(i)] = "value" /\ \A j \in open : i < j}
      chain == Inherited(self)
      inherited == {i \in DOMAIN chain : table[chain[i]] = "value"}
  IN CASE has # {} -> ClassAt(FirstOf(has))
       [] has = {} /\ inherited # {} -> chain[FirstOf(inherited)]
       [] OTHER -> Nil

\* A constant is that of the innermost body that has it, whichever activation calls
\* the code, with whatever files loaded on the way; in 1.9.2 and 1.9.3 alike, but for
\* an eval right in the program.  Class variables and methods are those of the
\* bodies around as well, but singleton classes have no class variables and methods
\* go to the receiver of an eval.  defined? never denies a constant that is found, and
\* only a file can make it promise one that is not; and "class X" opens again what X
\* stands for.
ConstantsAreLexical ==
  LET c == Current
      body == InnermostBody(c)
      receiver == IF Counting(c) = {Len(c.within)} THEN c.self ELSE body
      cref == vm_get_cref(c)
      base == vm_get_const_base(cref)
      cvars == {i \in Counting(c) : c.within[i].class \notin Singletons}
  IN /\ base = body
     /\ vm_get_cvar_base(cref) = c.within[FirstOf(cvars)].class
     /\ vm_get_cbase(cref) = c.within[1].class
     /\ \A table \in Tables :
          LET answers == vm_get_ev_const(c, table)
              open == \E k \in Spaces : table[k] = "autoload"
              again == vm_search_const_defined_class(base, table)
          IN /\ \A answer \in answers : answer.class = PlaceOf(c, body, answer.table)
             /\ \A answer \in vm_get_ev_const_192(c, table) :
                  answer.class = PlaceOf(c, receiver, answer.table)
             /\ \A answer \in answers :
                  /\ answer.class # Nil => vm_const_defined(c, table)
                  /\ vm_const_defined(c, table) /\ ~open => answer.class # Nil
                  /\ again # Nil /\ ~open => answer.class = again
=============================================================================
