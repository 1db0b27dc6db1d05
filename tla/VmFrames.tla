------------------------------ MODULE VmFrames ------------------------------
(***************************************************************************)
(* ruby_source/1.9.3/vm_insnhelper.c: control frames.  A frame has its own *)
(* variables (dfp) and those of the method it is part of (lfp); a block    *)
(* keeps the dfp it was written in, so its variables hang below that one.  *)
(* break, return and retry look for the frame they go to through these     *)
(* pointers, and yield for its block.  Variables live on the stack, where  *)
(* their place is used again, until a Proc is made of a block.             *)
(*                                                                         *)
(* What the code of a frame does is free: it calls, yields, throws at any  *)
(* moment, within what its instruction sequence can contain.               *)
(***************************************************************************)
EXTENDS Integers, Sequences, FiniteSets

CONSTANTS
  Threads,   \* the first one, Main, runs from the start
  Main,
  Places,    \* places for variables, on the stack or in the heap
  Iseqs,     \* the instruction sequences, a record for each
  Room,      \* the control frames the stack of a thread has room for
  MaxFrames, \* bound on the control frames of all stacks
  MaxProcs,  \* bound on the Procs, those made because of another one not counted
  None

ASSUME FramesAssumption ==
  Room \in [Threads -> Nat] /\ MaxFrames \in Nat \ {0} /\ MaxProcs \in Nat /\ Main \in Threads
ASSUME PlacesAssumption ==
  /\ IsFiniteSet(Places) /\ Places # {}
  /\ None \notin Places /\ None \notin DOMAIN Iseqs /\ Threads \cap Places = {}

VARIABLES
  frames,     \* th->cfp: for each thread its frames, the running one last
  vars_at,    \* for each place: what dfp[0] and lfp[-1] hold, and if it is in the heap
  procs,      \* the Procs the program holds
  local,      \* th->local_lfp, local_svar: the method variables a thread was started with
  written     \* what the program last wrote to $~, by who should see it

vars == <<frames, vars_at, procs, local, written>>

\* iseq.h: type is TOP, METHOD, BLOCK, CLASS or RESCUE; parent is the instruction
\* sequence around it.  A method, a class body and the program are their own
\* local_iseq.
TypeOf(iseq) == Iseqs[iseq].type
Within(iseq, type) == {b \in DOMAIN Iseqs : Iseqs[b].parent = iseq /\ TypeOf(b) = type}
local_iseq[i \in DOMAIN Iseqs] ==
  IF TypeOf(i) \in {"BLOCK", "RESCUE"} THEN local_iseq[Iseqs[i].parent] ELSE i

\* Bound: blocks, rescue clauses and the method around them are at most four deep.
Nested(level) ==
  \A i \in DOMAIN Iseqs :
    IF TypeOf(i) \in {"BLOCK", "RESCUE"}
    THEN Iseqs[i].parent \in DOMAIN Iseqs /\ level[i] = level[Iseqs[i].parent] + 1
    ELSE level[i] = 0
ASSUME NestingAssumption ==
  /\ \E level \in [DOMAIN Iseqs -> 0 .. 3] : Nested(level)
  /\ \E i \in DOMAIN Iseqs : TypeOf(i) = "TOP"

\* The code around other code, which a class body always has, is never part of that.
\* klass: it is a method, made by def or, of a block, by define_method.
ASSUME IseqsAssumption ==
  /\ IsFiniteSet(DOMAIN Iseqs) /\ "plain" \notin DOMAIN Iseqs
  /\ \A i \in DOMAIN Iseqs :
       /\ Iseqs[i].parent \in DOMAIN Iseqs \cup {None}
       /\ TypeOf(i) = "CLASS" => Iseqs[i].parent # None
       /\ Iseqs[i].klass \in BOOLEAN
       /\ Iseqs[i].klass => TypeOf(i) \in {"METHOD", "BLOCK"}
  /\ \A within \in SUBSET DOMAIN Iseqs :
       within # {} => \E i \in within : Iseqs[i].parent \notin within

\* super names the frame of its method by its number, and nil is none of them.
ASSUME NumbersAssumption == None \notin Nat

\* A frame: what kind it is, what it runs, where it is (at no call, at a call, or at
\* the call with this block written at it), its variables, and if a block runs as a
\* method of define_method (cfp->me).
Frame(type, iseq, dfp, lfp) ==
  [type |-> type, iseq |-> iseq, site |-> None, dfp |-> dfp, lfp |-> lfp, me |-> FALSE]
Running(t) == frames[t] # <<>>
Top(t) == frames[t][Len(frames[t])]

\* rb_block_t: code and the variables it was written in.  It is part of the frame
\* it was written in, until a Proc is made.
LiteralBlock(f, iseq) ==
  [iseq |-> iseq, dfp |-> f.dfp, lfp |-> f.lfp, made |-> FALSE, lambda |-> FALSE]

prev(d) == vars_at[d].prev
Up(mem, ds) == ds \cup ({mem[d].prev : d \in ds} \ {None})
\* As far up as code is nested.
ChainIn(mem, ds) == Up(mem, Up(mem, Up(mem, ds)))
Chain(d) == ChainIn(vars_at, {d})

\* The places of a stack, and those in the heap that a Proc or a frame can reach.
PlacesOf(stacks) == UNION {{stacks[t][k].dfp : k \in 1 .. Len(stacks[t])} : t \in Threads}
Reached(stacks, ps, mem) ==
  {d \in ChainIn(mem, PlacesOf(stacks) \cup {p.dfp : p \in ps}) : mem[d].heap}
OnStacks == PlacesOf(frames)
Free == {d \in Places : d \notin OnStacks /\ ~vars_at[d].heap}

\* What is left in a place that is free does not matter, for a frame is given nils.
NoLocal == [lfp |-> None, svar |-> "nil"]
Nothing == [prev |-> None, block |-> None, svar |-> "nil", heap |-> FALSE]

\* The stacks, the Procs and the variables after a step, with free places emptied.
Becomes(stacks, ps, mem) ==
  LET live == PlacesOf(stacks) \cup Reached(stacks, ps, mem)
      ended == {t \in Threads : stacks[t] = <<>>}
  IN /\ frames' = stacks
     /\ procs' = ps
     /\ vars_at' = [d \in Places |-> IF d \in live THEN mem[d] ELSE Nothing]
     /\ written' = [o \in Threads \cup Places |->
                      IF o \in ended \cup (Places \ live) THEN "nil" ELSE written[o]]
     /\ local' = [t \in Threads |->
                    IF stacks[t] = <<>> THEN NoLocal
                    ELSE IF frames[t] # <<>> THEN local[t]
                    ELSE [lfp |-> stacks[t][1].lfp, svar |-> "nil"]]

Init ==
  LET d == CHOOSE e \in Places : TRUE
      top == CHOOSE i \in DOMAIN Iseqs : TypeOf(i) = "TOP"
  IN /\ frames = [t \in Threads |-> IF t = Main THEN <<Frame("TOP", top, d, d)>> ELSE <<>>]
     /\ vars_at = [e \in Places |-> Nothing]
     /\ procs = {}
     /\ local = [t \in Threads |-> NoLocal]
     /\ written = [o \in Threads \cup Places |-> "nil"]

-----------------------------------------------------------------------------
(* Pushing and popping.                                                    *)

\* The variables of a new frame: nils, and the special value, which is the block of
\* a method and the variables around a block.
Variables(lfp, specval) ==
  IF lfp = None
  THEN [Nothing EXCEPT !.block = specval]
  ELSE [Nothing EXCEPT !.prev = specval]

\* vm_push_frame on what is left of the stack.
PushFrame(t, below, frame, specval, lfp) ==
  LET d == CHOOSE e \in Free : TRUE
      home == IF lfp = None THEN d ELSE lfp
  IN /\ Cardinality(OnStacks) - Len(frames[t]) + Len(below) < MaxFrames
     /\ Len(below) < Room[t] /\ Free # {}
     /\ Becomes([frames EXCEPT ![t] = Append(below, [frame EXCEPT !.dfp = d, !.lfp = home])],
                procs, [vars_at EXCEPT ![d] = Variables(lfp, specval)])

vm_push_frame(t, below, type, iseq, specval, lfp) ==
  PushFrame(t, below, Frame(type, iseq, None, None), specval, lfp)

\* The frames of a thread, with the running one at a call.
At(t, site) == [frames[t] EXCEPT ![Len(frames[t])].site = site]

\* The first n frames, the last of them running again.
Back(t, n) == [k \in 1 .. n |-> IF k = n THEN [frames[t][k] EXCEPT !.site = None]
                                ELSE frames[t][k]]

\* vm_pop_frame
Popped(t) == [frames EXCEPT ![t] = Back(t, Len(frames[t]) - 1)]

InCode(t) == Running(t) /\ Top(t).type # "CFUNC"
InCfunc(t) == Running(t) /\ Top(t).type = "CFUNC"

Leave(t) ==
  /\ Running(t)
  /\ t = Main => Len(frames[t]) > 1
  /\ Becomes(Popped(t), procs, vars_at)

-----------------------------------------------------------------------------
(* Calls.  A block is written at the call, or a Proc is passed with &.     *)

Literals(t) == {LiteralBlock(Top(t), b) : b \in Within(Top(t).iseq, "BLOCK")}
Given(t) == {None} \cup Literals(t) \cup procs
SiteOf(t, block) == IF block \in Literals(t) THEN block.iseq ELSE "plain"

\* vm_setup_method
CallMethod(t) ==
  /\ InCode(t)
  /\ \E m \in {i \in DOMAIN Iseqs : TypeOf(i) = "METHOD"}, block \in Given(t) :
       vm_push_frame(t, At(t, SiteOf(t, block)), "METHOD", m, block, None)

\* vm_setup_method, for a call in the place of the caller: only methods and blocks
\* are compiled to that, and only where no block is written at the call.
TailCall(t) ==
  /\ InCode(t) /\ TypeOf(Top(t).iseq) \in {"METHOD", "BLOCK"}
  /\ \E m \in {i \in DOMAIN Iseqs : TypeOf(i) = "METHOD"}, block \in {None} \cup procs :
       vm_push_frame(t, SubSeq(frames[t], 1, Len(frames[t]) - 1), "METHOD", m, block, None)

\* vm_call_cfunc, up to the C function.  Without a block it would just return, and
\* with a Proc it would do what CallProc does.
CallCfunc(t) ==
  /\ InCode(t)
  /\ \E block \in Literals(t) :
       vm_push_frame(t, At(t, SiteOf(t, block)), "CFUNC", None, block, None)

\* defineclass (insns.def), which hands on the block of the method around it.
DefineClass(t) ==
  /\ InCode(t)
  /\ \E c \in Within(Top(t).iseq, "CLASS") :
       vm_push_frame(t, At(t, "plain"), "CLASS", c, vars_at[Top(t).lfp].block, None)

-----------------------------------------------------------------------------
(* Blocks.                                                                 *)

\* The frame of a block: its variables hang below those it was written in.
YieldsToBlock(t, block) ==
  vm_push_frame(t, At(t, "plain"), "BLOCK", block.iseq, block.dfp, block.lfp)

\* yield: the block of the method around it, even for a lambda.
vm_invoke_block(t) ==
  /\ InCode(t)
  /\ TypeOf(local_iseq[Top(t).iseq]) \in {"METHOD", "CLASS"}
  /\ LET block == vars_at[Top(t).lfp].block
     IN block # None /\ YieldsToBlock(t, block)

\* A C function yields, or a Proc is called (rb_vm_invoke_proc).
Invoke(t, block) ==
  vm_push_frame(t, At(t, "plain"), IF block.lambda THEN "LAMBDA" ELSE "BLOCK",
                block.iseq, block.dfp, block.lfp)

CfuncYields(t) ==
  InCfunc(t) /\ vars_at[Top(t).lfp].block # None /\ Invoke(t, vars_at[Top(t).lfp].block)

CallProc(t) == InCode(t) /\ \E p \in procs : Invoke(t, p)

\* vm_call_bmethod: a method that define_method made of a lambda's block.
CallBmethod(t) ==
  /\ InCode(t)
  /\ \E p \in procs :
       /\ p.lambda /\ Iseqs[p.iseq].klass
       /\ PushFrame(t, At(t, "plain"), [Frame("LAMBDA", p.iseq, None, None) EXCEPT !.me = TRUE],
                    p.dfp, p.lfp)

\* Faulty, for the mutants: only the block's own method.
HomesOnly(lfp) == {lfp}

\* A method's variables, those of the method its block was written in, and so on.
Homes(lfp) ==
  LET closed == {H \in SUBSET Places : /\ lfp \in H
                                      /\ \A h \in H : vars_at[h].block # None
                                                        => vars_at[h].block.lfp \in H}
  IN {h \in Places : \A H \in closed : h \in H}

\* proc, lambda, and Thread.new: a Proc is made of the block of a C function.  The
\* variables it hangs below go to the heap, and the blocks of methods among them
\* are made Procs as well.
MakeProc(t) ==
  /\ InCfunc(t)
  /\ LET block == vars_at[Top(t).lfp].block
         around == Chain(block.dfp)
         homes == Homes(block.lfp)
         outer == {[vars_at[h].block EXCEPT !.made = TRUE] :
                     h \in {g \in homes : vars_at[g].block # None}}
         mem == [d \in Places |->
           [vars_at[d] EXCEPT
              !.heap = @ \/ d \in around \cup UNION {Chain(b.dfp) : b \in outer},
              !.block = IF d \in homes /\ @ # None THEN [@ EXCEPT !.made = TRUE] ELSE @]]
     IN /\ block # None /\ ~block.made
        /\ \E lambda \in BOOLEAN :
             LET ps == procs \cup outer \cup {[block EXCEPT !.made = TRUE, !.lambda = lambda]}
             IN Cardinality(ps \ outer) <= MaxProcs /\ Becomes(Popped(t), ps, mem)

\* The program forgets a Proc that is not the block of a method any more.
Forget(p) ==
  /\ \A d \in ChainIn(vars_at, OnStacks \cup {q.dfp : q \in procs \ {p}}) : vars_at[d].block # p
  /\ Becomes(frames, procs \ {p}, vars_at)

\* A thread is started with a Proc.
ThreadStart(t) ==
  /\ t # Main /\ ~Running(t)
  /\ \E p \in procs :
       vm_push_frame(t, <<>>, IF p.lambda THEN "LAMBDA" ELSE "BLOCK", p.iseq, p.dfp, p.lfp)

-----------------------------------------------------------------------------
(* vm_throw: where break, return and retry go.  The answer is the          *)
(* variables of the frame to unwind to (the catch point) and the state to  *)
(* go on with, or LocalJumpError.                                          *)

Error == [pt |-> None, state |-> "LocalJumpError"]
Goto(pt, state) == [pt |-> pt, state |-> state]

\* The uppermost of the first k frames that has these variables, or 0.
FrameOf(s, k, d) ==
  LET with == {j \in 1 .. k : s[j].dfp = d}
  IN IF with = {} THEN 0 ELSE CHOOSE j \in with : \A i \in with : i <= j

\* search_parent: out of rescue clauses and class bodies to the block.
BreaksFrom(s) ==
  LET search[k \in 0 .. Len(s)] ==
        CASE k = 0 -> 0
          [] k > 0 /\ TypeOf(s[k].iseq) = "BLOCK" -> k
          [] k > 0 /\ TypeOf(s[k].iseq) = "CLASS" -> search[k - 1]
          [] OTHER -> search[FrameOf(s, k, prev(s[k].dfp))]
  IN search[Len(s)]

\* Faulty, for the mutants: the frame need not be at a call with a block.
BreakAnywhere(s) ==
  LET k == BreaksFrom(s)
      j == FrameOf(s, k, prev(s[k].dfp))
  IN IF s[k].type = "LAMBDA" THEN Goto(s[k].dfp, "RETURN")
     ELSE IF j = 0 THEN Error ELSE Goto(s[j].dfp, "BREAK")

\* The frame the block was written in, if it is at a call a block is written at:
\* the catch table has an entry for each such call, which ends at epc.
throw_break(s) ==
  LET k == BreaksFrom(s)
      j == FrameOf(s, k, prev(s[k].dfp))
  IN IF s[k].type = "LAMBDA" THEN Goto(s[k].dfp, "RETURN")
     ELSE IF j = 0 \/ s[j].site \in {None, "plain"} THEN Error ELSE Goto(s[j].dfp, "BREAK")

throw_retry(s) == Goto(prev(s[Len(s)].dfp), "RETRY")

\* Down the stack, for the frame of the method or of a lambda around the code.
\* Below a class body it is any lambda of the method around that.
\* Without the test for that (1.9.2) the chain of a class body ends in nowhere.
ReturnsTo(s, in_class_counts) ==
  LET around == Chain(s[Len(s)].dfp)
      down[at \in [k : 0 .. Len(s), lfp : Places \cup {None}, in_class : BOOLEAN]] ==
        IF at.k = 0 THEN Error
        ELSE LET f == s[at.k]
                 l == IF at.lfp = None THEN f.lfp ELSE at.lfp
                 class == f.dfp = l /\ f.iseq # None /\ TypeOf(f.iseq) = "CLASS"
                 lambda == f.lfp = l /\ f.type = "LAMBDA" /\ ~class
                 method == f.dfp = l /\ f.type = "METHOD" /\ ~class
             IN CASE lambda /\ at.in_class ->
                       IF in_class_counts THEN Goto(f.dfp, "RETURN") ELSE Goto(None, "fault")
                  [] lambda /\ ~at.in_class /\ f.dfp \in around -> Goto(f.dfp, "RETURN")
                  [] method -> Goto(l, "RETURN")
                  [] OTHER -> down[[k |-> at.k - 1, lfp |-> IF class THEN None ELSE l,
                                    in_class |-> at.in_class \/ class]]
  IN down[[k |-> Len(s), lfp |-> s[Len(s)].lfp, in_class |-> FALSE]]

\* Faulty, for the mutants: the method is taken to run still.
ReturnUnchecked(s) == Goto(s[Len(s)].lfp, "RETURN")

throw_return_192(s) == ReturnsTo(s, FALSE)
throw_return(s) == ReturnsTo(s, TRUE)

\* What an instruction sequence can contain (compile.c): break in a block,
\* through rescue clauses and class bodies; retry in a rescue clause; return out of
\* anything but a method, which returns without a throw.
CanBreak(iseq) ==
  LET in[i \in DOMAIN Iseqs] ==
        TypeOf(i) = "BLOCK" \/ (TypeOf(i) \in {"RESCUE", "CLASS"} /\ in[Iseqs[i].parent])
  IN in[iseq]
CanRetry(iseq) == TypeOf(iseq) = "RESCUE"
CanReturn(iseq) == TypeOf(iseq) \in {"BLOCK", "RESCUE", "CLASS"}

Throws(s) ==
  LET iseq == s[Len(s)].iseq
  IN (IF CanBreak(iseq) THEN {throw_break(s)} ELSE {})
       \cup (IF CanRetry(iseq) THEN {throw_retry(s)} ELSE {})
       \cup (IF CanReturn(iseq) THEN {throw_return(s)} ELSE {})

\* vm_exec unwinds to the frame of the catch point; a return leaves that as well.
Unwind(t, thrown) ==
  LET j == FrameOf(frames[t], Len(frames[t]), thrown.pt)
      n == IF thrown.state = "RETURN" THEN j - 1 ELSE j
  IN /\ t = Main => n > 0
     /\ Becomes([frames EXCEPT ![t] = Back(t, n)], procs, vars_at)

\* An exception, of a C function, of the code, or of a step that the VM refuses (a
\* yield without a block, a stack that is full): to a rescue clause of any frame that
\* has one, whose frame is that of a block there; without one the thread ends.
Raise(t) ==
  /\ Running(t)
  /\ \E k \in 1 .. Len(frames[t]) :
       LET f == frames[t][k]
       IN /\ f.iseq # None
          /\ \E r \in Within(f.iseq, "RESCUE") :
               vm_push_frame(t, Back(t, k), "BLOCK", r, f.dfp, f.lfp)

vm_throw(t) ==
  /\ InCode(t)
  /\ \E thrown \in Throws(frames[t]) :
       IF thrown = Error THEN Raise(t) ELSE Unwind(t, thrown)

-----------------------------------------------------------------------------
(* super                                                                   *)

\* Out of the blocks, down the stack, to the frame that runs iseq.
AroundOf(s, iseq) ==
  LET out[k \in 0 .. Len(s)] ==
        IF k = 0 \/ s[k].iseq = iseq THEN k ELSE out[FrameOf(s, k - 1, prev(s[k].dfp))]
  IN out[Len(s)]

\* The code around that is a method, by def or by define_method.
MethodCode(iseq) ==
  LET out[i \in DOMAIN Iseqs] ==
        IF Iseqs[i].klass \/ Iseqs[i].parent = None THEN i ELSE out[Iseqs[i].parent]
  IN out[iseq]

\* Faulty, for the mutants: without the measure for [Bug #2420].
SuperAnyway(s, zsuper) ==
  LET iseq == MethodCode(s[Len(s)].iseq)
  IN CASE ~Iseqs[iseq].klass -> None
       [] Iseqs[iseq].klass /\ iseq = local_iseq[iseq] -> 0
       [] Iseqs[iseq].klass /\ iseq # local_iseq[iseq] ->
            IF AroundOf(s, iseq) = 0 THEN None ELSE AroundOf(s, iseq)

\* vm_search_superclass: the frame of the method that super is called in, 0 for
\* one that def made (its iseq knows the class), None when there is none.
vm_search_superclass(s, zsuper) ==
  LET iseq == MethodCode(s[Len(s)].iseq)
      k == AroundOf(s, iseq)
  IN CASE ~Iseqs[iseq].klass -> None
       [] Iseqs[iseq].klass /\ iseq = local_iseq[iseq] -> 0
       [] Iseqs[iseq].klass /\ iseq # local_iseq[iseq] ->
            IF zsuper \/ k = 0 THEN None ELSE IF s[k].me THEN k ELSE None

-----------------------------------------------------------------------------
(* $~ and $_                                                               *)

\* lfp_svar_place: with the variables of the method, but for a thread that was
\* started with a block of that method.
NeverOwn(t, lfp) == FALSE   \* faulty, for the mutants
OwnPlace(t, lfp) == local[t].lfp = lfp
lfp_svar_get(t, lfp) == IF OwnPlace(t, lfp) THEN local[t].svar ELSE vars_at[lfp].svar

lfp_svar_set(t, lfp, value) ==
  IF OwnPlace(t, lfp)
  THEN local' = [local EXCEPT ![t].svar = value] /\ UNCHANGED vars_at
  ELSE vars_at' = [vars_at EXCEPT ![lfp].svar = value] /\ UNCHANGED local

\* $~ itself, or a part of it ($&, $1 and so on), of which there is none without a match.
Parts == {"whole", "part"}
vm_getspecial(t, lfp, part) ==
  CASE part = "whole" -> lfp_svar_get(t, lfp)
    [] part = "part" -> IF lfp_svar_get(t, lfp) = "nil" THEN "nil" ELSE "part of the match"

\* Who shares: the method, its blocks and those of their Procs that run in threads
\* which were not started with one.
Sharing(t, lfp) == IF t # Main /\ local[t].lfp = lfp THEN t ELSE lfp

\* Bound: only methods and their blocks match, and one value is there at a time.
SetSpecial(t) ==
  /\ InCode(t) /\ TypeOf(local_iseq[Top(t).iseq]) = "METHOD"
  /\ \A o \in DOMAIN written : written[o] = "nil"
  /\ lfp_svar_set(t, Top(t).lfp, "match")
  /\ written' = [written EXCEPT ![Sharing(t, Top(t).lfp)] = "match"]
  /\ UNCHANGED <<frames, procs>>

-----------------------------------------------------------------------------
Step(t) ==
  \/ CallMethod(t) \/ TailCall(t) \/ CallCfunc(t) \/ DefineClass(t) \/ Leave(t)
  \/ vm_invoke_block(t) \/ CfuncYields(t) \/ CallProc(t) \/ CallBmethod(t) \/ MakeProc(t) \/ ThreadStart(t)
  \/ vm_throw(t) \/ Raise(t) \/ SetSpecial(t)

Next == (\E t \in Threads : Step(t)) \/ (\E p \in procs : Forget(p))

Spec == Init /\ [][Next]_vars

-----------------------------------------------------------------------------
\* No pointer outlives what it points to: the variables a frame, a Proc or the block
\* of a running method reaches are those of a frame on a stack, or in the heap;
\* and a block that no Proc was made of is part of a frame further down the stack.
PointersAreLive ==
  /\ \A t \in Threads : \A k \in 1 .. Len(frames[t]) :
       LET f == frames[t][k]
           block == vars_at[f.lfp].block
       IN /\ \A d \in Chain(f.dfp) \cup {f.lfp} : d \in OnStacks \/ vars_at[d].heap
          /\ f.lfp \in Chain(f.dfp)
          /\ block # None =>
               \/ block.made /\ \E p \in procs : p.dfp = block.dfp /\ p.iseq = block.iseq
               \/ \E j \in 1 .. k - 1 : frames[t][j].dfp = block.dfp /\ frames[t][j].site # None
  /\ \A p \in procs : \A d \in Chain(p.dfp) : vars_at[d].heap

\* Whatever break, return and retry answer, unwinding ends there: it is a frame of
\* this thread, and not the C function's.
ThrowsLand ==
  \A t \in Threads : InCode(t) =>
    \A thrown \in Throws(frames[t]) : thrown # Error =>
      LET k == FrameOf(frames[t], Len(frames[t]), thrown.pt)
      IN k > 0 /\ frames[t][k].type # "CFUNC"

\* return leaves the innermost lambda or method around it that still runs on this
\* stack, and there is an error if there is none.  Out of a class body it goes on in
\* the code around that (where the 1.9.2 code faults): it leaves what is further down,
\* never beyond the innermost lambda or method around the class that still runs.
ReturnIsLexical ==
  \A t \in Threads : InCode(t) /\ CanReturn(Top(t).iseq) =>
    LET s == frames[t]
        Goals(n) == {k \in 1 .. n : /\ s[k].dfp \in Chain(s[n].dfp)
                                   /\ s[k].type \in {"LAMBDA", "METHOD"}}
        classes == {k \in 1 .. Len(s) : s[k].dfp \in Chain(Top(t).dfp) /\ s[k].type = "CLASS"}
        got == throw_return(s)
        Leaves(k) == got = Goto(s[k].dfp, "RETURN")
    IN /\ \A k \in Goals(Len(s)) : (\A j \in Goals(Len(s)) : j <= k) => Leaves(k)
       /\ Goals(Len(s)) # {} \/ classes = {} => throw_return_192(s) = got
       /\ Goals(Len(s)) = {} /\ classes = {} => got = Error
       /\ Goals(Len(s)) = {} => \A c \in classes :
            /\ got # Error => \E k \in 1 .. c - 1 : Leaves(k) /\ s[k].type \in {"LAMBDA", "METHOD"}
            /\ \A g \in Goals(c - 1) : \E k \in g .. c - 1 : Leaves(k) /\ s[k].lfp = s[c - 1].lfp

\* break ends a call that is going on: that of the lambda it is in, or the one that
\* the activation its block was written in is at, if a block is written there; and it
\* is an error exactly when that activation is at no such call, or has ended.  (The
\* code does not ask if it is the same block.)
BreakEndsItsCall ==
  \A t \in Threads : InCode(t) /\ CanBreak(Top(t).iseq) =>
    LET s == frames[t]
        k == BreaksFrom(s)
        creator == prev(s[k].dfp)
        got == throw_break(s)
    IN IF s[k].type = "LAMBDA" THEN got = Goto(s[k].dfp, "RETURN")
       ELSE /\ got # Error => got.pt = creator
            /\ got # Error <=>
                 \E j \in 1 .. Len(s) : /\ s[j].dfp = creator
                                        /\ s[j].site \in DOMAIN Iseqs

\* super in a method of define_method goes by the activation of that method around
\* the code, however often it runs on this stack.  Whenever all that is around the
\* code still runs it finds it, unless the lambda was called as a plain one.
SuperIsOfTheMethod ==
  \A t \in Threads : InCode(t) =>
    LET s == frames[t]
        around == Chain(Top(t).dfp)
        methods == {k \in 1 .. Len(s) : s[k].dfp \in around /\ Iseqs[s[k].iseq].klass}
        got == vm_search_superclass(s, FALSE)
    IN /\ got \in 1 .. Len(s) => got \in methods /\ s[got].me /\ \A k \in methods : k <= got
       /\ \A k \in methods :
            (\A d \in around : \E j \in 1 .. Len(s) : s[j].dfp = d) /\ (\A j \in methods : j <= k)
              => got = IF s[k].type = "METHOD" THEN 0 ELSE IF s[k].me THEN k ELSE None

\* $~ is what this activation of the method last wrote, or its blocks did, in
\* whatever place its variables are, and no one else; its parts are of that match.
SpecialsAreOfTheMethod ==
  \A t \in Threads, part \in Parts : InCode(t) =>
    vm_getspecial(t, Top(t).lfp, part) =
      IF written[Sharing(t, Top(t).lfp)] = "nil" THEN "nil"
      ELSE IF part = "whole" THEN "match" ELSE "part of the match"
=============================================================================
