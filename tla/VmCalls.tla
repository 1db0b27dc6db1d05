------------------------------ MODULE VmCalls ------------------------------
(***************************************************************************)
(* ruby_source/<version>/vm_insnhelper.c: a call, from the operand stack   *)
(* the caller has filled to the body that runs.  caller_setup_args takes   *)
(* the block argument and spreads the splat; vm_call_method then goes      *)
(* round its dispatch loop (send takes its first argument as the name, an  *)
(* entry that only changes the visibility climbs to the superclass) until  *)
(* a body is found, a method_missing is, or an error.  yield has no loop.  *)
(*                                                                         *)
(* A call is chosen in the initial state.                                  *)
(***************************************************************************)
EXTENDS VmArguments

CONSTANTS
  Calls,     \* a sequence of sets of calls, the calls to be made
  Depth,     \* classes on the way from the receiver's class to the root
  SafeLevel, \* $SAFE of the thread
  None       \* no method entry, no outcome yet

ASSUME DepthAssumption == Depth \in Nat \ {0} /\ SafeLevel \in Nat

\* A record with the fields of another one besides.
With(record, more) ==
  [x \in DOMAIN record \cup DOMAIN more |-> IF x \in DOMAIN record THEN record[x] ELSE more[x]]

IsList(seq) == seq \in Seq({seq[i] : i \in DOMAIN seq})

\* An array can be spread on the stack.
Fits(v) == IsArray(v) => IsList(v[2]) /\ Len(v[2]) <= MaxArgs

Name(m) == <<"name", m>>
AreNames(seq) == \A i \in DOMAIN seq : seq[i][1] = "name" => seq[i] = Name(seq[i][2])

\* A method entry, and where it was found (me->klass).
Types == {"ISEQ", "CFUNC", "NOTIMPLEMENTED", "ATTRSET", "IVAR", "MISSING", "BMETHOD", "CALL", "ZSUPER"}
Of(entry, class) == With(entry, [klass |-> class])
IsEntry(entry) ==
  /\ {"type", "vis", "safe", "iclass"} \subseteq DOMAIN entry /\ "klass" \notin DOMAIN entry
  /\ entry.type \in Types /\ entry.vis \in {"public", "private", "protected"}
  /\ entry.safe \in Nat /\ entry.iclass \in BOOLEAN
  /\ entry.type = "ISEQ" => "params" \in DOMAIN entry /\ IsParams(entry.params)
  /\ entry.type \in {"CFUNC", "NOTIMPLEMENTED"} => "arity" \in DOMAIN entry /\ entry.arity \in Int

\* Kernel#send.
Send == [type |-> "SEND", vis |-> "public", safe |-> 0, iclass |-> FALSE]

\* A call: kind "call" (a method, by its id), "yield", "lambda" (a call of a Proc
\* that is one), "ifunc" (a block written in C) or "assign".  A lone name (VCALL) and
\* super are calls without a receiver (FCALL); a class is its distance from the
\* receiver's class, the root is Depth, and methods[k] is the entry class k has for
\* the name "foo".
IsCall(c) ==
  /\ c.kind \in {"call", "yield", "lambda", "ifunc", "assign"}
  /\ c.flag \subseteq {"FCALL", "VCALL", "SUPER", "SPLAT", "TAILCALL"}
  /\ c.flag \cap {"VCALL", "SUPER"} # {} => "FCALL" \in c.flag
  /\ IsList(c.args) /\ Len(c.args) <= MaxArgs
  /\ \A i \in DOMAIN c.args :
       /\ Fits(c.args[i])
       /\ IsArray(c.args[i]) => \A j \in DOMAIN c.args[i][2] : Fits(c.args[i][2][j])
  /\ AreNames(c.args) /\ \A i \in DOMAIN c.args : IsArray(c.args[i]) => AreNames(c.args[i][2])
  /\ "SPLAT" \in c.flag /\ c.kind # "assign" => c.args # <<>>
  /\ c.blockarg \in {"none", "literal", "nil", "proc", "convertible", "other"}
  /\ c.kind # "call" => c.blockarg # "other"
  /\ DOMAIN c.methods = 1 .. Depth
  /\ \A k \in 1 .. Depth :
       c.methods[k] # None => IsEntry(c.methods[k]) /\ Of(c.methods[k], k) # None
  /\ {c.self_includes, c.self_inherits} \subseteq BOOLEAN /\ c.version \in {"1.9.2", "1.9.3"}
  /\ c.kind \in {"yield", "lambda"} => IsParams(c.params)
  /\ c.kind = "ifunc" => c.lambda \in BOOLEAN
  /\ c.kind = "assign" => c.num \in Nat /\ c.post \in BOOLEAN

ASSUME CallsAssumption ==
  /\ \A i \in DOMAIN Calls : \A c \in Calls[i] : IsCall(c)
  /\ Of(Send, Depth) # None
VARIABLES
  call,
  pc,           \* "setup", "start", "normal" or "done"
  stack,        \* the operand stack from the receiver up, the last one on top
  num,          \* how many of the topmost are arguments
  block,        \* "none", "literal" or "given"
  id, flag, me, \* the locals of vm_call_method
  passed_block, \* th->passed_block
  outcome       \* what the call came to, or None

registers == <<stack, num, block, id, flag, me, passed_block>>
vars == <<call, pc, registers, outcome>>

-----------------------------------------------------------------------------
(* Methods.                                                                *)

Recv == <<"recv">>

\* rb_method_entry(klass, id): the first entry on the way up, with its class.
rb_method_entry(methods, klass, m) ==
  LET found == {k \in klass .. Depth : methods[k] # None}
      first == CHOOSE k \in found : \A j \in found : k <= j
  IN CASE m = "send" -> Of(Send, Depth)
       [] m = "foo" /\ found # {} -> Of(methods[first], first)
       [] OTHER -> None

\* me->flag, which has the visibility and the safe level of the definition.
Unflagged(entry) == entry.vis = "public" /\ entry.safe = 0

Top(n) == SubSeq(stack, Len(stack) - n + 1, Len(stack))
Pop(n) == stack' = SubSeq(stack, 1, Len(stack) - n)

Finish(got) == pc' = "done" /\ outcome' = got

-----------------------------------------------------------------------------
Init ==
  /\ \E i \in DOMAIN Calls : call \in Calls[i]
  /\ pc = "setup"
  /\ stack = (IF call.kind = "call" THEN <<Recv>> ELSE <<>>) \o call.args
  /\ num = Len(call.args)
  /\ block = "none"
  /\ id = call.id
  /\ flag = call.flag
  /\ me = None
  /\ passed_block = "none"
  /\ outcome = None

\* The instructions send and invokesuper: the arguments, then the method entry,
\* for super from the superclass of the class of the method.
SetupSend ==
  /\ pc = "setup" /\ call.kind = "call"
  /\ \E c \in {caller_setup_args(call.args, "SPLAT" \in flag, call.blockarg)} :
        IF c.kind # "args"
        THEN Finish(c) /\ UNCHANGED registers
        ELSE /\ pc' = "start"
             /\ stack' = <<Recv>> \o c.args
             /\ num' = Len(c.args)
             /\ block' = c.block
             /\ me' = rb_method_entry(call.methods, IF "SUPER" \in flag THEN 2 ELSE 1, id)
             /\ UNCHANGED <<id, flag, passed_block, outcome>>
  /\ UNCHANGED call

-----------------------------------------------------------------------------
(* vm_call_method, from start_method_dispatch.                             *)

\* vm_method_missing: the receiver's method_missing is called with the name in
\* the place of the receiver.
vm_method_missing(reasons) ==
  /\ Pop(num + 1)
  /\ passed_block' = block
  /\ Finish([kind |-> "method_missing", args |-> <<Name(id)>> \o Top(num),
             reasons |-> reasons, block |-> block])
  /\ UNCHANGED <<call, num, block, id, flag, me>>

\* There is no method.  A missing method_missing is an error of its own.
NoMethod ==
  /\ pc = "start" /\ me = None
  /\ LET reasons == flag \cap {"VCALL", "SUPER"}
     IN IF id # "method_missing" THEN vm_method_missing(reasons)
        ELSE /\ Pop(num)
             /\ passed_block' = "none"
             /\ Finish([kind |-> "NoMethodError", args |-> Top(num), reasons |-> reasons])
             /\ UNCHANGED <<call, num, block, id, flag, me>>

\* rb_obj_is_kind_of(cfp->self, defined_class): of a module it is the module,
\* not the class that stands for it on the way up.
Related(entry) == IF entry.iclass THEN call.self_includes ELSE call.self_inherits

Private == me.vis = "private" /\ "FCALL" \notin flag
Protected == me.vis = "protected" /\ "OPT_SEND" \notin flag /\ ~Related(me)
Insecure == me.safe > SafeLevel /\ me.safe > 2

\* The method is there, and is judged by how it is called.
Refuse ==
  /\ pc = "start" /\ me # None
  /\ \/ /\ Private
        /\ vm_method_missing({"PRIVATE"} \cup (flag \cap {"VCALL"}))
     \/ /\ ~Private /\ Protected
        /\ vm_method_missing({"PROTECTED"})
     \/ /\ ~Private
        /\ me.vis = "protected" => "OPT_SEND" \in flag
        /\ Insecure
        /\ Finish([kind |-> "SecurityError"])
        /\ UNCHANGED <<call, registers>>

Accept ==
  /\ pc = "start" /\ me # None
  /\ \/ Unflagged(me)
     \/ /\ ~Private
        /\ IF me.vis = "protected" /\ "OPT_SEND" \notin flag
           THEN Related(me) ELSE ~Insecure
  /\ pc' = "normal"
  /\ UNCHANGED <<call, registers, outcome>>

-----------------------------------------------------------------------------
(* normal_method_dispatch, by the type of the entry.                       *)

Dispatch(type) == pc = "normal" /\ me.type = type /\ UNCHANGED <<call, num, block, id, flag, me>>

\* vm_setup_method.  A tail call takes the frame of its caller, cells and all.
vm_setup_method ==
  /\ Dispatch("ISEQ")
  /\ \E got \in {vm_callee_setup_arg(Iseq(me.params), num, StackOf(Top(num)), block)} :
        /\ IF got.kind # "bound" THEN stack' = stack
           ELSE IF "TAILCALL" \in flag THEN stack' = <<>> ELSE Pop(num + 1)
        /\ Finish(IF got.kind # "bound" THEN got
                  ELSE With(got, [block |-> block, replaces |-> "TAILCALL" \in flag]))
  /\ UNCHANGED passed_block

\* vm_call_cfunc: the arguments are read below the stack pointer.
vm_call_cfunc ==
  /\ Dispatch("CFUNC") \/ Dispatch("NOTIMPLEMENTED")
  /\ Pop(num + 1)
  /\ LET got == call_cfunc(me.arity, Top(num))
     IN Finish(IF got.kind = "cfunc" THEN With(got, [block |-> block]) ELSE got)
  /\ UNCHANGED passed_block

\* attr_writer and attr_reader.
Attribute ==
  /\ \/ /\ Dispatch("ATTRSET")
        /\ IF num # 1 THEN Finish(argument_error(num, 1)) /\ stack' = stack
           ELSE Finish([kind |-> "ivar_set", args |-> Top(1)]) /\ Pop(2)
     \/ /\ Dispatch("IVAR")
        /\ IF num # 0 THEN Finish(argument_error(num, 0)) /\ stack' = stack
           ELSE Finish([kind |-> "ivar_get", args |-> <<>>]) /\ Pop(1)
  /\ UNCHANGED passed_block

\* A method that stands for method_missing.  Only 1.9.3 passes the block on.
Missing192 == UNCHANGED passed_block
Missing193 == passed_block' = block

CallMissing ==
  /\ Dispatch("MISSING")
  /\ Pop(num + 1)
  /\ IF call.version = "1.9.3" THEN Missing193 ELSE Missing192
  /\ Finish([kind |-> "method_missing", args |-> <<Name("foo")>> \o Top(num),
             reasons |-> {}, block |-> passed_block'])

\* define_method, and Proc#call: rb_vm_invoke_proc.
vm_call_bmethod ==
  /\ Dispatch("BMETHOD")
  /\ Pop(num + 1)
  /\ Finish([kind |-> "proc", args |-> Top(num), block |-> block, self |-> "recv"])
  /\ UNCHANGED passed_block

CallProc ==
  /\ Dispatch("CALL")
  /\ Pop(num + 1)
  /\ Finish([kind |-> "proc", args |-> Top(num), block |-> block, self |-> "home"])
  /\ UNCHANGED passed_block

\* Faulty, for the mutants: the entry is looked up where it was found.
ZsuperHere ==
  /\ pc = "normal" /\ me.type = "ZSUPER"
  /\ me' = rb_method_entry(call.methods, me.klass, id)
  /\ pc' = IF me' = None THEN "start" ELSE "normal"
  /\ UNCHANGED <<call, stack, num, block, id, flag, passed_block, outcome>>

\* Faulty, for the mutants: the entry of the superclass is judged again.
ZsuperJudged ==
  /\ pc = "normal" /\ me.type = "ZSUPER"
  /\ me' = rb_method_entry(call.methods, me.klass + 1, id)
  /\ pc' = "start"
  /\ UNCHANGED <<call, stack, num, block, id, flag, passed_block, outcome>>

\* An entry that only changes the visibility: the superclass has the body, and
\* its visibility does not count.
Zsuper ==
  /\ pc = "normal" /\ me.type = "ZSUPER"
  /\ me' = rb_method_entry(call.methods, me.klass + 1, id)
  /\ pc' = IF me' = None THEN "start" ELSE "normal"
  /\ UNCHANGED <<call, stack, num, block, id, flag, passed_block, outcome>>

\* The stack without its n-th cell from the top (counted from 0): MEMMOVE, DEC_SP.
Without(n) ==
  SubSeq(stack, 1, Len(stack) - n - 1) \o SubSeq(stack, Len(stack) - n + 1, Len(stack))

\* Faulty, for the mutants: the arguments are shifted, the stack pointer stays.
OptimizedSendKept ==
  /\ pc = "normal" /\ me.type = "SEND"
  /\ IF num = 0 \/ Top(num)[1][1] # "name"
     THEN /\ Finish([kind |-> IF num = 0 THEN "ArgumentError" ELSE "TypeError"])
          /\ UNCHANGED registers
     ELSE /\ id' = Top(num)[1][2]
          /\ stack' = Append(Without(num - 1), stack[Len(stack)])
          /\ num' = num - 1
          /\ me' = rb_method_entry(call.methods, 1, id')
          /\ flag' = flag \cup {"FCALL", "OPT_SEND"}
          /\ pc' = "start"
          /\ UNCHANGED <<block, passed_block, outcome>>
  /\ UNCHANGED call

\* send: the first argument is the name, the visibility no longer counts.
OptimizedSend ==
  /\ pc = "normal" /\ me.type = "SEND"
  /\ IF num = 0 \/ Top(num)[1][1] # "name"
     THEN /\ Finish([kind |-> IF num = 0 THEN "ArgumentError" ELSE "TypeError"])
          /\ UNCHANGED registers
     ELSE /\ id' = Top(num)[1][2]
          /\ stack' = Without(num - 1)
          /\ num' = num - 1
          /\ me' = rb_method_entry(call.methods, 1, id')
          /\ flag' = flag \cup {"FCALL", "OPT_SEND"}
          /\ pc' = "start"
          /\ UNCHANGED <<block, passed_block, outcome>>
  /\ UNCHANGED call

vm_call_method ==
  \/ NoMethod \/ Refuse \/ Accept
  \/ vm_setup_method \/ vm_call_cfunc \/ Attribute \/ CallMissing
  \/ vm_call_bmethod \/ CallProc \/ Zsuper \/ OptimizedSend

-----------------------------------------------------------------------------
(* yield, and multiple assignment.                                         *)

\* vm_invoke_block, and a call of a Proc.
vm_invoke_block ==
  /\ pc = "setup" /\ call.kind \in {"yield", "lambda", "ifunc"}
  /\ \E c \in {caller_setup_args(call.args, "SPLAT" \in flag, call.blockarg)},
        lambda \in {call.kind = "lambda" \/ (call.kind = "ifunc" /\ call.lambda)} :
        Finish(IF call.kind = "ifunc"
               THEN vm_yield_with_cfunc(c.args, lambda, c.block, "theirs")
               ELSE vm_yield_setup_args(Iseq(call.params), Len(c.args), StackOf(c.args),
                                        c.block, lambda))
  /\ stack' = <<>>
  /\ UNCHANGED <<call, num, block, id, flag, me, passed_block>>

\* The instruction expandarray.
Expand ==
  /\ pc = "setup" /\ call.kind = "assign"
  /\ Finish([kind |-> "pushed",
             values |-> vm_expandarray(call.args, call.num, "SPLAT" \in flag, call.post)])
  /\ UNCHANGED <<call, registers>>

Next == SetupSend \/ vm_call_method \/ vm_invoke_block \/ Expand

\* The dispatch is a loop of one thread: nothing else can keep it from going on.
Spec == Init /\ [][Next]_vars /\ WF_vars(vm_call_method)

-----------------------------------------------------------------------------
(* What a call should come to.                                             *)

\* The arguments a caller delivers.
Delivered ==
  LET args == call.args
      last == args[Len(args)]
      front == SubSeq(args, 1, Len(args) - 1)
  IN IF "SPLAT" \notin call.flag THEN args
     ELSE CASE last = nil -> front
            [] IsArray(last) -> front \o last[2]
            [] OTHER -> args

\* The name and the arguments behind any number of sends.
Asked == <<Name(call.id)>> \o Delivered
Sends == CHOOSE n \in 0 .. Len(Asked) :
           /\ \A i \in 1 .. n : Asked[i] = Name("send")
           /\ n < Len(Asked) => Asked[n + 1] # Name("send")
Named == Asked[Sends + 1]
Arguments == SubSeq(Asked, Sends + 2, Len(Asked))

\* The classes that have something under that name, the one that counts for the
\* visibility and the one that has the body.
From == IF "SUPER" \in call.flag /\ Sends = 0 THEN 2 ELSE 1
Having ==
  {k \in From .. Depth : Sends < Len(Asked) /\ Named = Name("foo") /\ call.methods[k] # None}
LowestOf(set) == CHOOSE k \in set : \A j \in set : k <= j
Judged == call.methods[LowestOf(Having)]
Bodies == {k \in Having : call.methods[k].type # "ZSUPER"}
Body == call.methods[LowestOf(Bodies)]

Allowed ==
  /\ Judged.vis = "private" => Sends > 0 \/ "FCALL" \in call.flag
  /\ Judged.vis = "protected" => Sends > 0 \/ Related(Judged)
\* $SAFE guards a method unless it is protected and called as such.
Safe ==
  Judged.safe <= SafeLevel \/ Judged.safe <= 2 \/ (Judged.vis = "protected" /\ Sends = 0)

Reached == Having # {} /\ Allowed /\ Safe /\ Bodies # {}
Ended == pc = "done" /\ call.kind = "call" /\ call.blockarg # "other"

\* What was asked for is what runs: the body of the lowest class that has one, if
\* the lowest entry, which may be another, lets this caller have it; else
\* method_missing gets the name, the arguments and the true reason, or there is
\* an error.  It makes no difference how many sends the call came through,
\* except that they lift the visibility.
AsAsked(got) ==
  CASE Sends = Len(Asked) -> got.kind = "ArgumentError"
    [] Sends < Len(Asked) /\ Named[1] # "name" -> got.kind = "TypeError"
    [] Sends < Len(Asked) /\ Named = Name("method_missing") ->
         got.kind = "NoMethodError"
    [] Reached /\ Body.type = "MISSING" ->
         got.kind = "method_missing" /\ got.args = <<Named>> \o Arguments
           /\ got.reasons = {}
    [] Reached /\ Body.type \in {"BMETHOD", "CALL"} ->
         got.kind = "proc" /\ got.args = Arguments
    [] Reached /\ Body.type \in {"ATTRSET", "IVAR"} ->
         IF Len(Arguments) = (IF Body.type = "IVAR" THEN 0 ELSE 1)
         THEN got.kind \in {"ivar_get", "ivar_set"} /\ got.args = Arguments
         ELSE got.kind = "ArgumentError"
    [] Reached /\ Body.type \in {"CFUNC", "NOTIMPLEMENTED", "ISEQ"} ->
         got.kind \in {"cfunc", "bound", "ArgumentError"}
    [] Having # {} /\ Allowed /\ ~Safe -> got.kind = "SecurityError"
    [] OTHER ->
         /\ got.kind = "method_missing"
         /\ got.args = <<Named>> \o Arguments
         /\ got.reasons =
              IF Having = {} \/ Allowed THEN call.flag \cap {"VCALL", "SUPER"}
              ELSE IF Judged.vis = "private" THEN {"PRIVATE"} ELSE {"PROTECTED"}
RunsWhatWasAsked == Ended => AsAsked(outcome)

\* When a call has come to anything but an error, receiver and arguments are
\* gone from the stack, whatever send and the splat made of them.
StackIsBalanced ==
  /\ pc = "done"
  /\ outcome.kind \in
       {"bound", "cfunc", "proc", "method_missing", "ivar_get", "ivar_set", "ifunc"}
  => stack = <<>>

\* The block of the call is the block of whatever runs for it (the 1.9.2 code
\* forgets it when a method stands for method_missing).
BlockReachesTheBody ==
  Ended /\ outcome.kind \in {"bound", "cfunc", "proc", "method_missing"} =>
      \/ outcome.block = CASE call.blockarg \in {"none", "nil"} -> "none"
                          [] call.blockarg = "literal" -> "literal"
                          [] OTHER -> "given"
      \/ call.version = "1.9.2" /\ Reached /\ Body.type = "MISSING"

\* Every call comes to something: the dispatch loop goes up the classes and down
\* the arguments, and both end.
DispatchEnds == (pc = "start") ~> (pc = "done")

\* The value of each parameter, by its place, for arguments that fit: the first
\* ones are mandatory, the last ones post, those between go to the optional
\* parameters from the left, then to the rest; the local variable after them is nil.
Parameters(p, args, taken) ==
  LET n == Len(args)
      given == Least(p.opt, n - p.m - p.post)
      rest == p.m + p.opt
      start == rest + (IF p.rest THEN 1 ELSE 0)
  IN [given |-> given,
      at |-> [i \in 0 .. start + p.post + (IF p.block THEN 1 ELSE 0) |->
                CASE i < p.m + given -> args[i + 1]
                  [] i >= p.m + given /\ i < rest -> nil
                  [] i = rest /\ p.rest -> Array(SubSeq(args, p.m + given + 1, n - p.post))
                  [] i >= start /\ i < start + p.post -> args[n - p.post + i - start + 1]
                  [] i = start + p.post /\ p.block -> taken
                  [] OTHER -> nil]]

BlockOf(blockarg) ==
  CASE blockarg \in {"none", "nil"} -> nil
    [] blockarg = "literal" -> MadeProc
    [] OTHER -> GivenProc

\* The outcome agrees with the parameters, but for the optional ones that were
\* not given: their cells are set by the code at opt_pc, which runs first.
Agrees(got, p, expected) ==
  /\ got.kind = "bound"
  /\ got.opt_pc = expected.given
  /\ DOMAIN got.locals = DOMAIN expected.at
  /\ \A i \in DOMAIN expected.at :
       i \notin p.m + expected.given .. p.m + p.opt - 1 => got.locals[i] = expected.at[i]

\* A method or a lambda gets every argument exactly once, in the parameter
\* the declaration gives it, whatever the splat made of the stack; and it
\* raises, with the number it expects, exactly if they do not fit.
CallBindsAsDeclared ==
  (Ended /\ Reached /\ Body.type = "ISEQ") \/ (pc = "done" /\ call.kind = "lambda") =>
    LET p == IF call.kind = "call" THEN Body.params ELSE call.params
        args == IF call.kind = "call" THEN Arguments ELSE Delivered
        n == Len(args)
        high == p.m + p.opt + p.post
    IN CASE n < p.m + p.post -> outcome = argument_error(n, p.m + p.post)
         [] n > high /\ ~p.rest -> outcome = argument_error(n, high)
         [] OTHER -> Agrees(outcome, p, Parameters(p, args, BlockOf(call.blockarg)))

\* A block gets what a method would get from a list that has been cut to what the
\* block can take, and filled with nils to what it must have; one array is taken
\* apart first, unless the block is |a| or has neither mandatory nor post
\* parameters.
BlockBindsCutAndFilled ==
  pc = "done" /\ call.kind = "yield" =>
    LET p == call.params
        list == Delivered
        single == p.m = 1 /\ p.opt = 0 /\ p.post = 0 /\ ~p.rest /\ ~p.comma
        args == IF Len(list) = 1 /\ IsArray(list[1]) /\ ~single /\ p.m + p.post > 0
                THEN list[1][2] ELSE list
        high == p.m + p.opt + p.post
        cut == IF Len(args) > high /\ ~p.rest THEN SubSeq(args, 1, high) ELSE args
        filled == [i \in 1 .. Most(Len(cut), p.m + p.post) |->
                     IF i <= Len(cut) THEN cut[i] ELSE nil]
    IN Agrees(outcome, p, Parameters(p, filled, BlockOf(call.blockarg)))

\* A C function gets all the arguments in one of three forms, or raises; a
\* block written in C gets the first one, or all if it is a lambda.
CCodeGetsArguments ==
  /\ Ended /\ Reached /\ Body.type \in {"CFUNC", "NOTIMPLEMENTED"} =>
       IF Body.arity \notin {-2, -1, Len(Arguments)} \/ Body.arity > 15
       THEN outcome.kind = "ArgumentError"
       ELSE /\ Body.arity < 0 => outcome.params[Len(outcome.params)] = Array(Arguments)
            /\ Body.arity >= 0 => outcome.params = Arguments
  /\ pc = "done" /\ call.kind = "ifunc" =>
       outcome.arg = IF call.lambda THEN Array(Delivered) ELSE Append(Delivered, nil)[1]

\* Popping what a multiple assignment pushed gives the variables from the left:
\* the first elements and then the array of the others, or that array and then
\* the last ones; each element goes to one place, and nils fill up.
AssignmentTakesApart ==
  pc = "done" /\ call.kind = "assign" =>
    LET n == Len(call.args)
        splat == "SPLAT" \in call.flag
        size == call.num + (IF splat THEN 1 ELSE 0)
        popped == [i \in 1 .. size |-> outcome.values[size - i + 1]]
        hole == IF ~splat THEN 0 ELSE IF call.post THEN 1 ELSE size
        single == [i \in 1 .. call.num |->
                     popped[IF hole # 0 /\ i >= hole THEN i + 1 ELSE i]]
        skip == IF call.post THEN Most(n - call.num, 0) ELSE 0
    IN /\ Len(outcome.values) = size
       /\ \A i \in 1 .. call.num :
            single[i] = IF skip + i <= n THEN call.args[skip + i] ELSE nil
       /\ splat =>
            popped[hole] = Array(IF call.post THEN SubSeq(call.args, 1, skip)
                                 ELSE SubSeq(call.args, call.num + 1, n))
=============================================================================
