---------------------------- MODULE VmArguments ----------------------------
(***************************************************************************)
(* ruby_source/1.9.3/vm_insnhelper.c: how the arguments of a call get from *)
(* the caller's stack to the parameters of a method, a lambda, a block, a  *)
(* C function or a block written in C, and how an array is taken apart by  *)
(* a multiple assignment.  The code moves values about in place, with      *)
(* cursors into the stack: these are its functions, from a memory to what  *)
(* the function leaves in it.  VmCalls calls them.                         *)
(***************************************************************************)
EXTENDS Integers, Sequences

CONSTANTS
  MaxParams, \* bound on the mandatory, the optional and the post parameters, each
  MaxArgs    \* bound on the arguments on the stack, and on the elements of an array

ASSUME BoundAssumption == MaxParams \in Nat /\ MaxArgs \in Nat

nil == <<"nil">>
Arg(i) == <<"arg", i>>
Array(seq) == <<"array", seq>>
IsArray(v) == v[1] = "array"
MadeProc == <<"proc", "made">>
GivenProc == <<"proc", "given">>

Least(a, b) == IF a < b THEN a ELSE b
Most(a, b) == IF a > b THEN a ELSE b

-----------------------------------------------------------------------------
(* A list of parameters, and what the compiler records of it.              *)

\* Parameters after the rest or the optional ones are post parameters; without
\* those they are mandatory ones.  |a,| is a block with an excessed comma.
IsParams(p) ==
  /\ p \in [m : 0 .. MaxParams, opt : 0 .. MaxParams, rest : BOOLEAN,
            post : 0 .. MaxParams, block : BOOLEAN, comma : BOOLEAN]
  /\ p.post > 0 => p.rest \/ p.opt > 0
  /\ p.comma => p.m = 1 /\ p.opt = 0 /\ ~p.rest /\ ~p.block

ParamLists ==
  {p \in [m : 0 .. MaxParams, opt : 0 .. MaxParams, rest : BOOLEAN,
          post : 0 .. MaxParams, block : BOOLEAN, comma : BOOLEAN] : IsParams(p)}

\* The argument information of rb_iseq_t, positions counted from 0; -1: none.
\* simple and alone are the two bits of arg_simple.  Every body has one local
\* variable besides its parameters.
Iseq(p) ==
  LET rest == p.m + p.opt
      start == rest + (IF p.rest THEN 1 ELSE 0)
      block == start + p.post
      plain == p.opt = 0 /\ ~p.rest /\ p.post = 0
  IN [argc |-> p.m,
      arg_opts |-> IF p.opt = 0 THEN 0 ELSE p.opt + 1,
      arg_rest |-> IF p.rest THEN rest ELSE -1,
      arg_post_len |-> p.post,
      arg_post_start |-> start,
      arg_block |-> IF p.block THEN block ELSE -1,
      arg_size |-> block + (IF p.block THEN 1 ELSE 0),
      local_size |-> block + (IF p.block THEN 1 ELSE 0) + 1,
      simple |-> plain /\ ~p.block,
      alone |-> plain /\ p.m = 1 /\ ~p.comma]

-----------------------------------------------------------------------------
(* The stack, from the receiver up: cells 0, 1, ...                        *)

Cells == 0 .. 3 * MaxParams + 2 * MaxArgs + 3

\* Cells that no one has written hold whatever was there before.
Stale == <<"stale">>
StackOf(args) == [i \in Cells |-> IF i < Len(args) THEN args[i + 1] ELSE Stale]

\* MEMCPY and MEMMOVE of n cells, and rb_ary_new4.
Copy(mem, to, source, from, n) ==
  [i \in Cells |-> IF i \in to .. to + n - 1 THEN source[from + i - to] ELSE mem[i]]
ArrayOf(mem, from, n) == Array([i \in 1 .. n |-> mem[from + i - 1]])
FillNil(mem, from, to) ==
  [i \in Cells |-> IF i \in from .. to - 1 THEN nil ELSE mem[i]]

\* The local variables of the new frame: the parameters, then nils.
Bound(mem, iseq, opt_pc) ==
  [kind |-> "bound", opt_pc |-> opt_pc,
   locals |-> [i \in 0 .. iseq.local_size - 1 |-> IF i < iseq.arg_size THEN mem[i] ELSE nil]]

\* argument_error: ArgumentError, wrong number of arguments (given for expected).
argument_error(given, expected) ==
  [kind |-> "ArgumentError", given |-> given, expected |-> expected]

\* The value of a block parameter: the Proc of the block, made if there is none.
BlockValue(block) ==
  CASE block = "none" -> nil
    [] block = "given" -> GivenProc
    [] block = "literal" -> MadeProc

-----------------------------------------------------------------------------
(* The caller: a block argument is popped, a splat is spread over the stack. *)

\* What is passed with &: nil, a Proc, something with a to_proc that gives one,
\* anything else.  "literal" is a block written at the call, "none" no block.
BlockArguments == {"none", "literal", "nil", "proc", "convertible", "other"}

\* rb_check_convert_type(ary, T_ARRAY, "Array", "to_a"): nil has a to_a.
ToA(v) == IF v = nil THEN Array(<<>>) ELSE v

caller_setup_args(args, splat, blockarg) ==
  LET top == ToA(args[Len(args)])
      spread == IF splat /\ IsArray(top)
                THEN SubSeq(args, 1, Len(args) - 1) \o top[2] ELSE args
      block == CASE blockarg \in {"none", "nil"} -> "none"
                 [] blockarg = "literal" -> "literal"
                 [] OTHER -> "given"
  IN IF blockarg = "other" THEN [kind |-> "TypeError"]
     ELSE [kind |-> "args", args |-> spread, block |-> block]

-----------------------------------------------------------------------------
(* Methods and lambdas.                                                    *)

\* Faulty, for the mutants: the arguments are not set aside.
NotSetAside(iseq, orig_argc, before, after) == after

\* Where the remaining arguments are read from once the post parameters are
\* written: a copy of what was there before, if they could be in the way.
SetAside(iseq, orig_argc, before, after) ==
  IF iseq.arg_post_len > 0 /\ orig_argc < iseq.arg_post_start
  THEN after ELSE before

\* From the left: mandatory arguments stay, the post arguments are copied
\* first (the others are set aside if they are in the way), then the optional ones,
\* the rest, the block.
vm_callee_setup_arg_complex(iseq, orig_argc, orig, block) ==
  LET m == iseq.argc
      opts == Most(iseq.arg_opts - 1, 0)
      left == orig_argc - m - iseq.arg_post_len
      posted == Copy(orig, iseq.arg_post_start, orig, m + left, iseq.arg_post_len)
      argv == SetAside(iseq, orig_argc, orig, posted)
      given == IF iseq.arg_opts = 0 THEN 0 ELSE Least(left, opts)
      opted == FillNil(posted, m + given, m + opts)
      over == left - given
      rested == IF iseq.arg_rest = -1 THEN opted
                ELSE [opted EXCEPT ![iseq.arg_rest] = ArrayOf(argv, m + given, over)]
      blocked == IF iseq.arg_block = -1 THEN rested
                 ELSE [rested EXCEPT ![iseq.arg_block] = BlockValue(block)]
  IN IF left < 0 THEN argument_error(orig_argc, m + iseq.arg_post_len)
     ELSE IF iseq.arg_opts > 0 /\ iseq.arg_rest = -1 /\ over > 0
     THEN argument_error(orig_argc, m + opts + iseq.arg_post_len)
     ELSE IF iseq.arg_block # -1 /\ iseq.arg_rest = -1 /\ over > 0
     THEN argument_error(orig_argc, m + iseq.arg_post_len)
     ELSE Bound(blocked, iseq, given)

\* VM_CALLEE_SETUP_ARG
vm_callee_setup_arg(iseq, argc, mem, block) ==
  CASE ~iseq.simple -> vm_callee_setup_arg_complex(iseq, argc, mem, block)
    [] iseq.simple /\ argc # iseq.argc -> argument_error(argc, iseq.argc)
    [] OTHER -> Bound(mem, iseq, 0)

-----------------------------------------------------------------------------
(* Blocks, which take what they get: they drop and pad.                    *)

\* With optional, rest and post parameters: what is left after the mandatory
\* ones goes to the post parameters first, then to the optional ones.
vm_yield_setup_block_args_complex(iseq, argc, argv) ==
  LET m == iseq.argc
      r == iseq.arg_rest
      len == iseq.arg_post_len
      start == iseq.arg_post_start
      left == Most(argc - m, 0)
      psize == Least(left, len)
      osize == Least(left - psize, Most(iseq.arg_opts - 1, 0))
      rsize == left - psize - osize
      posted == IF r = -1
                THEN Copy(argv, start, argv, m + osize, psize)
                ELSE [Copy(argv, start, argv, m + rsize + osize, psize)
                        EXCEPT ![r] = ArrayOf(argv, r, rsize)]
  IN [mem |-> FillNil(posted, start + psize, start + len), opt_pc |-> osize]

\* A faulty test, for the mutants: |a| is taken apart as well.
SpreadsAlone(iseq, argc, argv) ==
  iseq.argc + iseq.arg_post_len > 0 /\ argc = 1 /\ IsArray(argv[0])

\* yield [1, 2] to |a, b|, but not to |a|.
Spreads(iseq, argc, argv) ==
  /\ ~iseq.alone
  /\ iseq.argc + iseq.arg_post_len > 0
  /\ argc = 1
  /\ IsArray(argv[0])

vm_yield_setup_block_args(iseq, orig_argc, orig, block) ==
  LET elements == orig[0][2]
      spread == Spreads(iseq, orig_argc, orig)
      argc == IF spread THEN Len(elements) ELSE orig_argc
      argv == IF spread
              THEN [i \in Cells |-> IF i < argc THEN elements[i + 1] ELSE orig[i]]
              ELSE orig
      r == iseq.arg_rest
      padded == FillNil(argv, argc, iseq.argc)
      rested == IF argc < r
                THEN [FillNil(padded, argc, r) EXCEPT ![r] = Array(<<>>)]
                ELSE [padded EXCEPT ![r] = ArrayOf(padded, r, argc - r)]
      set == CASE r = -1 /\ iseq.arg_opts = 0 -> [mem |-> padded, opt_pc |-> 0]
               [] iseq.arg_post_len > 0 \/ iseq.arg_opts > 0 ->
                    vm_yield_setup_block_args_complex(iseq, argc, padded)
               [] OTHER -> [mem |-> rested, opt_pc |-> 0]
      blocked == IF iseq.arg_block = -1 THEN set.mem
                 ELSE [set.mem EXCEPT ![iseq.arg_block] = BlockValue(block)]
  IN Bound(blocked, iseq, set.opt_pc)

vm_yield_setup_args(iseq, argc, argv, block, lambda) ==
  IF lambda THEN vm_callee_setup_arg(iseq, argc, argv, block)
            ELSE vm_yield_setup_block_args(iseq, argc, argv, block)

-----------------------------------------------------------------------------
(* C functions and blocks written in C.                                    *)

\* A faulty count, for the mutants: too few arguments go unnoticed.
CfuncShort(len, args) ==
  CASE len >= 0 /\ Len(args) > len -> argument_error(Len(args), len)
    [] len = -2 -> [kind |-> "cfunc", params |-> <<Array(args)>>]
    [] len = -1 -> [kind |-> "cfunc", params |-> <<<<"argc", Len(args)>>, Array(args)>>]
    [] len \in 0 .. 15 -> [kind |-> "cfunc", params |-> args]
    [] OTHER -> [kind |-> "ArgumentError"]

\* The arguments of the C function: its receiver and each argument, or an array
\* of them (arity -2), or their number and where they are (arity -1).
call_cfunc(len, args) ==
  CASE len >= 0 /\ Len(args) # len -> argument_error(Len(args), len)
    [] len = -2 -> [kind |-> "cfunc", params |-> <<Array(args)>>]
    [] len = -1 -> [kind |-> "cfunc", params |-> <<<<"argc", Len(args)>>, Array(args)>>]
    [] len \in 0 .. 15 /\ Len(args) = len -> [kind |-> "cfunc", params |-> args]
    [] OTHER -> [kind |-> "ArgumentError"]

\* The first parameter of a block written in C, and its block argument, which
\* also becomes the block of the frame the block was written in (lfp[0]).
vm_yield_with_cfunc(args, lambda, block, home) ==
  [kind |-> "ifunc",
   arg |-> IF lambda THEN Array(args) ELSE IF args = <<>> THEN nil ELSE args[1],
   blockarg |-> BlockValue(block),
   home |-> IF block = "none" THEN home ELSE block]

-----------------------------------------------------------------------------
(* Multiple assignment.                                                    *)

\* An off-by-one, for the mutants: one element too few goes to the splat.
SplatShort(elements, num, splat, post) ==
  LET len == Len(elements)
  IN [i \in 1 .. num + (IF splat THEN 1 ELSE 0) |->
        IF splat /\ i = 1 THEN Array(SubSeq(elements, num + 2, len))
        ELSE LET k == num - i + (IF splat THEN 2 ELSE 1)
             IN IF k <= len THEN elements[k] ELSE nil]

\* What is pushed, from the bottom up.  post: nils, the last elements from the
\* last one on, the array of the others.  Otherwise: the array of what
\* follows the first num elements, nils, the first num elements from the num-th on.
vm_expandarray(elements, num, splat, post) ==
  LET len == Len(elements)
      space == num + (IF splat THEN 1 ELSE 0)
      nils == Most(num - len, 0)
      kept == num - nils
  IN IF post
     THEN [i \in 1 .. space |->
             CASE i <= nils -> nil
               [] i > nils /\ i <= num -> elements[len - (i - nils) + 1]
               [] i > num -> Array(SubSeq(elements, 1, len - kept))]
     ELSE [i \in 1 .. space |->
             LET k == space - i + 1
             IN CASE k > num -> Array(SubSeq(elements, num + 1, len))
                  [] k <= num /\ k > len -> nil
                  [] k <= num /\ k <= len -> elements[k]]

=============================================================================
