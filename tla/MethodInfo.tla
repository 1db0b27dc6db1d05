----------------------------- MODULE MethodInfo -----------------------------
(***************************************************************************)
(* ext/pline/minfo.c: the range of source lines of a method, as it is read *)
(* from its instruction sequence.                                          *)
(*                                                                         *)
(* The headers keep line numbers in 16 bits, in two ways: the line of the  *)
(* method's definition as a tagged Fixnum (rb_iseq_struct.line_no), the    *)
(* line of each instruction as it is (iseq_insn_info_entry.line_no).       *)
(***************************************************************************)
EXTENDS Integers, FiniteSetsExt

CONSTANT ShortMod  \* an unsigned short wraps here: 2^16

ASSUME ShortAssumption == ShortMod \in Nat \ {0}

\* A Fixnum is twice its value plus a tag.
LONG2FIX(l) == 2 * l + 1
FIX2LONG(v) == v \div 2

\* What the instruction sequence of a method holds: its first line, tagged,
\* and the line of an instruction, which is also the line of its events.
line_no(first) == LONG2FIX(first) % ShortMod
LineOfEntry(line) == line % ShortMod

minfo_sline_from_iseq(first) == FIX2LONG(line_no(first))

\* Faulty, for the mutants: the last line is looked for among the others only.
FirstEntry(first, lines) ==
  FIX2LONG(Max({line_no(first)} \union {LONG2FIX(LineOfEntry(Min(lines)))}))

\* The largest, as Fixnums, of the line of the definition and those of the
\* instructions.
minfo_eline_from_iseq(first, lines) ==
  FIX2LONG(Max({line_no(first)} \union {LONG2FIX(LineOfEntry(l)) : l \in lines}))
=============================================================================
