------------------------- MODULE InstructionSequence -------------------------
(***************************************************************************)
(* ext/pline/iseq.c, iseq_inject: the walk that makes a method report its  *)
(* lines.  Every `trace` instruction for the LINE or RETURN event of the   *)
(* method, and of the instruction sequences it holds as operands (blocks,  *)
(* class bodies, nested methods), is turned into one for the END event,    *)
(* the only event the profiler's hook listens to.                          *)
(*                                                                         *)
(* Instructions are numbered one by one, not by words (insn_len).  The     *)
(* walk is a recursion of C functions: its stack is kept in a variable.    *)
(***************************************************************************)
EXTENDS Integers, Sequences, FiniteSetsExt

CONSTANTS
  Iseqs,     \* instruction sequences, numbered: an operand has a larger number
  Programs,  \* the programs considered: [code, catch], see IsProgram
  MaxWalks,  \* bound on the number of methods profiled one after another
  Null       \* a null pointer

ASSUME IseqsAssumption == Iseqs \subseteq Nat /\ Null \notin Nat
ASSUME MaxWalksAssumption == MaxWalks \in Nat

VARIABLES
  program,   \* the program as compiled
  seq,       \* iseq->iseq: instructions with operands
  enc,       \* iseq->iseq_encoded: what the VM executes, as operands only
  walk,      \* the calls of iseq_inject that have not returned, outermost first
  root,      \* the method being injected, or the last one, or Null
  injected,  \* the methods iseq_inject has returned for
  walks      \* how many walks have begun

vars == <<program, seq, enc, walk, root, injected, walks>>

\* The operand types of the instructions the walk knows, as insns_info.inc has
\* them: S is an instruction sequence.
insn_operand_info ==
  [trace       |-> <<"N">>,
   putiseq     |-> <<"S">>,
   defineclass |-> <<"I", "S", "N">>,
   send        |-> <<"I", "N", "S", "N", "C">>,
   invokesuper |-> <<"N", "S", "N">>,
   other       |-> <<>>]

Events == {"LINE", "RETURN", "CALL", "END"}

IsListOf(list, n) == list = [i \in 1 .. n |-> list[i]]

IsInstruction(instr) ==
  /\ instr = [insn |-> instr.insn, ops |-> instr.ops]
  /\ instr.insn \in DOMAIN insn_operand_info
  /\ IsListOf(instr.ops, Len(insn_operand_info[instr.insn]))

\* The instruction sequences among the operands, whatever the instruction.
IseqOperands(instr) ==
  {instr.ops[i] : i \in {j \in 1 .. Len(instr.ops) :
                           insn_operand_info[instr.insn][j] = "S"}} \ {Null}

\* code is the instructions of each sequence; catch, the sequences its catch
\* table names: the bodies of its rescue and ensure clauses.
IsProgram(p) ==
  /\ DOMAIN p.code = Iseqs
  /\ \A i \in Iseqs :
    /\ Len(p.code[i]) \in Nat /\ IsListOf(p.code[i], Len(p.code[i]))
    /\ \A n \in 1 .. Len(p.code[i]) :
         /\ IsInstruction(p.code[i][n])
         /\ \A c \in IseqOperands(p.code[i][n]) : c \in Iseqs /\ c > i
    /\ \A c \in p.catch[i] : c \in Iseqs /\ c > i

ASSUME ProgramsAssumption == \A p \in Programs : IsProgram(p)

-----------------------------------------------------------------------------
(* The walk.                                                               *)

\* Faulty, for the mutants: a call of super has no block.
ChildOfCall(instr) ==
  CASE instr.insn = "putiseq"     -> instr.ops[1]
    [] instr.insn = "defineclass" -> instr.ops[2]
    [] instr.insn = "send"        -> instr.ops[3]
    [] OTHER                      -> Null

\* The child sequence that the walk finds in an instruction.
ChildOf(instr) ==
  CASE instr.insn = "putiseq"     -> instr.ops[1]
    [] instr.insn = "defineclass" -> instr.ops[2]
    [] instr.insn = "send"        -> instr.ops[3]
    [] instr.insn = "invokesuper" -> instr.ops[2]
    [] OTHER                      -> Null

\* Faulty, for the mutants: any event will do.
AnyTrace(instr) == instr.insn = "trace"

ToReplace(instr) == instr.insn = "trace" /\ instr.ops[1] \in {"LINE", "RETURN"}

\* Faulty, for the mutants: the encoded sequence keeps its operand.
LeaveEncoded(i, n) == enc

\* Both copies of the operand are replaced, the VM reads the encoded one.
ReplaceEncoded(i, n) == [enc EXCEPT ![i][n][1] = "END"]

\* Faulty, for the mutants: the index stays, or skips an instruction.
SameFrame(frame) == frame
SkipFrame(frame) == [frame EXCEPT !.idx = @ + 2]

\* idx += insn_len(seq[idx])
NextFrame(frame) == [frame EXCEPT !.idx = @ + 1]

Top == walk[Len(walk)]
Callers == SubSeq(walk, 1, Len(walk) - 1)
Walking == walk # <<>>
AtEnd == Top.idx > Len(seq[Top.iseq])
Instr == seq[Top.iseq][Top.idx]

\* profiler_m_profile calls iseq_inject, for any method.
Begin(i) ==
  /\ ~Walking
  /\ walks < MaxWalks
  /\ walk' = <<[iseq |-> i, idx |-> 1]>>
  /\ root' = i
  /\ walks' = walks + 1
  /\ UNCHANGED <<program, seq, enc, injected>>

\* A trace instruction of a line or of the return.
InjectTrace ==
  /\ Walking /\ ~AtEnd
  /\ ToReplace(Instr)
  /\ seq' = [seq EXCEPT ![Top.iseq][Top.idx].ops[1] = "END"]
  /\ enc' = ReplaceEncoded(Top.iseq, Top.idx)
  /\ walk' = Append(Callers, NextFrame(Top))
  /\ UNCHANGED <<program, root, injected, walks>>

\* An instruction with a child sequence: recurse.
Descend ==
  /\ Walking /\ ~AtEnd
  /\ ChildOf(Instr) # Null
  /\ walk' = Callers \o <<NextFrame(Top), [iseq |-> ChildOf(Instr), idx |-> 1]>>
  /\ UNCHANGED <<program, seq, enc, root, injected, walks>>

\* Any other instruction.
Skip ==
  /\ Walking /\ ~AtEnd
  /\ ~ToReplace(Instr)
  /\ ChildOf(Instr) = Null
  /\ walk' = Append(Callers, NextFrame(Top))
  /\ UNCHANGED <<program, seq, enc, root, injected, walks>>

\* The end of a sequence: return to the caller.
ReturnFromWalk ==
  /\ Walking /\ AtEnd
  /\ walk' = Callers
  /\ injected' = IF Callers = <<>> THEN injected \union {root} ELSE injected
  /\ UNCHANGED <<program, seq, enc, root, walks>>

iseq_inject == InjectTrace \/ Descend \/ Skip \/ ReturnFromWalk

Init ==
  /\ program \in Programs
  /\ seq = program.code
  /\ enc = [i \in Iseqs |-> [n \in 1 .. Len(seq[i]) |-> seq[i][n].ops]]
  /\ walk = <<>>
  /\ root = Null
  /\ injected = {}
  /\ walks = 0

Next ==
  \/ \E i \in Iseqs : Begin(i)
  \/ InjectTrace
  \/ Descend
  \/ Skip
  \/ ReturnFromWalk

\* The walk is a C function that nothing interrupts: it goes on.
Spec == Init /\ [][Next]_vars /\ WF_vars(iseq_inject)

-----------------------------------------------------------------------------
(* Properties.                                                             *)

\* The sequences reached from i through the children of a relation: the least
\* set that holds i and is closed under it.
Reach(i, Children(_)) ==
  LET Closed == {S \in SUBSET Iseqs :
                   i \in S /\ \A j \in S : Children(j) \subseteq S}
  IN {j \in Iseqs : \A S \in Closed : j \in S}

OperandsOf(i) ==
  UNION {IseqOperands(program.code[i][n]) : n \in 1 .. Len(program.code[i])}

\* The traces that are to report to the hook.
LineTraces == {[insn |-> "trace", ops |-> <<e>>] : e \in {"LINE", "RETURN"}}

NoLineLeft(i) == \A n \in 1 .. Len(seq[i]) : seq[i][n] \notin LineTraces

TypeOK ==
  /\ DOMAIN seq = Iseqs
  /\ \A i \in Iseqs :
       /\ IsListOf(seq[i], Len(program.code[i]))
       /\ \A n \in 1 .. Len(seq[i]) : IsInstruction(seq[i][n])
  /\ \A d \in 1 .. Len(walk) :
       walk[d].iseq \in Iseqs /\ walk[d].idx \in 1 .. Len(seq[walk[d].iseq]) + 1
  /\ root \in Iseqs \union {Null}
  /\ injected \subseteq Iseqs

\* When iseq_inject returns, no sequence that the method holds as an operand of
\* any instruction, at any depth, still traces its lines or its return: the
\* operand positions written into iseq.c are those of the instruction table,
\* and no later walk undoes an earlier one.
InjectedThroughout ==
  \A r \in injected : \A i \in Reach(r, OperandsOf) : NoLineLeft(i)

\* The two copies of every operand agree, throughout the walk.
EncodedAgrees ==
  \A i \in Iseqs : \A n \in 1 .. Len(seq[i]) : enc[i][n] = seq[i][n].ops

\* No instruction is changed but a trace of LINE or RETURN, into a trace of END,
\* in a sequence that belongs to a method that is being or has been profiled.
OnlyLinesChange ==
  \A i \in Iseqs : \A n \in 1 .. Len(program.code[i]) :
    seq[i][n] # program.code[i][n] =>
      /\ program.code[i][n] \in LineTraces
      /\ seq[i][n] = [insn |-> "trace", ops |-> <<"END">>]
      /\ \E r \in (injected \union {root}) \ {Null} : i \in Reach(r, OperandsOf)

\* The recursion ends: operands are never nested in a circle.
InjectReturns == Walking ~> ~Walking

\* What the README says of a profiled method, "each line": also the lines of
\* its rescue and ensure clauses, which the catch table holds.
RescueLinesToo ==
  \A r \in injected :
    \A i \in Reach(r, LAMBDA j : OperandsOf(j) \union program.catch[j]) :
      NoLineLeft(i)
=============================================================================
