---------------------- MODULE InstructionSequenceProofs ----------------------
(***************************************************************************)
(* The walk of iseq_inject, for any programs: what a method holds reports  *)
(* when the walk returns, and nothing else has changed.                    *)
(***************************************************************************)
EXTENDS InstructionSequence, SequenceTheorems, TLAPS

-----------------------------------------------------------------------------
(* Lists, instructions and their children.                                 *)

LEMMA LenOfList ==
  ASSUME NEW n \in Nat, NEW list, IsListOf(list, n)
  PROVE  Len(list) = n /\ DOMAIN list = 1 .. n
<1> DEFINE S == {list[i] : i \in 1 .. n}
           copy == [i \in 1 .. n |-> list[i]]
<1>1. copy \in [1 .. n -> S]
  OBVIOUS
<1>2. copy \in Seq(S) /\ Len(copy) = n /\ DOMAIN copy = 1 .. n
  <2> HIDE DEF S
  <2>1. copy \in Seq(S)
    BY <1>1
  <2>2. DOMAIN copy = 1 .. n
    OBVIOUS
  <2> QED
    BY <2>1, <2>2
<1>3. list = copy
  BY DEF IsListOf
<1> QED
  BY <1>2, <1>3

Names == {"trace", "putiseq", "defineclass", "send", "invokesuper", "other"}

LEMMA InstructionNames == DOMAIN insn_operand_info = Names
  BY DEF insn_operand_info, Names

\* The places of sequences among the first n operands, by their types.
Places(types, n) == {j \in 1 .. n : types[j] = "S"}

LEMMA PlacesOf ==
  /\ Places(<<"N">>, 1) = {}
  /\ Places(<<>>, 0) = {}
  /\ Places(<<"S">>, 1) = {1}
  /\ Places(<<"I", "S", "N">>, 3) = {2}
  /\ Places(<<"N", "S", "N">>, 3) = {2}
  /\ Places(<<"I", "N", "S", "N", "C">>, 5) = {3}
<1>1. Places(<<"N">>, 1) = {} /\ Places(<<>>, 0) = {} /\ Places(<<"S">>, 1) = {1}
  BY DEF Places
<1>2. Places(<<"I", "S", "N">>, 3) = {2} /\ Places(<<"N", "S", "N">>, 3) = {2}
  BY DEF Places
<1>3. Places(<<"I", "N", "S", "N", "C">>, 5) = {3}
  BY DEF Places
<1> QED
  BY <1>1, <1>2, <1>3

\* The operand that the walk takes is the one the instruction table calls a sequence.
LEMMA ChildIsOperand ==
  ASSUME NEW instr, IsInstruction(instr)
  PROVE  IseqOperands(instr) = {ChildOf(instr)} \ {Null}
<1>1. instr.insn \in Names
  BY InstructionNames DEF IsInstruction
<1> DEFINE info == insn_operand_info[instr.insn]
<1>2. ASSUME NEW n \in Nat, Len(info) = n
      PROVE  IseqOperands(instr) = {instr.ops[i] : i \in Places(info, n)} \ {Null}
  <2>1. Len(instr.ops) = n
    BY <1>2, LenOfList DEF IsInstruction
  <2> QED
    BY <2>1 DEF IseqOperands, Places
<1>3. CASE instr.insn = "trace"
  <2>1. info = <<"N">>
    BY <1>3 DEF insn_operand_info
  <2>2. Len(<<"N">>) = 1
    OBVIOUS
  <2>3. ChildOf(instr) = Null
    BY <1>3 DEF ChildOf
  <2> HIDE DEF info
  <2>4. IseqOperands(instr) = {instr.ops[i] : i \in {}} \ {Null}
    BY <1>2, <2>1, <2>2, PlacesOf
  <2> QED
    BY <2>3, <2>4
<1>4. CASE instr.insn = "other"
  <2>1. info = <<>>
    BY <1>4 DEF insn_operand_info
  <2>2. Len(<<>>) = 0
    OBVIOUS
  <2>3. ChildOf(instr) = Null
    BY <1>4 DEF ChildOf
  <2> HIDE DEF info
  <2>4. IseqOperands(instr) = {instr.ops[i] : i \in {}} \ {Null}
    BY <1>2, <2>1, <2>2, PlacesOf
  <2> QED
    BY <2>3, <2>4
<1>5. CASE instr.insn = "putiseq"
  <2>1. info = <<"S">>
    BY <1>5 DEF insn_operand_info
  <2>2. Len(<<"S">>) = 1
    OBVIOUS
  <2>3. ChildOf(instr) = instr.ops[1]
    BY <1>5 DEF ChildOf
  <2> HIDE DEF info
  <2>4. IseqOperands(instr) = {instr.ops[i] : i \in {1}} \ {Null}
    BY <1>2, <2>1, <2>2, PlacesOf
  <2> QED
    BY <2>3, <2>4
<1>6. CASE instr.insn = "defineclass"
  <2>1. info = <<"I", "S", "N">>
    BY <1>6 DEF insn_operand_info
  <2>2. Len(<<"I", "S", "N">>) = 3
    OBVIOUS
  <2>3. ChildOf(instr) = instr.ops[2]
    BY <1>6 DEF ChildOf
  <2> HIDE DEF info
  <2>4. IseqOperands(instr) = {instr.ops[i] : i \in {2}} \ {Null}
    BY <1>2, <2>1, <2>2, PlacesOf
  <2> QED
    BY <2>3, <2>4
<1>7. CASE instr.insn = "send"
  <2>1. info = <<"I", "N", "S", "N", "C">>
    BY <1>7 DEF insn_operand_info
  <2>2. Len(<<"I", "N", "S", "N", "C">>) = 5
    OBVIOUS
  <2>3. ChildOf(instr) = instr.ops[3]
    BY <1>7 DEF ChildOf
  <2> HIDE DEF info
  <2>4. IseqOperands(instr) = {instr.ops[i] : i \in {3}} \ {Null}
    BY <1>2, <2>1, <2>2, PlacesOf
  <2> QED
    BY <2>3, <2>4
<1>8. CASE instr.insn = "invokesuper"
  <2>1. info = <<"N", "S", "N">>
    BY <1>8 DEF insn_operand_info
  <2>2. Len(<<"N", "S", "N">>) = 3
    OBVIOUS
  <2>3. ChildOf(instr) = instr.ops[2]
    BY <1>8 DEF ChildOf
  <2> HIDE DEF info
  <2>4. IseqOperands(instr) = {instr.ops[i] : i \in {2}} \ {Null}
    BY <1>2, <2>1, <2>2, PlacesOf
  <2> QED
    BY <2>3, <2>4
<1> QED
  BY <1>1, <1>3, <1>4, <1>5, <1>6, <1>7, <1>8 DEF Names

EndTrace == [insn |-> "trace", ops |-> <<"END">>]

\* What the walk replaces is a trace of LINE or RETURN.
LEMMA ReplacedIsLine ==
  ASSUME NEW instr, IsInstruction(instr)
  PROVE  ToReplace(instr) <=> instr \in LineTraces
<1>1. ASSUME ToReplace(instr) PROVE instr \in LineTraces
  <2>1. instr.insn = "trace" /\ instr.ops[1] \in {"LINE", "RETURN"}
    BY <1>1 DEF ToReplace
  <2>2. insn_operand_info[instr.insn] = <<"N">>
    BY <2>1 DEF insn_operand_info
  <2>3. IsListOf(instr.ops, 1)
    BY <2>2 DEF IsInstruction
  <2>4. instr.ops = [i \in 1 .. 1 |-> instr.ops[i]]
    BY <2>3 DEF IsListOf
  <2>5. [i \in 1 .. 1 |-> instr.ops[i]] = <<instr.ops[1]>>
    OBVIOUS
  <2>6. instr = [insn |-> "trace", ops |-> <<instr.ops[1]>>]
    BY <2>1, <2>4, <2>5 DEF IsInstruction
  <2> QED
    BY <2>1, <2>6 DEF LineTraces
<1>2. ASSUME instr \in LineTraces PROVE ToReplace(instr)
  BY <1>2 DEF LineTraces, ToReplace
<1> QED
  BY <1>1, <1>2

LEMMA EndTraceIs ==
  /\ IsInstruction(EndTrace)
  /\ EndTrace \notin LineTraces
  /\ ChildOf(EndTrace) = Null
  /\ \A t \in LineTraces : /\ [t EXCEPT !.ops[1] = "END"] = EndTrace
                           /\ [t.ops EXCEPT ![1] = "END"] = EndTrace.ops
                           /\ ChildOf(t) = Null
<1>1. EndTrace.insn = "trace" /\ EndTrace.ops = <<"END">>
  BY DEF EndTrace
<1>2. IsInstruction(EndTrace)
  <2>1. insn_operand_info["trace"] = <<"N">> /\ "trace" \in DOMAIN insn_operand_info
    BY DEF insn_operand_info
  <2>2. IsListOf(<<"END">>, 1)
    BY DEF IsListOf
  <2>3. Len(<<"N">>) = 1
    OBVIOUS
  <2> QED
    BY <1>1, <2>1, <2>2, <2>3 DEF IsInstruction, EndTrace
<1>3. EndTrace \notin LineTraces
  BY <1>1 DEF LineTraces
<1>4. ChildOf(EndTrace) = Null
  BY <1>1 DEF ChildOf
<1>5. ASSUME NEW t \in LineTraces
      PROVE  /\ [t EXCEPT !.ops[1] = "END"] = EndTrace
             /\ [t.ops EXCEPT ![1] = "END"] = EndTrace.ops
             /\ ChildOf(t) = Null
  <2>1. PICK e \in {"LINE", "RETURN"} : t = [insn |-> "trace", ops |-> <<e>>]
    BY DEF LineTraces
  <2>2. [<<e>> EXCEPT ![1] = "END"] = <<"END">>
    OBVIOUS
  <2>3. [t.ops EXCEPT ![1] = "END"] = <<"END">> /\ t.insn = "trace"
    BY <2>1, <2>2
  <2>4. [t EXCEPT !.ops = [t.ops EXCEPT ![1] = "END"]] = EndTrace
    BY <2>1, <2>3 DEF EndTrace
  <2> QED
    BY <1>1, <2>3, <2>4 DEF ChildOf
<1> QED
  BY <1>2, <1>3, <1>4, <1>5
-----------------------------------------------------------------------------
(* What the walk keeps.                                                    *)

Length(i) == Len(program.code[i])
Frames == [iseq : Iseqs, idx : Nat]

\* The instructions are the program's, but for traces of lines that end as traces of END.
OnlyTracesReplaced ==
  /\ IsProgram(program)
  /\ DOMAIN seq = Iseqs
  /\ \A i \in Iseqs :
       /\ IsListOf(seq[i], Length(i))
       /\ \A n \in 1 .. Length(i) :
            \/ seq[i][n] = program.code[i][n]
            \/ program.code[i][n] \in LineTraces /\ seq[i][n] = EndTrace

\* The encoded copy holds the same operands.
SameOperands ==
  /\ DOMAIN enc = Iseqs
  /\ \A i \in Iseqs :
       /\ IsListOf(enc[i], Length(i))
       /\ \A n \in 1 .. Length(i) : enc[i][n] = seq[i][n].ops

\* Each call of iseq_inject is somewhere in a sequence, the outermost in the method's.
CallsAreWithin ==
  /\ walk \in Seq(Frames)
  /\ \A d \in 1 .. Len(walk) : walk[d].idx \in 1 .. Length(walk[d].iseq) + 1
  /\ root \in Iseqs \union {Null}
  /\ injected \subseteq Iseqs
  /\ walk # <<>> => walk[1].iseq = root
  /\ walk = <<>> => root \in injected \union {Null}

WalkTypes == OnlyTracesReplaced /\ SameOperands /\ CallsAreWithin

\* A list with one of its members written.
Written(list, n, i, v) ==
  /\ IsListOf([list EXCEPT ![i] = v], n)
  /\ [list EXCEPT ![i] = v][i] = v
  /\ \A k \in 1 .. n : k # i => [list EXCEPT ![i] = v][k] = list[k]

LEMMA ListWrite ==
  ASSUME NEW n \in Nat, NEW list, IsListOf(list, n), NEW i \in 1 .. n, NEW v
  PROVE  Written(list, n, i, v)
<1>1. DOMAIN list = 1 .. n
  BY LenOfList
<1> QED
  BY <1>1 DEF IsListOf, Written

\* The instructions as the walk finds them.
LEMMA InstructionsFound ==
  ASSUME OnlyTracesReplaced, NEW i \in Iseqs
  PROVE  /\ Length(i) \in Nat /\ Len(seq[i]) = Length(i) /\ Len(program.code[i]) = Length(i)
         /\ \A n \in 1 .. Length(i) :
              /\ IsInstruction(seq[i][n])
              /\ ChildOf(seq[i][n]) = ChildOf(program.code[i][n])
              /\ ChildOf(seq[i][n]) # Null => ChildOf(seq[i][n]) \in OperandsOf(i)
         /\ OperandsOf(i) \subseteq Iseqs
         /\ \A c \in OperandsOf(i) : c # Null /\ \E n \in 1 .. Length(i) : c = ChildOf(seq[i][n])
<1>1. Length(i) \in Nat /\ IsListOf(program.code[i], Length(i)) /\ IsListOf(seq[i], Length(i))
  BY DEF OnlyTracesReplaced, IsProgram, Length
<1>2. Len(seq[i]) = Length(i) /\ Len(program.code[i]) = Length(i)
  BY <1>1, LenOfList DEF Length
<1>3. ASSUME NEW n \in 1 .. Length(i)
      PROVE  /\ IsInstruction(seq[i][n])
             /\ ChildOf(seq[i][n]) = ChildOf(program.code[i][n])
             /\ IsInstruction(program.code[i][n])
  <2>1. IsInstruction(program.code[i][n])
    BY DEF OnlyTracesReplaced, IsProgram, Length
  <2>2. \/ seq[i][n] = program.code[i][n]
        \/ program.code[i][n] \in LineTraces /\ seq[i][n] = EndTrace
    BY DEF OnlyTracesReplaced
  <2> QED
    BY <2>1, <2>2, EndTraceIs
<1>4. \A n \in 1 .. Length(i) :
        IseqOperands(program.code[i][n]) = {ChildOf(seq[i][n])} \ {Null}
  BY <1>3, ChildIsOperand
<1>5. OperandsOf(i) = UNION {IseqOperands(program.code[i][n]) : n \in 1 .. Length(i)}
  BY DEF OperandsOf, Length
<1>6. OperandsOf(i) \subseteq Iseqs
  <2>1. \A n \in 1 .. Length(i) : IseqOperands(program.code[i][n]) \subseteq Iseqs
    BY DEF OnlyTracesReplaced, IsProgram, Length
  <2> QED
    BY <1>5, <2>1
<1>7. \A c : c \in OperandsOf(i) <=>
        \E n \in 1 .. Length(i) : c = ChildOf(seq[i][n]) /\ c # Null
  BY <1>4, <1>5
<1> HIDE DEF OperandsOf
<1> QED
  BY <1>1, <1>2, <1>3, <1>6, <1>7

LEMMA FirstOf ==
  ASSUME NEW S, NEW w \in Seq(S), NEW n \in 0 .. Len(w)
  PROVE  /\ SubSeq(w, 1, n) \in Seq(S) /\ Len(SubSeq(w, 1, n)) = n
         /\ \A d \in 1 .. n : SubSeq(w, 1, n)[d] = w[d]
<1>1. SubSeq(w, 1, n) \in Seq(S)
  OBVIOUS
<1>2. Len(SubSeq(w, 1, n)) = n
  OBVIOUS
<1>3. \A d \in 1 .. n : SubSeq(w, 1, n)[d] = w[d]
  OBVIOUS
<1> QED
  BY <1>1, <1>2, <1>3

LEMMA AndTwo ==
  ASSUME NEW S, NEW w \in Seq(S), NEW f \in S, NEW g \in S
  PROVE  /\ w \o <<f, g>> \in Seq(S) /\ Len(w \o <<f, g>>) = Len(w) + 2
         /\ (w \o <<f, g>>)[Len(w) + 1] = f
         /\ (w \o <<f, g>>)[Len(w) + 2] = g
         /\ \A d \in 1 .. Len(w) : (w \o <<f, g>>)[d] = w[d]
<1> DEFINE two == <<f, g>>
           all == w \o two
<1>1. two \in Seq(S) /\ Len(two) = 2 /\ two[1] = f /\ two[2] = g
  OBVIOUS
<1> HIDE DEF two
<1>2. /\ all \in Seq(S) /\ Len(all) = Len(w) + Len(two)
      /\ \A d \in 1 .. Len(w) + Len(two) :
           all[d] = IF d <= Len(w) THEN w[d] ELSE two[d - Len(w)]
  BY <1>1, ConcatProperties, Zenon
<1> HIDE DEF all
<1>3. all \in Seq(S) /\ Len(all) = Len(w) + 2 /\ \A d \in 1 .. Len(w) : all[d] = w[d]
  BY <1>1, <1>2
<1>4. all[Len(w) + 1] = two[1]
  BY <1>1, <1>2
<1>5. all[Len(w) + 2] = two[2]
  BY <1>1, <1>2
<1> QED
  BY <1>1, <1>3, <1>4, <1>5 DEF two, all

\* The stack without its top, with another top, and with one more call.
NewStacks(w, f, g) ==
  LET k == Len(w)
      callers == SubSeq(w, 1, k - 1)
  IN /\ k \in Nat \ {0} /\ w[k] \in Frames
     /\ callers \in Seq(Frames) /\ Len(callers) = k - 1
     /\ \A d \in 1 .. k - 1 : callers[d] = w[d]
     /\ Append(callers, f) \in Seq(Frames) /\ Len(Append(callers, f)) = k
     /\ Append(callers, f)[k] = f
     /\ \A d \in 1 .. k - 1 : Append(callers, f)[d] = w[d]
     /\ callers \o <<f, g>> \in Seq(Frames) /\ Len(callers \o <<f, g>>) = k + 1
     /\ (callers \o <<f, g>>)[k] = f /\ (callers \o <<f, g>>)[k + 1] = g
     /\ \A d \in 1 .. k - 1 : (callers \o <<f, g>>)[d] = w[d]

LEMMA FramesOf ==
  ASSUME NEW w \in Seq(Frames), w # <<>>, NEW f \in Frames, NEW g \in Frames
  PROVE  NewStacks(w, f, g)
<1> DEFINE k == Len(w)
           callers == SubSeq(w, 1, k - 1)
<1>1. k \in Nat \ {0} /\ w[k] \in Frames
  OBVIOUS
<1>2. /\ callers \in Seq(Frames) /\ Len(callers) = k - 1
      /\ \A d \in 1 .. k - 1 : callers[d] = w[d]
  <2>1. k - 1 \in 0 .. Len(w)
    BY <1>1
  <2> HIDE DEF k
  <2> QED
    BY <2>1, FirstOf
<1> HIDE DEF callers, k
<1>3. /\ Append(callers, f) \in Seq(Frames) /\ Len(Append(callers, f)) = k
      /\ Append(callers, f)[k] = f
      /\ \A d \in 1 .. k - 1 : Append(callers, f)[d] = callers[d]
  BY <1>1, <1>2
<1>4. <<f, g>> \in Seq(Frames) /\ Len(<<f, g>>) = 2 /\ <<f, g>>[1] = f /\ <<f, g>>[2] = g
  OBVIOUS
<1>5. /\ callers \o <<f, g>> \in Seq(Frames) /\ Len(callers \o <<f, g>>) = k + 1
      /\ (callers \o <<f, g>>)[k] = f /\ (callers \o <<f, g>>)[k + 1] = g
      /\ \A d \in 1 .. k - 1 : (callers \o <<f, g>>)[d] = callers[d]
  <2>1. Len(callers) = k - 1 /\ k - 1 + 1 = k /\ k - 1 + 2 = k + 1
    BY <1>1, <1>2
  <2>2. /\ callers \o <<f, g>> \in Seq(Frames) /\ Len(callers \o <<f, g>>) = Len(callers) + 2
        /\ (callers \o <<f, g>>)[Len(callers) + 1] = f
        /\ (callers \o <<f, g>>)[Len(callers) + 2] = g
        /\ \A d \in 1 .. Len(callers) : (callers \o <<f, g>>)[d] = callers[d]
    <3>1. callers \in Seq(Frames)
      BY <1>2
    <3> HIDE DEF Frames
    <3> QED
      BY <3>1, AndTwo
  <2> QED
    BY <2>1, <2>2
<1> QED
  BY <1>1, <1>2, <1>3, <1>5 DEF callers, k, NewStacks
-----------------------------------------------------------------------------
(* Steps.                                                                  *)

LEMMA TracesInit == ASSUME Init PROVE WalkTypes
<1> USE DEF Init
<1>1. IsProgram(program)
  BY ProgramsAssumption
<1>2. OnlyTracesReplaced
  BY <1>1 DEF OnlyTracesReplaced, IsProgram, Length
<1>3. \A i \in Iseqs : Len(seq[i]) = Length(i)
  BY DEF Length
<1>4. SameOperands
  BY <1>3 DEF SameOperands, IsListOf
<1>5. CallsAreWithin
  BY DEF CallsAreWithin
<1> QED
  BY <1>2, <1>4, <1>5 DEF WalkTypes

\* A trace of a line is replaced in both copies.
LEMMA TraceReplaced ==
  ASSUME OnlyTracesReplaced, SameOperands,
         NEW i \in Iseqs, NEW n \in 1 .. Length(i), seq[i][n] \in LineTraces,
         seq' = [seq EXCEPT ![i][n].ops[1] = "END"], enc' = ReplaceEncoded(i, n),
         program' = program
  PROVE  /\ OnlyTracesReplaced' /\ SameOperands'
         /\ seq'[i][n] = EndTrace
         /\ \A j \in Iseqs : \A m \in 1 .. Length(j) : j # i \/ m # n => seq'[j][m] = seq[j][m]
<1>1. /\ Length(i) \in Nat /\ IsListOf(seq[i], Length(i)) /\ IsListOf(enc[i], Length(i))
      /\ DOMAIN seq = Iseqs /\ DOMAIN enc = Iseqs
  BY DEF OnlyTracesReplaced, SameOperands, IsProgram, Length
<1>2. [seq[i][n] EXCEPT !.ops[1] = "END"] = EndTrace
  BY EndTraceIs
<1>3. seq' = [seq EXCEPT ![i] = [seq[i] EXCEPT ![n] = EndTrace]]
  BY <1>2
<1>4. enc[i][n] = seq[i][n].ops
  BY DEF SameOperands
<1>5. [enc[i][n] EXCEPT ![1] = "END"] = EndTrace.ops
  BY <1>4, EndTraceIs
<1>6. enc' = [enc EXCEPT ![i] = [enc[i] EXCEPT ![n] = EndTrace.ops]]
  BY <1>5 DEF ReplaceEncoded
<1>7. /\ IsListOf(seq'[i], Length(i)) /\ seq'[i][n] = EndTrace
      /\ \A m \in 1 .. Length(i) : m # n => seq'[i][m] = seq[i][m]
  <2>1. seq'[i] = [seq[i] EXCEPT ![n] = EndTrace]
    BY <1>1, <1>3
  <2>2. Length(i) \in Nat /\ IsListOf(seq[i], Length(i))
    BY <1>1
  <2> HIDE DEF EndTrace, Length
  <2>3. Written(seq[i], Length(i), n, EndTrace)
    BY <2>2, ListWrite
  <2> QED
    BY <2>1, <2>3 DEF Written
<1>8. /\ IsListOf(enc'[i], Length(i)) /\ enc'[i][n] = EndTrace.ops
      /\ \A m \in 1 .. Length(i) : m # n => enc'[i][m] = enc[i][m]
  <2>1. enc'[i] = [enc[i] EXCEPT ![n] = EndTrace.ops]
    BY <1>1, <1>6
  <2>2. Length(i) \in Nat /\ IsListOf(enc[i], Length(i))
    BY <1>1
  <2>3. Written(enc[i], Length(i), n, EndTrace.ops)
    BY <2>2, ListWrite
  <2> QED
    BY <2>1, <2>3 DEF Written
<1>9. /\ DOMAIN seq' = Iseqs /\ DOMAIN enc' = Iseqs
      /\ \A j \in Iseqs : j # i => seq'[j] = seq[j] /\ enc'[j] = enc[j]
  BY <1>1, <1>3, <1>6
<1>10. program.code[i][n] \in LineTraces
  BY EndTraceIs DEF OnlyTracesReplaced
<1>11. \A j : Length(j)' = Length(j)
  BY DEF Length
<1>12. OnlyTracesReplaced'
  <2>1. IsProgram(program)' /\ DOMAIN seq' = Iseqs
    BY <1>9 DEF OnlyTracesReplaced, IsProgram
  <2>2. ASSUME NEW j \in Iseqs PROVE IsListOf(seq'[j], Length(j))
    BY <1>7, <1>9 DEF OnlyTracesReplaced
  <2>3. ASSUME NEW j \in Iseqs, NEW m \in 1 .. Length(j)
        PROVE  \/ seq'[j][m] = program.code[j][m]
               \/ program.code[j][m] \in LineTraces /\ seq'[j][m] = EndTrace
    <3>1. CASE j = i /\ m = n
      BY <1>7, <1>10, <3>1
    <3>2. CASE j # i \/ m # n
      <4>1. seq'[j][m] = seq[j][m]
        BY <1>7, <1>9, <3>2
      <4> QED
        BY <4>1 DEF OnlyTracesReplaced
    <3> QED
      BY <3>1, <3>2
  <2> QED
    BY <1>11, <2>1, <2>2, <2>3 DEF OnlyTracesReplaced
<1>13. SameOperands'
  <2>1. ASSUME NEW j \in Iseqs PROVE IsListOf(enc'[j], Length(j))
    BY <1>8, <1>9 DEF SameOperands
  <2>2. ASSUME NEW j \in Iseqs, NEW m \in 1 .. Length(j)
        PROVE  enc'[j][m] = seq'[j][m].ops
    <3>1. CASE j = i /\ m = n
      BY <1>7, <1>8, <3>1
    <3>2. CASE j # i \/ m # n
      <4>1. seq'[j][m] = seq[j][m] /\ enc'[j][m] = enc[j][m]
        BY <1>7, <1>8, <1>9, <3>2
      <4> QED
        BY <4>1 DEF SameOperands
    <3> QED
      BY <3>1, <3>2
  <2> QED
    BY <1>9, <1>11, <2>1, <2>2 DEF SameOperands
<1> QED
  BY <1>7, <1>9, <1>12, <1>13

LEMMA TopFrame ==
  ASSUME WalkTypes, Walking
  PROVE  /\ Len(walk) \in Nat \ {0} /\ walk \in Seq(Frames) /\ walk # <<>> /\ Top = walk[Len(walk)]
         /\ Top \in Frames /\ Top.iseq \in Iseqs /\ root \in Iseqs
         /\ Length(Top.iseq) \in Nat /\ Len(seq[Top.iseq]) = Length(Top.iseq)
         /\ ~AtEnd => Top.idx \in 1 .. Length(Top.iseq) /\ IsInstruction(Instr)
         /\ AtEnd => Top.idx = Length(Top.iseq) + 1
         /\ NextFrame(Top) \in Frames
         /\ NextFrame(Top).iseq = Top.iseq /\ NextFrame(Top).idx = Top.idx + 1
<1>1. /\ Len(walk) \in Nat \ {0} /\ walk \in Seq(Frames) /\ walk # <<>>
      /\ Top = walk[Len(walk)] /\ Top \in Frames /\ walk[1] \in Frames
  BY DEF WalkTypes, CallsAreWithin, Walking, Top
<1>2. Top.iseq \in Iseqs /\ Top.idx \in Nat /\ root \in Iseqs
  BY <1>1 DEF Frames, WalkTypes, CallsAreWithin
<1>3. Length(Top.iseq) \in Nat /\ Len(seq[Top.iseq]) = Length(Top.iseq)
  BY <1>2, InstructionsFound DEF WalkTypes
<1>4. Top.idx \in 1 .. Length(Top.iseq) + 1
  BY <1>1 DEF WalkTypes, CallsAreWithin
<1>5. ~AtEnd => Top.idx \in 1 .. Length(Top.iseq)
  BY <1>2, <1>3, <1>4 DEF AtEnd
<1>6. AtEnd => Top.idx = Length(Top.iseq) + 1
  BY <1>2, <1>3, <1>4 DEF AtEnd
<1>7. NextFrame(Top) = [iseq |-> Top.iseq, idx |-> Top.idx + 1]
  BY <1>1 DEF NextFrame, Frames
<1>8. NextFrame(Top) \in Frames
  BY <1>2, <1>7 DEF Frames
<1>9. ~AtEnd => IsInstruction(Instr)
  BY <1>2, <1>5, InstructionsFound DEF WalkTypes, Instr
<1> QED
  BY <1>1, <1>2, <1>3, <1>5, <1>6, <1>7, <1>8, <1>9

\* A step to the next instruction, with a trace replaced or not.
Advance ==
  /\ Walking /\ ~AtEnd
  /\ walk' = Append(Callers, NextFrame(Top))
  /\ UNCHANGED <<program, root, injected, walks>>

LEMMA InjectTraceAdvances ==
  ASSUME WalkTypes, InjectTrace
  PROVE  /\ Advance /\ Instr \in LineTraces /\ Top.idx \in 1 .. Length(Top.iseq) /\ Top.iseq \in Iseqs
         /\ OnlyTracesReplaced' /\ SameOperands'
         /\ seq'[Top.iseq][Top.idx] = EndTrace
         /\ \A j \in Iseqs : \A m \in 1 .. Length(j) :
              j # Top.iseq \/ m # Top.idx => seq'[j][m] = seq[j][m]
<1>1. /\ Advance /\ ToReplace(Instr)
      /\ seq' = [seq EXCEPT ![Top.iseq][Top.idx].ops[1] = "END"]
      /\ enc' = ReplaceEncoded(Top.iseq, Top.idx) /\ program' = program
  BY DEF InjectTrace, Advance
<1>2. Top.iseq \in Iseqs /\ Top.idx \in 1 .. Length(Top.iseq) /\ IsInstruction(Instr)
  BY <1>1, TopFrame DEF Advance
<1>3. Instr \in LineTraces
  BY <1>1, <1>2, ReplacedIsLine
<1>4. seq[Top.iseq][Top.idx] \in LineTraces
  BY <1>3 DEF Instr
<1> HIDE DEF Top
<1> QED
  BY <1>1, <1>2, <1>3, <1>4, TraceReplaced DEF WalkTypes

\* The stack of calls after each kind of step.
LEMMA CallsStep ==
  ASSUME WalkTypes, program' = program,
         \/ \E i \in Iseqs : Begin(i)
         \/ Advance
         \/ Descend
         \/ ReturnFromWalk
  PROVE  CallsAreWithin'
<1>1. \A i : Length(i)' = Length(i)
  BY DEF Length
<1>2. /\ walk \in Seq(Frames) /\ injected \subseteq Iseqs /\ root \in Iseqs \union {Null}
      /\ \A d \in 1 .. Len(walk) : walk[d].idx \in 1 .. Length(walk[d].iseq) + 1
      /\ walk # <<>> => walk[1].iseq = root
  BY DEF WalkTypes, CallsAreWithin
<1>3. ASSUME NEW i \in Iseqs, Begin(i) PROVE CallsAreWithin'
  <2> DEFINE frame == [iseq |-> i, idx |-> 1]
  <2>1. walk' = <<frame>> /\ root' = i /\ injected' = injected
    BY <1>3 DEF Begin
  <2>2. Length(i) \in Nat
    BY InstructionsFound DEF WalkTypes
  <2>3. frame \in Frames /\ frame.iseq = i /\ frame.idx = 1
    BY DEF Frames
  <2> HIDE DEF frame
  <2>4. walk' \in Seq(Frames) /\ walk' # <<>> /\ Len(walk') = 1 /\ walk'[1] = frame
    BY <2>1, <2>3
  <2> QED
    BY <1>1, <1>2, <2>1, <2>2, <2>3, <2>4 DEF CallsAreWithin, Frames
<1>4. ASSUME Walking
      PROVE  /\ Len(walk) \in Nat \ {0}
             /\ Callers \in Seq(Frames) /\ Len(Callers) = Len(walk) - 1
             /\ \A d \in 1 .. Len(walk) - 1 : Callers[d] = walk[d]
  <2>1. Top \in Frames /\ walk # <<>>
    BY <1>4, TopFrame
  <2>2. NewStacks(walk, Top, Top)
    BY <1>2, <2>1, FramesOf
  <2> QED
    BY <2>2 DEF NewStacks, Callers
<1>5. CASE Advance
  <2> DEFINE k == Len(walk)
             next == NextFrame(Top)
  <2>1. /\ Walking /\ ~AtEnd /\ walk' = Append(Callers, next)
        /\ root' = root /\ injected' = injected
    BY <1>5 DEF Advance
  <2>2. /\ next \in Frames /\ next.iseq = Top.iseq /\ next.idx \in 1 .. Length(next.iseq) + 1
        /\ Top = walk[k] /\ root \in Iseqs
    BY <2>1, TopFrame
  <2> HIDE DEF next
  <2>3. /\ walk' \in Seq(Frames) /\ Len(walk') = k /\ walk' # <<>>
        /\ walk'[k] = next
        /\ \A d \in 1 .. k - 1 : walk'[d] = walk[d]
    <3>1. Callers \in Seq(Frames) /\ Len(Callers) = k - 1 /\ k \in Nat \ {0}
          /\ \A d \in 1 .. k - 1 : Callers[d] = walk[d]
      BY <1>4, <2>1
    <3> HIDE DEF Callers, k
    <3> QED
      BY <2>1, <2>2, <3>1
  <2>4. k \in Nat \ {0} /\ \A d \in 1 .. k : d = k \/ d \in 1 .. k - 1
    BY <1>4, <2>1
  <2>5. walk'[1].iseq = root
    BY <1>2, <2>1, <2>2, <2>3, <2>4 DEF Walking
  <2>6. \A d \in 1 .. k : walk'[d].idx \in 1 .. Length(walk'[d].iseq) + 1
    BY <1>2, <2>2, <2>3, <2>4
  <2> HIDE DEF k
  <2> QED
    BY <1>1, <1>2, <2>1, <2>2, <2>3, <2>5, <2>6 DEF CallsAreWithin, Frames
<1>6. CASE Descend
  <2> DEFINE k == Len(walk)
             next == NextFrame(Top)
             child == [iseq |-> ChildOf(Instr), idx |-> 1]
  <2>1. /\ Walking /\ ~AtEnd /\ walk' = Callers \o <<next, child>> /\ ChildOf(Instr) # Null
        /\ root' = root /\ injected' = injected
    BY <1>6 DEF Descend
  <2>2. /\ next \in Frames /\ next.iseq = Top.iseq /\ next.idx \in 1 .. Length(next.iseq) + 1
        /\ Top = walk[k] /\ root \in Iseqs /\ Top.iseq \in Iseqs
        /\ Top.idx \in 1 .. Length(Top.iseq)
    BY <2>1, TopFrame
  <2>3. ChildOf(Instr) \in Iseqs
    BY <2>1, <2>2, InstructionsFound DEF WalkTypes, Instr
  <2>4. child \in Frames /\ child.idx \in 1 .. Length(child.iseq) + 1
    <3>1. Length(ChildOf(Instr)) \in Nat
      BY <2>3, InstructionsFound DEF WalkTypes
    <3> QED
      BY <2>3, <3>1 DEF Frames
  <2> HIDE DEF next, child
  <2>5. /\ walk' \in Seq(Frames) /\ Len(walk') = k + 1
        /\ walk'[k] = next /\ walk'[k + 1] = child
        /\ \A d \in 1 .. k - 1 : walk'[d] = walk[d]
    <3>1. walk \in Seq(Frames) /\ walk # <<>> /\ next \in Frames /\ child \in Frames
      BY <1>2, <2>1, <2>2, <2>4 DEF Walking
    <3> HIDE DEF Frames
    <3>2. /\ Callers \o <<next, child>> \in Seq(Frames)
          /\ Len(Callers \o <<next, child>>) = k + 1
          /\ (Callers \o <<next, child>>)[k] = next
          /\ (Callers \o <<next, child>>)[k + 1] = child
          /\ \A d \in 1 .. k - 1 : (Callers \o <<next, child>>)[d] = walk[d]
      <4>1. NewStacks(walk, next, child)
        BY <3>1, FramesOf
      <4> QED
        BY <4>1 DEF NewStacks, Callers
    <3> QED
      BY <2>1, <3>2
  <2>6. k \in Nat \ {0} /\ \A d \in 1 .. k + 1 : d = k \/ d = k + 1 \/ d \in 1 .. k - 1
    BY <1>4, <2>1
  <2>7. walk'[1].iseq = root /\ walk' # <<>>
    <3>1. walk'[1] = IF k = 1 THEN next ELSE walk[1]
      <4>1. /\ walk'[k] = next /\ k \in Nat \ {0}
            /\ \A d \in 1 .. k - 1 : walk'[d] = walk[d]
        BY <2>5, <2>6
      <4> HIDE DEF k
      <4>2. k # 1 => 1 \in 1 .. k - 1
        BY <4>1
      <4> QED
        BY <4>1, <4>2
    <3>2. k = 1 => next.iseq = walk[1].iseq
      BY <2>2
    <3>3. walk[1].iseq = root
      BY <1>2, <2>1 DEF Walking
    <3>4. walk' # <<>>
      BY <2>5, <2>6
    <3> QED
      BY <3>1, <3>2, <3>3, <3>4
  <2>8. \A d \in 1 .. k + 1 : walk'[d].idx \in 1 .. Length(walk'[d].iseq) + 1
    BY <1>2, <2>2, <2>4, <2>5, <2>6
  <2> HIDE DEF k
  <2> QED
    BY <1>1, <1>2, <2>1, <2>2, <2>5, <2>7, <2>8 DEF CallsAreWithin, Frames
<1>7. CASE ReturnFromWalk
  <2>1. /\ Walking /\ walk' = Callers /\ root' = root
        /\ injected' = IF Callers = <<>> THEN injected \union {root} ELSE injected
    BY <1>7 DEF ReturnFromWalk
  <2>2. root \in Iseqs
    BY <2>1, TopFrame
  <2>3. Callers # <<>> => Callers[1] = walk[1]
    BY <1>4, <2>1
  <2>4. \A d \in 1 .. Len(Callers) : Callers[d].idx \in 1 .. Length(Callers[d].iseq) + 1
    BY <1>2, <1>4, <2>1
  <2> QED
    BY <1>1, <1>2, <1>4, <2>1, <2>2, <2>3, <2>4 DEF CallsAreWithin, Walking, Frames
<1> QED
  BY <1>3, <1>5, <1>6, <1>7

LEMMA WalkStep == ASSUME WalkTypes, [Next]_vars PROVE WalkTypes'
<1>1. program' = program
  BY DEF Next, Begin, InjectTrace, Descend, Skip, ReturnFromWalk, vars
<1>2. UNCHANGED <<program, seq, enc>> => OnlyTracesReplaced' /\ SameOperands'
  BY DEF WalkTypes, OnlyTracesReplaced, SameOperands, IsProgram, Length
<1>3. CASE \E i \in Iseqs : Begin(i)
  BY <1>1, <1>2, <1>3, CallsStep DEF Begin, WalkTypes
<1>4. CASE InjectTrace
  BY <1>1, <1>4, InjectTraceAdvances, CallsStep DEF WalkTypes
<1>5. CASE Descend
  BY <1>1, <1>2, <1>5, CallsStep DEF Descend, WalkTypes
<1>6. CASE Skip
  BY <1>1, <1>2, <1>6, CallsStep DEF Skip, Advance, WalkTypes
<1>7. CASE ReturnFromWalk
  BY <1>1, <1>2, <1>7, CallsStep DEF ReturnFromWalk, WalkTypes
<1>8. CASE UNCHANGED vars
  BY <1>2, <1>8 DEF vars, WalkTypes, CallsAreWithin, Length
<1> QED
  BY <1>3, <1>4, <1>5, <1>6, <1>7, <1>8 DEF Next

LEMMA WalkInvariant == Spec => []WalkTypes
<1>1. Init => WalkTypes
  BY TracesInit
<1>2. WalkTypes /\ [Next]_vars => WalkTypes'
  BY WalkStep
<1> QED
  BY <1>1, <1>2, PTL DEF Spec

\* Every state has a program, instructions as the table has them, and calls of
\* iseq_inject that are within their sequences.
THEOREM TypeCorrect == Spec => []TypeOK
<1>1. ASSUME WalkTypes PROVE TypeOK
  <2>1. \A i \in Iseqs : /\ IsListOf(seq[i], Len(program.code[i]))
                         /\ Len(seq[i]) = Length(i)
                         /\ \A n \in 1 .. Len(seq[i]) : IsInstruction(seq[i][n])
    <3> SUFFICES ASSUME NEW i \in Iseqs
                 PROVE  /\ IsListOf(seq[i], Len(program.code[i]))
                        /\ Len(seq[i]) = Length(i)
                        /\ \A n \in 1 .. Len(seq[i]) : IsInstruction(seq[i][n])
      OBVIOUS
    <3>1. /\ Len(seq[i]) = Length(i) /\ Len(program.code[i]) = Length(i)
          /\ \A n \in 1 .. Length(i) : IsInstruction(seq[i][n])
      BY <1>1, InstructionsFound DEF WalkTypes
    <3>2. IsListOf(seq[i], Length(i))
      BY <1>1 DEF WalkTypes, OnlyTracesReplaced
    <3>3. IsListOf(seq[i], Len(program.code[i]))
      BY <3>2 DEF Length
    <3> QED
      BY <3>1, <3>3
  <2>2. \A d \in 1 .. Len(walk) : walk[d].iseq \in Iseqs
    <3>1. walk \in Seq(Frames)
      BY <1>1 DEF WalkTypes, CallsAreWithin
    <3>2. \A d \in 1 .. Len(walk) : walk[d] \in Frames
      BY <3>1
    <3> QED
      BY <3>2 DEF Frames
  <2>3. \A d \in 1 .. Len(walk) : walk[d].idx \in 1 .. Len(seq[walk[d].iseq]) + 1
    BY <1>1, <2>1, <2>2 DEF WalkTypes, CallsAreWithin
  <2> QED
    BY <1>1, <2>1, <2>2, <2>3 DEF TypeOK, WalkTypes, OnlyTracesReplaced, CallsAreWithin
<1> QED
  BY <1>1, WalkInvariant, PTL

\* The VM executes the operands that the instruction sequences show.
THEOREM EncodedIsSame == Spec => []EncodedAgrees
<1>1. ASSUME WalkTypes PROVE EncodedAgrees
  <2>1. \A i \in Iseqs : Len(seq[i]) = Length(i)
    BY <1>1, InstructionsFound DEF WalkTypes
  <2> QED
    BY <1>1, <2>1 DEF EncodedAgrees, WalkTypes, SameOperands
<1> QED
  BY <1>1, WalkInvariant, PTL

-----------------------------------------------------------------------------
(* Everything that a method holds.                                         *)

Closed(S) == \A j \in S : OperandsOf(j) \subseteq S

\* The sequences that have no line left, nor has any that they hold.
Clean ==
  {i \in Iseqs :
     \E S \in SUBSET Iseqs : i \in S /\ Closed(S) /\ \A j \in S : NoLineLeft(j)}

Held(i) == Reach(i, OperandsOf)

LEMMA HeldIs ==
  ASSUME NEW i
  PROVE  /\ Held(i) \subseteq Iseqs
         /\ i \in Iseqs => i \in Held(i)
         /\ \A S \in SUBSET Iseqs : i \in S /\ Closed(S) => Held(i) \subseteq S
         /\ \A j \in Held(i) : OperandsOf(j) \subseteq Iseqs => OperandsOf(j) \subseteq Held(i)
<1>1. Held(i) = {j \in Iseqs : \A S \in SUBSET Iseqs : i \in S /\ Closed(S) => j \in S}
  <2> HIDE DEF OperandsOf
  <2> QED
    BY DEF Held, Reach, Closed
<1> QED
  BY <1>1 DEF Closed

LEMMA CleanHolds ==
  ASSUME NEW i \in Clean PROVE \A j \in Held(i) : NoLineLeft(j)
  BY HeldIs DEF Clean

\* The clean sequences are closed, so that one whose operands are clean is too.
LEMMA CleanFromOperands ==
  ASSUME NEW i \in Iseqs, NoLineLeft(i), OperandsOf(i) \subseteq Iseqs,
         OperandsOf(i) \subseteq Clean
  PROVE  i \in Clean
<1> DEFINE S == Clean \union {i}
<1>1. \A j \in Clean : NoLineLeft(j) /\ OperandsOf(j) \subseteq Clean
  <2> SUFFICES ASSUME NEW j \in Clean PROVE NoLineLeft(j) /\ OperandsOf(j) \subseteq Clean
    OBVIOUS
  <2>1. PICK T \in SUBSET Iseqs : j \in T /\ Closed(T) /\ \A k \in T : NoLineLeft(k)
    BY DEF Clean
  <2>2. T \subseteq Clean
    BY <2>1 DEF Clean
  <2> QED
    BY <2>1, <2>2 DEF Closed
<1>3. S \in SUBSET Iseqs /\ i \in S
  BY DEF Clean
<1>4. Closed(S)
  BY <1>1 DEF Closed
<1>5. \A j \in S : NoLineLeft(j)
  BY <1>1
<1> HIDE DEF S
<1> QED
  BY <1>3, <1>4, <1>5 DEF Clean

\* Instructions that stay, or become traces of END.
LinesOnlyGo ==
  \A i \in Iseqs : \A n \in 1 .. Length(i) :
    seq'[i][n] = seq[i][n] \/ (seq[i][n] \in LineTraces /\ seq'[i][n] = EndTrace)

LEMMA CleanStays ==
  ASSUME OnlyTracesReplaced, OnlyTracesReplaced', program' = program, LinesOnlyGo
  PROVE  /\ \A i : Length(i)' = Length(i) /\ OperandsOf(i)' = OperandsOf(i)
         /\ \A i \in Iseqs : \A n \in 1 .. Length(i) :
              /\ seq[i][n] \notin LineTraces => seq'[i][n] \notin LineTraces
              /\ ChildOf(seq'[i][n]) = ChildOf(seq[i][n])
         /\ \A i : Held(i)' = Held(i)
         /\ Clean \subseteq Clean'
<1>1. \A i : Length(i)' = Length(i) /\ OperandsOf(i)' = OperandsOf(i)
  BY DEF Length, OperandsOf
<1>2. \A i \in Iseqs : \A n \in 1 .. Length(i) :
              /\ seq[i][n] \notin LineTraces => seq'[i][n] \notin LineTraces
              /\ ChildOf(seq'[i][n]) = ChildOf(seq[i][n])
  <2> SUFFICES ASSUME NEW i \in Iseqs, NEW n \in 1 .. Length(i)
               PROVE  /\ seq[i][n] \notin LineTraces => seq'[i][n] \notin LineTraces
                      /\ ChildOf(seq'[i][n]) = ChildOf(seq[i][n])
    OBVIOUS
  <2>1. CASE seq'[i][n] = seq[i][n]
    BY <2>1
  <2>2. CASE seq[i][n] \in LineTraces /\ seq'[i][n] = EndTrace
    <3>1. ChildOf(seq[i][n]) = Null /\ ChildOf(EndTrace) = Null
      BY <2>2, EndTraceIs
    <3> HIDE DEF EndTrace
    <3> QED
      BY <2>2, <3>1
  <2> QED
    BY <2>1, <2>2 DEF LinesOnlyGo
<1>3. ASSUME NEW i \in Iseqs, NoLineLeft(i) PROVE NoLineLeft(i)'
  <2>1. Len(seq[i]) = Length(i)
    BY InstructionsFound
  <2>2. Length(i) \in Nat /\ IsListOf(seq'[i], Length(i))
    <3>1. Length(i) \in Nat
      BY InstructionsFound
    <3>2. IsListOf(seq'[i], Length(i)')
      BY DEF OnlyTracesReplaced
    <3> QED
      BY <1>1, <3>1, <3>2 DEF IsListOf
  <2>3. Len(seq'[i]) = Length(i)
    BY <2>2, LenOfList
  <2>4. \A n \in 1 .. Length(i) : seq'[i][n] \notin LineTraces
    BY <1>2, <1>3, <2>1 DEF NoLineLeft
  <2> QED
    BY <2>3, <2>4 DEF NoLineLeft, LineTraces
<1>4. \A S : Closed(S)' <=> Closed(S)
  BY <1>1 DEF Closed
<1>5. \A i : Held(i)' = Held(i)
  BY DEF Held, Reach, OperandsOf
<1>6. ASSUME NEW i \in Clean PROVE i \in Clean'
  <2>1. PICK S \in SUBSET Iseqs : i \in S /\ Closed(S) /\ \A j \in S : NoLineLeft(j)
    BY <1>6 DEF Clean
  <2>2. Closed(S)' /\ \A j \in S : NoLineLeft(j)'
    BY <1>3, <1>4, <2>1
  <2> QED
    BY <2>1, <2>2 DEF Clean
<1> QED
  BY <1>1, <1>2, <1>5, <1>6

\* What lies before the index of a call has no line left, and what it holds is clean,
\* but for the sequence that the call has gone into.
FrameDone(d) ==
  LET i == walk[d].iseq
  IN \A n \in 1 .. Length(i) :
       n < walk[d].idx =>
         /\ seq[i][n] \notin LineTraces
         /\ ChildOf(seq[i][n]) # Null =>
              \/ ChildOf(seq[i][n]) \in Clean
              \/ /\ n = walk[d].idx - 1 /\ d < Len(walk)
                 /\ walk[d + 1].iseq = ChildOf(seq[i][n])

InjectInv ==
  /\ \A d \in 1 .. Len(walk) : FrameDone(d)
  /\ injected \subseteq Clean

\* A call of which nothing changes but what has been replaced and cleaned.
LEMMA FrameStays ==
  ASSUME WalkTypes, OnlyTracesReplaced', program' = program, LinesOnlyGo,
         NEW d \in 1 .. Len(walk), FrameDone(d),
         walk'[d] = walk[d],
         \/ d < Len(walk') /\ d < Len(walk) /\ walk'[d + 1].iseq = walk[d + 1].iseq
         \/ d < Len(walk) /\ walk[d + 1].iseq \in Clean
         \/ d = Len(walk)
  PROVE  FrameDone(d)'
<1> DEFINE i == walk[d].iseq
<1>1. i \in Iseqs
  <2>1. walk[d] \in Frames
    BY DEF WalkTypes, CallsAreWithin
  <2> QED
    BY <2>1 DEF Frames
<1>2. /\ Length(i)' = Length(i) /\ Clean \subseteq Clean'
      /\ \A n \in 1 .. Length(i) :
              /\ seq[i][n] \notin LineTraces => seq'[i][n] \notin LineTraces
              /\ ChildOf(seq'[i][n]) = ChildOf(seq[i][n])
  BY <1>1, CleanStays DEF WalkTypes
<1> SUFFICES ASSUME NEW n \in 1 .. Length(i), n < walk[d].idx
             PROVE  /\ seq'[i][n] \notin LineTraces
                    /\ ChildOf(seq'[i][n]) # Null =>
                         \/ ChildOf(seq'[i][n]) \in Clean'
                         \/ /\ n = walk[d].idx - 1 /\ d < Len(walk')
                            /\ walk'[d + 1].iseq = ChildOf(seq'[i][n])
  BY <1>2 DEF FrameDone, LineTraces
<1>3. /\ seq[i][n] \notin LineTraces
      /\ ChildOf(seq[i][n]) # Null =>
           \/ ChildOf(seq[i][n]) \in Clean
           \/ /\ n = walk[d].idx - 1 /\ d < Len(walk)
              /\ walk[d + 1].iseq = ChildOf(seq[i][n])
  BY DEF FrameDone
<1>4. Len(walk) \in Nat
  BY DEF WalkTypes, CallsAreWithin
<1> HIDE DEF i
<1>5. ChildOf(seq'[i][n]) = ChildOf(seq[i][n]) /\ seq'[i][n] \notin LineTraces
  BY <1>2, <1>3
<1> QED
  BY <1>2, <1>3, <1>4, <1>5

\* The stack as a step finds it.
LEMMA StackIs ==
  ASSUME WalkTypes, Walking
  PROVE  /\ Len(walk) \in Nat \ {0} /\ Top = walk[Len(walk)]
         /\ Callers \in Seq(Frames) /\ Len(Callers) = Len(walk) - 1
         /\ \A d \in 1 .. Len(walk) - 1 : Callers[d] = walk[d]
         /\ \A f \in Frames :
              /\ Len(Append(Callers, f)) = Len(walk) /\ Append(Callers, f)[Len(walk)] = f
              /\ \A d \in 1 .. Len(walk) - 1 : Append(Callers, f)[d] = walk[d]
         /\ \A f, g \in Frames :
              /\ Len(Callers \o <<f, g>>) = Len(walk) + 1
              /\ (Callers \o <<f, g>>)[Len(walk)] = f /\ (Callers \o <<f, g>>)[Len(walk) + 1] = g
              /\ \A d \in 1 .. Len(walk) - 1 : (Callers \o <<f, g>>)[d] = walk[d]
<1>1. walk \in Seq(Frames) /\ walk # <<>> /\ Top \in Frames /\ Top = walk[Len(walk)]
  BY TopFrame
<1>2. ASSUME NEW f \in Frames, NEW g \in Frames PROVE NewStacks(walk, f, g)
  BY <1>1, FramesOf
<1>3. \E f \in Frames : TRUE
  BY <1>1
<1>4. /\ Len(walk) \in Nat \ {0}
      /\ Callers \in Seq(Frames) /\ Len(Callers) = Len(walk) - 1
      /\ \A d \in 1 .. Len(walk) - 1 : Callers[d] = walk[d]
  BY <1>2, <1>3 DEF NewStacks, Callers
<1>5. ASSUME NEW f \in Frames
      PROVE  /\ Len(Append(Callers, f)) = Len(walk) /\ Append(Callers, f)[Len(walk)] = f
             /\ \A d \in 1 .. Len(walk) - 1 : Append(Callers, f)[d] = walk[d]
  <2>1. NewStacks(walk, f, f)
    BY <1>2
  <2> QED
    BY <2>1 DEF NewStacks, Callers
<1>6. ASSUME NEW f \in Frames, NEW g \in Frames
      PROVE  /\ Len(Callers \o <<f, g>>) = Len(walk) + 1
             /\ (Callers \o <<f, g>>)[Len(walk)] = f /\ (Callers \o <<f, g>>)[Len(walk) + 1] = g
             /\ \A d \in 1 .. Len(walk) - 1 : (Callers \o <<f, g>>)[d] = walk[d]
  <2>1. NewStacks(walk, f, g)
    BY <1>2
  <2> QED
    BY <2>1 DEF NewStacks, Callers
<1> HIDE DEF Callers, Frames, Top
<1> QED
  BY <1>1, <1>4, <1>5, <1>6

\* A step to the next instruction, which has no line and no child.
LEMMA AdvanceKeeps ==
  ASSUME WalkTypes, InjectInv, Advance, OnlyTracesReplaced', LinesOnlyGo,
         seq'[Top.iseq][Top.idx] \notin LineTraces,
         ChildOf(seq'[Top.iseq][Top.idx]) = Null
  PROVE  InjectInv'
<1> DEFINE k == Len(walk)
           next == NextFrame(Top)
           i == Top.iseq
<1>1. Walking /\ ~AtEnd /\ walk' = Append(Callers, next) /\ injected' = injected
      /\ program' = program
  BY DEF Advance
<1>2. /\ k \in Nat \ {0} /\ Top = walk[k] /\ i \in Iseqs /\ Top.idx \in 1 .. Length(i)
      /\ next \in Frames /\ next.iseq = i /\ next.idx = Top.idx + 1
  BY <1>1, TopFrame
<1>3. /\ Len(walk') = k /\ walk'[k] = next
      /\ \A d \in 1 .. k - 1 : walk'[d] = walk[d]
  BY <1>1, <1>2, StackIs
<1>4. /\ Clean \subseteq Clean'
      /\ \A n \in 1 .. Length(i) :
           /\ seq[i][n] \notin LineTraces => seq'[i][n] \notin LineTraces
           /\ ChildOf(seq'[i][n]) = ChildOf(seq[i][n])
  <2>1. OnlyTracesReplaced
    BY DEF WalkTypes
  <2>2. /\ Clean \subseteq Clean'
        /\ \A j \in Iseqs : \A n \in 1 .. Length(j) :
             /\ seq[j][n] \notin LineTraces => seq'[j][n] \notin LineTraces
             /\ ChildOf(seq'[j][n]) = ChildOf(seq[j][n])
    BY <1>1, <2>1, CleanStays
  <2> QED
    BY <1>2, <2>2
<1>5. ASSUME NEW d \in 1 .. k - 1 PROVE FrameDone(d)'
  <2>1. walk'[d + 1].iseq = walk[d + 1].iseq
    <3>1. d + 1 \in 1 .. k - 1 \/ d + 1 = k
      BY <1>2
    <3> QED
      BY <1>2, <1>3, <3>1
  <2>2. d \in 1 .. k /\ d < k /\ walk'[d] = walk[d] /\ FrameDone(d)
    BY <1>2, <1>3 DEF InjectInv
  <2> QED
    BY <1>1, <1>3, <2>1, <2>2, FrameStays
<1>6. ASSUME NEW d, d = k PROVE FrameDone(d)'
  <2>1. ASSUME NEW n \in 1 .. Length(i), n < next.idx
        PROVE  /\ seq'[i][n] \notin LineTraces
               /\ ChildOf(seq'[i][n]) # Null => ChildOf(seq'[i][n]) \in Clean'
    <3>1. CASE n = Top.idx
      BY <3>1
    <3>2. CASE n < Top.idx
      <4>1. FrameDone(k)
        BY <1>2 DEF InjectInv
      <4>2. /\ seq[i][n] \notin LineTraces
            /\ ChildOf(seq[i][n]) # Null => ChildOf(seq[i][n]) \in Clean
        BY <1>2, <3>2, <4>1 DEF FrameDone
      <4> QED
        BY <1>4, <4>2
    <3> QED
      BY <1>2, <2>1, <3>1, <3>2
  <2>2. walk'[d].iseq = i /\ walk'[d].idx = next.idx
    BY <1>2, <1>3, <1>6
  <2> HIDE DEF i, next
  <2>3. \A n \in 1 .. Length(walk'[d].iseq) :
          n < walk'[d].idx =>
            /\ seq'[walk'[d].iseq][n] \notin LineTraces
            /\ ChildOf(seq'[walk'[d].iseq][n]) # Null =>
                 ChildOf(seq'[walk'[d].iseq][n]) \in Clean'
    BY <2>1, <2>2
  <2>4. \A j : Length(j)' = Length(j)
    BY <1>1 DEF Length
  <2> QED
    BY <2>3, <2>4 DEF FrameDone, LineTraces
<1> QED
  BY <1>1, <1>3, <1>4, <1>5, <1>6 DEF InjectInv

\* A step that leaves the program and the instructions alone.
LEMMA SameInstructions ==
  ASSUME WalkTypes, program' = program, seq' = seq
  PROVE  /\ OnlyTracesReplaced' /\ LinesOnlyGo
         /\ \A i : Length(i)' = Length(i)
         /\ Clean \subseteq Clean'
<1>1. OnlyTracesReplaced' /\ LinesOnlyGo /\ OnlyTracesReplaced
  BY DEF WalkTypes, OnlyTracesReplaced, IsProgram, Length, LinesOnlyGo
<1>2. Clean \subseteq Clean'
  BY <1>1, CleanStays
<1> QED
  BY <1>1, <1>2 DEF Length

\* A step into the sequence that an instruction holds.
LEMMA DescendKeeps ==
  ASSUME WalkTypes, InjectInv, Descend
  PROVE  InjectInv'
<1> DEFINE k == Len(walk)
           next == NextFrame(Top)
           child == [iseq |-> ChildOf(Instr), idx |-> 1]
           i == Top.iseq
<1>1. /\ Walking /\ ~AtEnd /\ walk' = Callers \o <<next, child>> /\ ChildOf(Instr) # Null
      /\ injected' = injected /\ program' = program /\ seq' = seq
  BY DEF Descend
<1>2. /\ k \in Nat \ {0} /\ Top = walk[k] /\ i \in Iseqs /\ Top.idx \in 1 .. Length(i)
      /\ next \in Frames /\ next.iseq = i /\ next.idx = Top.idx + 1
      /\ IsInstruction(Instr)
  BY <1>1, TopFrame
<1>3. ChildOf(Instr) \in Iseqs
  BY <1>1, <1>2, InstructionsFound DEF WalkTypes, Instr
<1>4. child \in Frames /\ child.iseq = ChildOf(Instr) /\ child.idx = 1
  BY <1>3 DEF Frames
<1>5. /\ Len(walk') = k + 1 /\ walk'[k] = next /\ walk'[k + 1] = child
      /\ \A d \in 1 .. k - 1 : walk'[d] = walk[d]
  <2> HIDE DEF next, child
  <2> QED
    BY <1>1, <1>2, <1>4, StackIs
<1>6. /\ OnlyTracesReplaced' /\ LinesOnlyGo /\ Clean \subseteq Clean'
      /\ \A j : Length(j)' = Length(j)
  BY <1>1, SameInstructions
<1>7. ASSUME NEW d \in 1 .. k - 1 PROVE FrameDone(d)'
  <2>1. walk'[d + 1].iseq = walk[d + 1].iseq
    <3>1. d + 1 \in 1 .. k - 1 \/ d + 1 = k
      BY <1>2
    <3> QED
      BY <1>2, <1>5, <3>1
  <2>2. d \in 1 .. k /\ d < k /\ d < k + 1 /\ walk'[d] = walk[d] /\ FrameDone(d)
    BY <1>2, <1>5 DEF InjectInv
  <2> QED
    BY <1>1, <1>5, <1>6, <2>1, <2>2, FrameStays
<1>8. Instr \notin LineTraces
  BY <1>1, EndTraceIs
<1>9. ASSUME NEW d, d = k PROVE FrameDone(d)'
  <2>1. ASSUME NEW n \in 1 .. Length(i), n < next.idx
        PROVE  /\ seq[i][n] \notin LineTraces
               /\ ChildOf(seq[i][n]) # Null =>
                    \/ ChildOf(seq[i][n]) \in Clean
                    \/ n = next.idx - 1 /\ child.iseq = ChildOf(seq[i][n])
    <3>1. CASE n = Top.idx
      <4>1. seq[i][n] = Instr
        BY <3>1 DEF Instr
      <4>2. n = next.idx - 1
        BY <1>2, <3>1
      <4> HIDE DEF child, i
      <4> QED
        BY <1>4, <1>8, <4>1, <4>2
    <3>2. CASE n < Top.idx
      <4>1. FrameDone(k)
        BY <1>2 DEF InjectInv
      <4>2. /\ seq[i][n] \notin LineTraces
            /\ ChildOf(seq[i][n]) # Null => ChildOf(seq[i][n]) \in Clean
        BY <1>2, <3>2, <4>1 DEF FrameDone
      <4> QED
        BY <4>2
    <3> QED
      BY <1>2, <2>1, <3>1, <3>2
  <2>2. walk'[d].iseq = i /\ walk'[d].idx = next.idx /\ walk'[d + 1] = child
        /\ d < Len(walk')
    BY <1>2, <1>5, <1>9
  <2> HIDE DEF i, next, child
  <2>3. \A n \in 1 .. Length(walk'[d].iseq) :
          n < walk'[d].idx =>
            /\ seq'[walk'[d].iseq][n] \notin LineTraces
            /\ ChildOf(seq'[walk'[d].iseq][n]) # Null =>
                 \/ ChildOf(seq'[walk'[d].iseq][n]) \in Clean'
                 \/ /\ n = walk'[d].idx - 1 /\ d < Len(walk')
                    /\ walk'[d + 1].iseq = ChildOf(seq'[walk'[d].iseq][n])
    BY <1>1, <1>6, <2>1, <2>2
  <2> QED
    BY <1>6, <2>3 DEF FrameDone, LineTraces
<1>10. ASSUME NEW d, d = k + 1 PROVE FrameDone(d)'
  <2>1. walk'[d].idx = 1
    BY <1>4, <1>5, <1>10
  <2>2. \A n \in 1 .. Length(walk'[d].iseq) : ~(n < walk'[d].idx)
    BY <2>1
  <2> QED
    BY <1>6, <2>2 DEF FrameDone
<1>11. \A d \in 1 .. k + 1 : d = k \/ d = k + 1 \/ d \in 1 .. k - 1
  BY <1>2
<1> HIDE DEF k
<1> QED
  BY <1>1, <1>5, <1>6, <1>7, <1>9, <1>10, <1>11 DEF InjectInv

\* A call that returns leaves its sequence, and all it holds, clean.
LEMMA ReturnKeeps ==
  ASSUME WalkTypes, InjectInv, ReturnFromWalk
  PROVE  InjectInv'
<1> DEFINE k == Len(walk)
           i == Top.iseq
<1>1. /\ Walking /\ AtEnd /\ walk' = Callers
      /\ injected' = IF Callers = <<>> THEN injected \union {root} ELSE injected
      /\ program' = program /\ seq' = seq
  BY DEF ReturnFromWalk
<1>2. /\ k \in Nat \ {0} /\ Top = walk[k] /\ i \in Iseqs /\ Top.idx = Length(i) + 1
      /\ Length(i) \in Nat /\ Len(seq[i]) = Length(i)
  BY <1>1, TopFrame
<1>3. /\ Len(walk') = k - 1 /\ \A d \in 1 .. k - 1 : walk'[d] = walk[d]
  BY <1>1, StackIs
<1>4. /\ OnlyTracesReplaced' /\ LinesOnlyGo /\ Clean \subseteq Clean'
  BY <1>1, SameInstructions
<1>5. i \in Clean
  <2>1. FrameDone(k)
    BY <1>2 DEF InjectInv
  <2>2. \A n \in 1 .. Length(i) : /\ seq[i][n] \notin LineTraces
                                  /\ ChildOf(seq[i][n]) # Null => ChildOf(seq[i][n]) \in Clean
    BY <1>2, <2>1 DEF FrameDone
  <2>3. NoLineLeft(i)
    BY <1>2, <2>2 DEF NoLineLeft
  <2>4. /\ OperandsOf(i) \subseteq Iseqs
        /\ \A c \in OperandsOf(i) : c # Null /\ \E n \in 1 .. Length(i) : c = ChildOf(seq[i][n])
    BY <1>2, InstructionsFound DEF WalkTypes
  <2>5. OperandsOf(i) \subseteq Clean
    BY <2>2, <2>4
  <2> HIDE DEF i
  <2> QED
    BY <1>2, <2>3, <2>4, <2>5, CleanFromOperands
<1>6. ASSUME NEW d \in 1 .. k - 1 PROVE FrameDone(d)'
  <2>1. d \in 1 .. k /\ d < k /\ walk'[d] = walk[d] /\ FrameDone(d)
    BY <1>2, <1>3 DEF InjectInv
  <2>2. CASE d = k - 1
    <3>1. d + 1 = k
      BY <1>2, <2>2
    <3>2. walk[d + 1].iseq \in Clean
      BY <1>2, <1>5, <3>1
    <3> QED
      BY <1>1, <1>4, <2>1, <3>2, FrameStays
  <2>3. CASE d # k - 1
    <3>1. d + 1 \in 1 .. k - 1 /\ d < k - 1
      BY <1>2, <2>3
    <3>2. walk'[d + 1].iseq = walk[d + 1].iseq /\ d < Len(walk')
      BY <1>3, <3>1
    <3> QED
      BY <1>1, <1>4, <2>1, <3>2, FrameStays
  <2> QED
    BY <2>2, <2>3
<1>7. injected' \subseteq Clean'
  <2>1. Callers = <<>> => root = i
    <3>1. Callers = <<>> => k = 1
      BY <1>1, <1>2, <1>3
    <3> QED
      BY <1>1, <1>2, <3>1 DEF WalkTypes, CallsAreWithin, Walking
  <2> QED
    BY <1>1, <1>4, <1>5, <2>1 DEF InjectInv
<1> HIDE DEF k
<1> QED
  BY <1>3, <1>6, <1>7 DEF InjectInv

LEMMA InjectStep ==
  ASSUME WalkTypes, WalkTypes', InjectInv, [Next]_vars PROVE InjectInv'
<1>1. ASSUME NEW i \in Iseqs, Begin(i) PROVE InjectInv'
  <2>1. /\ walk' = <<[iseq |-> i, idx |-> 1]>> /\ injected' = injected
        /\ program' = program /\ seq' = seq
    BY <1>1 DEF Begin
  <2>2. Clean \subseteq Clean' /\ \A j : Length(j)' = Length(j)
    BY <2>1, SameInstructions
  <2>3. Len(walk') = 1 /\ walk'[1].idx = 1
    BY <2>1
  <2>4. ASSUME NEW d \in 1 .. Len(walk') PROVE FrameDone(d)'
    <3>1. walk'[d].idx = 1
      BY <2>3
    <3>2. \A n \in 1 .. Length(walk'[d].iseq) : ~(n < walk'[d].idx)
      BY <3>1
    <3> QED
      BY <2>2, <3>2 DEF FrameDone
  <2> QED
    BY <2>1, <2>2, <2>4 DEF InjectInv
<1>2. CASE InjectTrace
  <2>1. /\ Advance /\ OnlyTracesReplaced' /\ seq'[Top.iseq][Top.idx] = EndTrace
        /\ Instr \in LineTraces
        /\ \A j \in Iseqs : \A m \in 1 .. Length(j) :
             j # Top.iseq \/ m # Top.idx => seq'[j][m] = seq[j][m]
    BY <1>2, InjectTraceAdvances
  <2>2. LinesOnlyGo
    BY <2>1 DEF LinesOnlyGo, Instr
  <2> QED
    BY <2>1, <2>2, AdvanceKeeps, EndTraceIs
<1>3. CASE Descend
  BY <1>3, DescendKeeps
<1>4. CASE Skip
  <2>1. Advance /\ ~ToReplace(Instr) /\ ChildOf(Instr) = Null /\ program' = program /\ seq' = seq
    BY <1>4 DEF Skip, Advance
  <2>2. IsInstruction(Instr)
    BY <2>1, TopFrame DEF Advance
  <2>3. Instr \notin LineTraces
    BY <2>1, <2>2, ReplacedIsLine
  <2>4. seq'[Top.iseq][Top.idx] = Instr
    BY <2>1 DEF Instr
  <2>5. OnlyTracesReplaced' /\ LinesOnlyGo
    BY <2>1, SameInstructions
  <2> QED
    BY <2>1, <2>3, <2>4, <2>5, AdvanceKeeps
<1>5. CASE ReturnFromWalk
  BY <1>5, ReturnKeeps
<1>6. CASE UNCHANGED vars
  <2>1. walk' = walk /\ injected' = injected /\ program' = program /\ seq' = seq
    BY <1>6 DEF vars
  <2>2. OnlyTracesReplaced' /\ LinesOnlyGo /\ Clean \subseteq Clean'
    BY <2>1, SameInstructions
  <2>3. Len(walk) \in Nat
    BY DEF WalkTypes, CallsAreWithin
  <2>4. ASSUME NEW d \in 1 .. Len(walk) PROVE FrameDone(d)'
    <3>1. FrameDone(d) /\ (d = Len(walk) \/ d < Len(walk))
      BY <2>3 DEF InjectInv
    <3> QED
      BY <2>1, <2>2, <3>1, FrameStays
  <2> QED
    BY <2>1, <2>2, <2>4 DEF InjectInv
<1> QED
  BY <1>1, <1>2, <1>3, <1>4, <1>5, <1>6 DEF Next

\* Of every method that iseq_inject has returned for, no sequence held as an operand
\* at any depth still traces a line or its return.
THEOREM AllLinesReplaced == Spec => []InjectedThroughout
<1>1. Init => WalkTypes /\ InjectInv
  <2>1. ASSUME Init PROVE InjectInv
    BY <2>1 DEF Init, InjectInv
  <2> QED
    BY <2>1, TracesInit
<1>2. (WalkTypes /\ InjectInv) /\ [Next]_vars => (WalkTypes /\ InjectInv)'
  BY WalkStep, InjectStep
<1>3. WalkTypes /\ InjectInv => InjectedThroughout
  <2> SUFFICES ASSUME InjectInv, NEW r \in injected
               PROVE  \A i \in Reach(r, OperandsOf) : NoLineLeft(i)
    BY DEF InjectedThroughout
  <2>1. r \in Clean
    BY DEF InjectInv
  <2> QED
    BY <2>1, CleanHolds DEF Held
<1> QED
  BY <1>1, <1>2, <1>3, PTL DEF Spec

-----------------------------------------------------------------------------
(* Nothing but the lines of profiled methods.                              *)

Changed(i) == \E n \in 1 .. Length(i) : seq[i][n] # program.code[i][n]

Owners == (injected \union {root}) \ {Null}

\* The walk stays in what the method holds, and changes belong to walked methods.
WithinMethods ==
  /\ \A d \in 1 .. Len(walk) : walk[d].iseq \in Held(root)
  /\ \A i \in Iseqs : Changed(i) => \E r \in Owners : i \in Held(r)

LEMMA WithinStep ==
  ASSUME WalkTypes, WalkTypes', WithinMethods, [Next]_vars PROVE WithinMethods'
<1>1. program' = program
  BY DEF Next, Begin, InjectTrace, Descend, Skip, ReturnFromWalk, vars
<1>2. \A i : Held(i)' = Held(i) /\ Length(i)' = Length(i)
  BY <1>1 DEF Held, Reach, OperandsOf, Length
<1>3. seq' = seq => \A i : Changed(i)' <=> Changed(i)
  BY <1>1, <1>2 DEF Changed
<1>4. ASSUME NEW i \in Iseqs, Begin(i) PROVE WithinMethods'
  <2>1. /\ walk' = <<[iseq |-> i, idx |-> 1]>> /\ injected' = injected /\ root' = i
        /\ seq' = seq /\ walk = <<>>
    BY <1>4 DEF Begin, Walking
  <2>2. \A d \in 1 .. Len(walk') : walk'[d].iseq = i
    BY <2>1
  <2>3. i \in Held(i)
    BY HeldIs
  <2>4. Owners \subseteq Owners'
    BY <2>1 DEF Owners, WalkTypes, CallsAreWithin
  <2> QED
    BY <1>2, <1>3, <2>1, <2>2, <2>3, <2>4 DEF WithinMethods
<1>5. ASSUME Advance,
             \A j \in Iseqs : Changed(j)' => Changed(j) \/ j = Top.iseq
      PROVE  WithinMethods'
  <2> DEFINE k == Len(walk)
             next == NextFrame(Top)
  <2>1. /\ Walking /\ walk' = Append(Callers, next) /\ injected' = injected /\ root' = root
    BY <1>5 DEF Advance
  <2>2. /\ k \in Nat \ {0} /\ Top = walk[k] /\ next \in Frames /\ next.iseq = Top.iseq
        /\ root \in Iseqs
    BY <2>1, TopFrame
  <2>3. /\ Len(walk') = k /\ walk'[k] = next
        /\ \A d \in 1 .. k - 1 : walk'[d] = walk[d]
    BY <2>1, <2>2, StackIs
  <2>4. Top.iseq \in Held(root)
    BY <2>2 DEF WithinMethods
  <2> HIDE DEF next
  <2>5. \A d \in 1 .. k : walk'[d].iseq \in Held(root)
    <3>1. \A d \in 1 .. k : d = k \/ d \in 1 .. k - 1
      BY <2>2
    <3> QED
      BY <2>2, <2>3, <2>4, <3>1 DEF WithinMethods
  <2>6. root \in Owners /\ Owners' = Owners
    BY <2>1, <2>2, IseqsAssumption DEF Owners
  <2>7. ASSUME NEW j \in Iseqs, Changed(j)' PROVE \E r \in Owners : j \in Held(r)
    BY <1>5, <2>4, <2>6, <2>7 DEF WithinMethods
  <2> QED
    BY <1>2, <2>1, <2>3, <2>5, <2>6, <2>7 DEF WithinMethods
<1>6. CASE InjectTrace
  <2>1. /\ Advance
        /\ \A j \in Iseqs : \A m \in 1 .. Length(j) :
             j # Top.iseq \/ m # Top.idx => seq'[j][m] = seq[j][m]
    BY <1>6, InjectTraceAdvances
  <2>2. \A j \in Iseqs : Changed(j)' => Changed(j) \/ j = Top.iseq
    BY <1>1, <1>2, <2>1 DEF Changed
  <2> QED
    BY <1>5, <2>1, <2>2
<1>7. CASE Skip
  BY <1>3, <1>5, <1>7 DEF Skip, Advance
<1>8. CASE Descend
  <2> DEFINE k == Len(walk)
             next == NextFrame(Top)
             child == [iseq |-> ChildOf(Instr), idx |-> 1]
  <2>1. /\ Walking /\ ~AtEnd /\ walk' = Callers \o <<next, child>> /\ ChildOf(Instr) # Null
        /\ injected' = injected /\ root' = root /\ seq' = seq
    BY <1>8 DEF Descend
  <2>2. /\ k \in Nat \ {0} /\ Top = walk[k] /\ next \in Frames /\ next.iseq = Top.iseq
        /\ root \in Iseqs /\ Top.iseq \in Iseqs /\ Top.idx \in 1 .. Length(Top.iseq)
    BY <2>1, TopFrame
  <2>3. /\ ChildOf(Instr) \in OperandsOf(Top.iseq) /\ OperandsOf(Top.iseq) \subseteq Iseqs
    BY <2>1, <2>2, InstructionsFound DEF WalkTypes, Instr
  <2>4. child \in Frames /\ child.iseq = ChildOf(Instr)
    BY <2>3 DEF Frames
  <2>5. Top.iseq \in Held(root)
    BY <2>2 DEF WithinMethods
  <2>6. ChildOf(Instr) \in Held(root)
    BY <2>3, <2>5, HeldIs
  <2> HIDE DEF next, child
  <2>7. /\ Len(walk') = k + 1 /\ walk'[k] = next /\ walk'[k + 1] = child
        /\ \A d \in 1 .. k - 1 : walk'[d] = walk[d]
    BY <2>1, <2>2, <2>4, StackIs
  <2>8. \A d \in 1 .. k + 1 : walk'[d].iseq \in Held(root)
    <3>1. \A d \in 1 .. k + 1 : d = k \/ d = k + 1 \/ d \in 1 .. k - 1
      BY <2>2
    <3>2. \A d \in 1 .. k - 1 : walk'[d].iseq \in Held(root)
      BY <2>2, <2>7 DEF WithinMethods
    <3> QED
      BY <2>2, <2>4, <2>5, <2>6, <2>7, <3>1, <3>2
  <2>9. Owners' = Owners
    BY <2>1 DEF Owners
  <2> QED
    BY <1>2, <1>3, <2>1, <2>7, <2>8, <2>9 DEF WithinMethods
<1>9. CASE ReturnFromWalk
  <2>1. /\ Walking /\ walk' = Callers /\ root' = root /\ seq' = seq
        /\ injected \subseteq injected'
    BY <1>9 DEF ReturnFromWalk
  <2>2. /\ Len(walk') = Len(walk) - 1 /\ Len(walk) \in Nat
        /\ \A d \in 1 .. Len(walk) - 1 : walk'[d] = walk[d]
    BY <2>1, StackIs
  <2>3. \A d \in 1 .. Len(walk') : walk'[d].iseq \in Held(root)
    BY <2>2 DEF WithinMethods
  <2>4. Owners \subseteq Owners'
    BY <2>1 DEF Owners
  <2> QED
    BY <1>2, <1>3, <2>1, <2>3, <2>4 DEF WithinMethods
<1>10. CASE UNCHANGED vars
  <2>1. walk' = walk /\ root' = root /\ injected' = injected /\ seq' = seq
    BY <1>10 DEF vars
  <2> QED
    BY <1>2, <1>3, <2>1 DEF WithinMethods, Owners
<1> QED
  BY <1>4, <1>6, <1>7, <1>8, <1>9, <1>10 DEF Next

\* Whatever has changed was a trace of LINE or RETURN, is now one of END, and belongs
\* to a method that is being or has been profiled.
THEOREM OnlyTheMethodsLines == Spec => []OnlyLinesChange
<1>1. Init => WalkTypes /\ WithinMethods
  <2>1. ASSUME Init PROVE WithinMethods
    BY <2>1 DEF Init, WithinMethods, Changed
  <2> QED
    BY <2>1, TracesInit
<1>2. (WalkTypes /\ WithinMethods) /\ [Next]_vars => (WalkTypes /\ WithinMethods)'
  BY WalkStep, WithinStep
<1>3. WalkTypes /\ WithinMethods => OnlyLinesChange
  <2> SUFFICES ASSUME WalkTypes, WithinMethods,
                      NEW i \in Iseqs, NEW n \in 1 .. Length(i), seq[i][n] # program.code[i][n]
               PROVE  /\ program.code[i][n] \in LineTraces
                      /\ seq[i][n] = EndTrace
                      /\ \E r \in Owners : i \in Held(r)
    BY DEF OnlyLinesChange, Length, EndTrace, Owners, Held
  <2>1. program.code[i][n] \in LineTraces /\ seq[i][n] = EndTrace
    BY DEF WalkTypes, OnlyTracesReplaced
  <2>2. \E r \in Owners : i \in Held(r)
    BY DEF WithinMethods, Changed
  <2> QED
    BY <2>1, <2>2
<1> QED
  BY <1>1, <1>2, <1>3, PTL DEF Spec

-----------------------------------------------------------------------------
(* The recursion descends.                                                 *)

\* What the call for i has still to come to, with its return; 0 if there is none.
LeftIn(i) ==
  LET calls == {d \in DOMAIN walk : walk[d].iseq = i}
  IN IF calls = {} THEN 0 ELSE Len(seq[i]) + 2 - walk[CHOOSE d \in calls : TRUE].idx

\* Each step of iseq_inject leaves less to do: a call comes nearer to its end, or ends, and
\* calls begin only for sequences with larger numbers, of which there are finitely many.
WalkDescends ==
  [][iseq_inject =>
       \E i \in Iseqs : /\ LeftIn(i)' \in 0 .. LeftIn(i) - 1
                        /\ \A j \in Iseqs : j < i => LeftIn(j)' = LeftIn(j)]_vars

\* A call is made only for a sequence with a larger number than those of its callers.
Ascends(w) == \A d, e \in 1 .. Len(w) : d < e => w[d].iseq < w[e].iseq
Ascending == Ascends(walk)

\* The stacks that the steps make.
LEMMA StacksAfter ==
  ASSUME WalkTypes, WalkTypes', Walking, NEW k \in Nat, k = Len(walk)
  PROVE  /\ Advance => /\ Len(walk') = k /\ walk'[k].iseq = walk[k].iseq
                       /\ walk'[k].idx = walk[k].idx + 1
                       /\ \A d \in 1 .. k - 1 : walk'[d] = walk[d]
         /\ Descend => /\ Len(walk') = k + 1 /\ walk'[k].iseq = walk[k].iseq
                       /\ walk'[k].idx = walk[k].idx + 1
                       /\ walk[k].iseq < walk'[k + 1].iseq
                       /\ \A d \in 1 .. k - 1 : walk'[d] = walk[d]
         /\ ReturnFromWalk => Len(walk') = k - 1 /\ \A d \in 1 .. k - 1 : walk'[d] = walk[d]
<1>1. /\ k \in Nat \ {0} /\ walk \in Seq(Frames) /\ walk # <<>> /\ Top = walk[k] /\ Top \in Frames
      /\ Top.iseq \in Iseqs /\ NextFrame(Top) \in Frames
      /\ NextFrame(Top).iseq = Top.iseq /\ NextFrame(Top).idx = Top.idx + 1
      /\ ~AtEnd => Top.idx \in 1 .. Length(Top.iseq)
  BY TopFrame
<1>2. ASSUME NEW g \in Frames PROVE NewStacks(walk, NextFrame(Top), g)
  BY <1>1, FramesOf
<1>3. NewStacks(walk, NextFrame(Top), NextFrame(Top))
  BY <1>1, <1>2
<1>4. ASSUME Advance
      PROVE  /\ Len(walk') = k /\ walk'[k] = NextFrame(Top)
             /\ \A d \in 1 .. k - 1 : walk'[d] = walk[d]
  BY <1>3, <1>4 DEF NewStacks, Advance, Callers
<1>5. ASSUME ReturnFromWalk
      PROVE  Len(walk') = k - 1 /\ \A d \in 1 .. k - 1 : walk'[d] = walk[d]
  BY <1>3, <1>5 DEF NewStacks, ReturnFromWalk, Callers
<1>6. ASSUME Descend
      PROVE  /\ Len(walk') = k + 1 /\ walk'[k] = NextFrame(Top)
             /\ walk[k].iseq < walk'[k + 1].iseq
             /\ \A d \in 1 .. k - 1 : walk'[d] = walk[d]
  <2> DEFINE child == [iseq |-> ChildOf(Instr), idx |-> 1]
  <2>1. ~AtEnd /\ ChildOf(Instr) # Null /\ walk' = Callers \o <<NextFrame(Top), child>>
    BY <1>6 DEF Descend
  <2>2. ChildOf(Instr) \in Iseqs /\ Top.iseq < ChildOf(Instr)
    <3>1. Top.idx \in 1 .. Length(Top.iseq) /\ Instr = seq[Top.iseq][Top.idx]
      BY <2>1, <1>1 DEF Instr
    <3>2. ChildOf(Instr) \in OperandsOf(Top.iseq) /\ OperandsOf(Top.iseq) \subseteq Iseqs
      BY <2>1, <3>1, <1>1, InstructionsFound DEF WalkTypes
    <3>3. PICK n \in 1 .. Length(Top.iseq) : ChildOf(Instr) \in IseqOperands(program.code[Top.iseq][n])
      BY <3>2 DEF OperandsOf, Length
    <3>4. ChildOf(Instr) > Top.iseq
      BY <3>3, <1>1 DEF WalkTypes, OnlyTracesReplaced, IsProgram, Length
    <3> QED
      BY <3>2, <3>4, <1>1, IseqsAssumption
  <2>3. child \in Frames /\ child.iseq = ChildOf(Instr)
    BY <2>2 DEF Frames
  <2> HIDE DEF child
  <2>4. NewStacks(walk, NextFrame(Top), child)
    BY <2>3, <1>2
  <2>5. /\ Len(walk') = k + 1 /\ walk'[k] = NextFrame(Top) /\ walk'[k + 1] = child
        /\ \A d \in 1 .. k - 1 : walk'[d] = walk[d]
    BY <2>1, <2>4 DEF NewStacks, Callers
  <2> QED
    BY <2>2, <2>3, <2>5, <1>1
<1> QED
  BY <1>1, <1>4, <1>5, <1>6

\* What a frame of any stack names.
LEMMA IseqOfFrame ==
  ASSUME NEW w \in Seq(Frames), NEW d \in 1 .. Len(w)
  PROVE  w[d].iseq \in Iseqs /\ w[d].iseq \in Nat
<1>1. w[d] \in Frames
  OBVIOUS
<1>2. w[d].iseq \in Iseqs
  BY <1>1 DEF Frames
<1> QED
  BY <1>2, IseqsAssumption

LEMMA AscendsAfter ==
  ASSUME WalkTypes, WalkTypes', Ascending, [Next]_vars PROVE Ascending'
<1>1. \A d \in 1 .. Len(walk) : walk[d].iseq \in Nat
  BY IseqOfFrame DEF WalkTypes, CallsAreWithin
<1>2. CASE \E i \in Iseqs : Begin(i)
  <2>1. Len(walk') = 1
    BY <1>2 DEF Begin
  <2> QED
    BY <2>1 DEF Ascending, Ascends
<1>3. CASE Advance
  <2>1. Walking /\ walk' = Append(Callers, NextFrame(Top))
    BY <1>3 DEF Advance
  <2>2. PICK k \in Nat \ {0} : k = Len(walk)
    BY <2>1, TopFrame
  <2>3. /\ Len(walk') = k /\ walk'[k].iseq = walk[k].iseq
        /\ \A d \in 1 .. k - 1 : walk'[d] = walk[d]
    BY <1>3, <2>1, <2>2, StacksAfter
  <2>4. \A d \in 1 .. k : walk'[d].iseq = walk[d].iseq
    BY <2>3
  <2> QED
    BY <2>2, <2>3, <2>4 DEF Ascending, Ascends
<1>4. CASE Descend
  <2>1. PICK k \in Nat \ {0} : k = Len(walk)
    BY <1>4, TopFrame DEF Descend
  <2>2. Walking /\ Descend
    BY <1>4 DEF Descend
  <2>3. /\ Len(walk') = k + 1 /\ walk'[k].iseq = walk[k].iseq
        /\ walk[k].iseq < walk'[k + 1].iseq
        /\ \A d \in 1 .. k - 1 : walk'[d] = walk[d]
    BY <2>1, <2>2, StacksAfter
  <2>4. walk'[k + 1].iseq \in Nat
    <3>1. walk' \in Seq(Frames) /\ k + 1 \in 1 .. Len(walk')
      BY <2>1, <2>3 DEF WalkTypes, CallsAreWithin
    <3> QED
      BY <3>1, IseqOfFrame
  <2>5. \A d \in 1 .. k : walk'[d].iseq = walk[d].iseq /\ walk[d].iseq \in Nat
    BY SMTT(30), <1>1, <2>1, <2>3
  <2>6. \A d \in 1 .. k : walk'[d].iseq < walk'[k + 1].iseq
    <3>1. \A d \in 1 .. k : d = k \/ walk[d].iseq < walk[k].iseq
      BY <2>1 DEF Ascending, Ascends
    <3> QED
      BY <2>3, <2>5, <2>4, <3>1
  <2>7. ASSUME NEW d \in 1 .. k + 1, NEW e \in 1 .. k + 1, d < e
        PROVE  walk'[d].iseq < walk'[e].iseq
    <3>1. d \in 1 .. k /\ (e = k + 1 \/ e \in 1 .. k)
      BY <2>7
    <3> QED
      BY <2>1, <2>5, <2>6, <2>7, <3>1 DEF Ascending, Ascends
  <2> QED
    BY <2>3, <2>7 DEF Ascending, Ascends
<1>5. CASE ReturnFromWalk
  <2>1. PICK k \in Nat \ {0} : k = Len(walk)
    BY <1>5, TopFrame DEF ReturnFromWalk
  <2>2. Walking /\ ReturnFromWalk
    BY <1>5 DEF ReturnFromWalk
  <2>3. Len(walk') = k - 1 /\ \A d \in 1 .. k - 1 : walk'[d] = walk[d]
    BY <2>1, <2>2, StacksAfter
  <2> QED
    BY <2>1, <2>3 DEF Ascending, Ascends
<1>6. CASE UNCHANGED vars
  BY <1>6 DEF vars, Ascending, Ascends
<1>7. InjectTrace \/ Skip => Advance
  BY InjectTraceAdvances DEF Skip, Advance
<1> QED
  BY <1>2, <1>3, <1>4, <1>5, <1>6, <1>7 DEF Next

\* A call is found by its sequence.
LEMMA CallFound ==
  ASSUME NEW w \in Seq(Frames), Ascends(w), NEW d \in 1 .. Len(w)
  PROVE  {e \in DOMAIN w : w[e].iseq = w[d].iseq} = {d}
<1>1. /\ DOMAIN w = 1 .. Len(w) /\ Len(w) \in Nat
      /\ \A e \in 1 .. Len(w) : w[e].iseq \in Nat
  BY IseqOfFrame
<1>2. ASSUME NEW e \in 1 .. Len(w), e # d PROVE w[e].iseq # w[d].iseq
  <2>1. e < d \/ d < e
    BY <1>1, <1>2
  <2>2. w[e].iseq < w[d].iseq \/ w[d].iseq < w[e].iseq
    BY <2>1 DEF Ascends
  <2> QED
    BY <1>1, <2>2
<1> QED
  BY <1>1, <1>2

\* What its call leaves.
LEMMA LeftIs ==
  ASSUME NEW i, NEW d, {e \in DOMAIN walk : walk[e].iseq = i} = {d}
  PROVE  LeftIn(i) = Len(seq[i]) + 2 - walk[d].idx
<1>1. (CHOOSE e \in {d} : TRUE) = d
  OBVIOUS
<1> QED
  BY <1>1 DEF LeftIn

LEMMA LeftIsAfter ==
  ASSUME NEW i, NEW d, {e \in DOMAIN walk' : walk'[e].iseq = i} = {d}
  PROVE  LeftIn(i)' = Len(seq'[i]) + 2 - walk'[d].idx
<1>1. (CHOOSE e \in {d} : TRUE) = d
  OBVIOUS
<1> QED
  BY <1>1 DEF LeftIn

\* What a step leaves alone: the calls below the top.
LEMMA LeftBelow ==
  ASSUME WalkTypes, WalkTypes', Ascending, Ascending',
         \A i \in Iseqs : Len(seq'[i]) = Len(seq[i]),
         NEW k \in Nat \ {0}, k = Len(walk), k <= Len(walk') + 1,
         \A d \in 1 .. k - 1 : walk'[d] = walk[d],
         \A d \in k .. Len(walk') : walk[k].iseq <= walk'[d].iseq,
         NEW j \in Iseqs, j < walk[k].iseq
  PROVE  LeftIn(j)' = LeftIn(j)
<1>1. /\ DOMAIN walk = 1 .. k /\ DOMAIN walk' = 1 .. Len(walk') /\ Len(walk') \in Nat
      /\ walk \in Seq(Frames) /\ walk' \in Seq(Frames)
      /\ j \in Nat /\ walk[k].iseq \in Nat
      /\ \A d \in 1 .. Len(walk') : walk'[d].iseq \in Nat
  <2>1. walk \in Seq(Frames) /\ walk' \in Seq(Frames)
    BY DEF WalkTypes, CallsAreWithin
  <2>2. walk[k].iseq \in Nat
    BY <2>1, IseqOfFrame
  <2>3. \A d \in 1 .. Len(walk') : walk'[d].iseq \in Nat
    BY <2>1, IseqOfFrame
  <2>4. DOMAIN walk = 1 .. k /\ DOMAIN walk' = 1 .. Len(walk') /\ Len(walk') \in Nat
    <3>1. DOMAIN walk = 1 .. k
      BY <2>1
    <3>2. DOMAIN walk' = 1 .. Len(walk') /\ Len(walk') \in Nat
      BY <2>1
    <3> QED
      BY <3>1, <3>2
  <2>5. j \in Nat
    BY IseqsAssumption
  <2> QED
    BY <2>1, <2>2, <2>3, <2>4, <2>5
<1>2. \A d \in 1 .. k - 1 : d \in 1 .. k /\ d \in 1 .. Len(walk')
  BY <1>1
<1>3. CASE \E d \in 1 .. k - 1 : walk[d].iseq = j
  <2>1. PICK d \in 1 .. k - 1 : walk[d].iseq = j
    BY <1>3
  <2>2. {e \in DOMAIN walk : walk[e].iseq = j} = {d}
    <3>1. d \in 1 .. Len(walk)
      BY <2>1, <1>2
    <3>2. {e \in DOMAIN walk : walk[e].iseq = walk[d].iseq} = {d}
      BY <3>1, <1>1, CallFound DEF Ascending
    <3> QED
      BY <3>2, <2>1
  <2>3. {e \in DOMAIN walk' : walk'[e].iseq = j} = {d}
    <3>1. PICK w : w = walk'
      OBVIOUS
    <3>2. w \in Seq(Frames) /\ Ascends(w) /\ d \in 1 .. Len(w) /\ w[d].iseq = j
      BY <3>1, <2>1, <1>1, <1>2 DEF Ascending, Ascends
    <3>3. {e \in DOMAIN w : w[e].iseq = w[d].iseq} = {d}
      BY <3>2, CallFound
    <3> QED
      BY <3>1, <3>2, <3>3
  <2>4. LeftIn(j) = Len(seq[j]) + 2 - walk[d].idx
    BY <2>2, LeftIs
  <2>5. LeftIn(j)' = Len(seq'[j]) + 2 - walk'[d].idx
    BY <2>3, LeftIsAfter
  <2> QED
    BY <2>1, <2>4, <2>5
<1>4. CASE ~\E d \in 1 .. k - 1 : walk[d].iseq = j
  <2>1. \A d \in 1 .. k : walk[d].iseq # j
    <3>1. \A d \in 1 .. k : d = k \/ d \in 1 .. k - 1
      OBVIOUS
    <3> QED
      BY <1>1, <1>4, <3>1
  <2>2. \A d \in 1 .. Len(walk') : walk'[d].iseq # j
    <3>1. \A d \in 1 .. Len(walk') : d \in 1 .. k - 1 \/ d \in k .. Len(walk')
      BY <1>1
    <3> QED
      BY <1>1, <1>4, <3>1
  <2> QED
    BY <1>1, <2>1, <2>2 DEF LeftIn
<1> QED
  BY <1>3, <1>4

\* Each step of iseq_inject leaves less to do: what is left in the calls, by the numbers
\* of their sequences, goes down in lexicographic order.
THEOREM RecursionDescends == Spec => WalkDescends
<1> DEFINE Left == \E i \in Iseqs : /\ LeftIn(i)' \in 0 .. LeftIn(i) - 1
                                    /\ \A j \in Iseqs : j < i => LeftIn(j)' = LeftIn(j)
<1>1. ASSUME WalkTypes, WalkTypes', Ascending, Ascending', iseq_inject PROVE Left
  <2>1. Walking
    BY <1>1 DEF iseq_inject, InjectTrace, Descend, Skip, ReturnFromWalk
  <2>2. PICK k \in Nat \ {0} : k = Len(walk)
    BY <2>1, <1>1, TopFrame
  <2>3. PICK i \in Iseqs : i = walk[k].iseq
    BY <2>1, <2>2, <1>1, TopFrame
  <2>4. \A j \in Iseqs : Len(seq'[j]) = Len(seq[j]) /\ Len(seq[j]) \in Nat
    <3>1. program' = program
      BY <1>1 DEF iseq_inject, InjectTrace, Descend, Skip, ReturnFromWalk
    <3>2. \A j \in Iseqs : Len(seq[j]) = Length(j) /\ Length(j) \in Nat
      BY <1>1, InstructionsFound DEF WalkTypes
    <3>3. \A j \in Iseqs : Len(seq'[j]) = Len(program'.code[j])
      BY <1>1, LenOfList DEF WalkTypes, OnlyTracesReplaced, Length, IsProgram
    <3> QED
      BY <3>1, <3>2, <3>3 DEF Length
  <2>5. walk \in Seq(Frames) /\ walk' \in Seq(Frames) /\ DOMAIN walk' = 1 .. Len(walk')
    BY <1>1 DEF WalkTypes, CallsAreWithin
  <2>6. LeftIn(i) = Len(seq[i]) + 2 - walk[k].idx
    <3>1. k \in 1 .. Len(walk)
      BY <2>2
    <3> QED
      BY <3>1, <1>1, <2>3, <2>5, CallFound, LeftIs DEF Ascending
  <2>7. walk[k].idx \in Nat /\ (~AtEnd => walk[k].idx \in 1 .. Len(seq[i]))
        /\ (AtEnd => walk[k].idx = Len(seq[i]) + 1)
    BY <2>1, <2>2, <2>3, <1>1, TopFrame DEF Frames
  <2>8. ASSUME ~AtEnd, Len(walk') \in {k, k + 1}, walk'[k].iseq = i, walk'[k].idx = walk[k].idx + 1
        PROVE  LeftIn(i)' \in 0 .. LeftIn(i) - 1
    <3>1. k \in 1 .. Len(walk')
      BY <2>8
    <3>2. LeftIn(i)' = Len(seq'[i]) + 2 - walk'[k].idx
      BY <3>1, <1>1, <2>5, <2>8, CallFound, LeftIsAfter DEF Ascending
    <3> QED
      <4>1. PICK n \in Nat : n = Len(seq[i])
        BY <2>4
      <4>2. PICK x \in Nat : x = walk[k].idx
        BY <2>7
      <4>3. Len(seq'[i]) = n /\ walk'[k].idx = x + 1 /\ x \in 1 .. n
        BY <4>1, <4>2, <2>4, <2>7, <2>8
      <4>4. LeftIn(i) = n + 2 - x /\ LeftIn(i)' = n + 2 - (x + 1)
        BY <4>1, <4>2, <4>3, <3>2, <2>6
      <4> QED
        BY <4>3, <4>4
  <2>9. CASE Advance
    <3>1. /\ ~AtEnd /\ Len(walk') = k /\ walk'[k].iseq = i /\ walk'[k].idx = walk[k].idx + 1
          /\ \A d \in 1 .. k - 1 : walk'[d] = walk[d]
      BY <2>1, <2>2, <2>3, <2>9, <1>1, StacksAfter DEF Advance
    <3>2. \A d \in k .. Len(walk') : walk[k].iseq <= walk'[d].iseq
      BY <3>1, <2>3, IseqsAssumption
    <3>3. \A j \in Iseqs : j < i => LeftIn(j)' = LeftIn(j)
      BY <3>1, <3>2, <1>1, <2>2, <2>3, <2>4, LeftBelow
    <3> QED
      BY <3>1, <3>3, <2>8
  <2>10. CASE Descend
    <3>1. /\ ~AtEnd /\ Len(walk') = k + 1 /\ walk'[k].iseq = i /\ walk'[k].idx = walk[k].idx + 1
          /\ i < walk'[k + 1].iseq
          /\ \A d \in 1 .. k - 1 : walk'[d] = walk[d]
      BY <2>1, <2>2, <2>3, <2>10, <1>1, StacksAfter DEF Descend
    <3>2. \A d \in k .. Len(walk') : walk[k].iseq <= walk'[d].iseq
      <4>1. k + 1 \in 1 .. Len(walk') /\ walk'[k + 1] \in Frames
        BY <3>1, <2>5
      <4>2. walk'[k + 1].iseq \in Nat /\ i \in Nat
        BY <4>1, IseqsAssumption DEF Frames
      <4>3. \A d \in k .. Len(walk') : d = k \/ d = k + 1
        BY <3>1
      <4> QED
        BY <4>2, <4>3, <3>1, <2>3
    <3>3. \A j \in Iseqs : j < i => LeftIn(j)' = LeftIn(j)
      BY <3>1, <3>2, <1>1, <2>2, <2>3, <2>4, LeftBelow
    <3> QED
      BY <3>1, <3>3, <2>8
  <2>11. CASE ReturnFromWalk
    <3>1. /\ AtEnd /\ Len(walk') = k - 1 /\ \A d \in 1 .. k - 1 : walk'[d] = walk[d]
      BY <2>1, <2>2, <2>11, <1>1, StacksAfter DEF ReturnFromWalk
    <3>2. \A d \in k .. Len(walk') : walk[k].iseq <= walk'[d].iseq
      BY <3>1
    <3>3. \A j \in Iseqs : j < i => LeftIn(j)' = LeftIn(j)
      BY <3>1, <3>2, <1>1, <2>2, <2>3, <2>4, LeftBelow
    <3>4. \A d \in 1 .. Len(walk') : walk'[d].iseq # i
      <4>1. ASSUME NEW d \in 1 .. k - 1 PROVE walk[d].iseq # i
        <5>1. walk[d].iseq < i
          BY <2>2, <2>3, <1>1 DEF Ascending, Ascends
        <5>2. d \in 1 .. Len(walk) /\ walk[d] \in Frames
          BY <2>2, <2>5
        <5> QED
          BY <5>1, <5>2, IseqsAssumption DEF Frames
      <4> QED
        BY <4>1, <3>1
    <3>5. LeftIn(i)' = 0
      BY <3>4, <2>5 DEF LeftIn
    <3>6. LeftIn(i) = 1
      BY <3>1, <2>4, <2>6, <2>7
    <3> QED
      BY <3>3, <3>5, <3>6
  <2>12. InjectTrace \/ Skip => Advance
    BY <1>1, InjectTraceAdvances DEF Skip, Advance
  <2> QED
    BY <1>1, <2>9, <2>10, <2>11, <2>12 DEF iseq_inject
<1> HIDE DEF Left
<1>2. Init => Ascending
  BY DEF Init, Ascending, Ascends
<1>3. WalkTypes /\ WalkTypes' /\ Ascending /\ [Next]_vars => Ascending'
  BY AscendsAfter
<1>4. WalkTypes /\ WalkTypes' /\ Ascending /\ Ascending' /\ [Next]_vars => [iseq_inject => Left]_vars
  BY <1>1
<1>5. Spec => [][iseq_inject => Left]_vars
  BY <1>2, <1>3, <1>4, WalkInvariant, PTL DEF Spec
<1> QED
  BY <1>5 DEF WalkDescends, Left
=============================================================================
