------------------------ MODULE MCInstructionSequence ------------------------
(* Programs of three instruction sequences for InstructionSequence.        *)
EXTENDS InstructionSequence

Trace == {[insn |-> "trace", ops |-> <<e>>] : e \in {"LINE", "RETURN", "CALL"}}

WithChild(children) ==
       {[insn |-> "putiseq", ops |-> <<c>>] : c \in children}
  \cup {[insn |-> "defineclass", ops |-> <<"id", c, 0>>] : c \in children}
  \cup {[insn |-> "send", ops |-> <<"id", 0, c, 0, "ic">>] : c \in children \cup {Null}}
  \cup {[insn |-> "invokesuper", ops |-> <<0, c, 0>>] : c \in children \cup {Null}}

Code(children, n) == [1 .. n -> Trace \cup WithChild(children)]

\* Sequence 1 has two instructions and may hold 2 and 3; 2 has one and may hold
\* 3, which has one trace.  No catch tables.
OperandPrograms ==
  {[code |-> <<a, b, c>>, catch |-> [i \in 1 .. 3 |-> {}]] :
     a \in Code({2, 3}, 2), b \in Code({3}, 1), c \in [1 .. 1 -> Trace]}

\* A method whose catch table holds the sequence of a rescue clause.
RescuePrograms ==
  {[code |-> <<a, b>>, catch |-> <<{2}, {}>>] :
     a \in Code({}, 2), b \in Code({}, 2)}
=============================================================================
