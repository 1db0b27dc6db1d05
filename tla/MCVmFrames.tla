----------------------------- MODULE MCVmFrames -----------------------------
(* A program with a block in a block, a rescue clause in a block, a class   *)
(* body in a block of the program, and a method with a block.               *)
EXTENDS VmFrames

\* klass: it is a method, made by def or, of a block, by define_method.
Iseq(type, parent) ==
  [type |-> type, parent |-> parent, klass |-> type = "METHOD"]
MethodOf(block) == [block EXCEPT !.klass = TRUE]

MCIseqs ==
  [top |-> Iseq("TOP", None), in_top |-> Iseq("BLOCK", "top"), class |-> Iseq("CLASS", "in_top"),
   m |-> Iseq("METHOD", None), in_m |-> MethodOf(Iseq("BLOCK", "m")), in_in_m |-> Iseq("BLOCK", "in_m"),
   rescue |-> Iseq("RESCUE", "in_m")]

MCRoom == [t \in Threads |-> IF t = Main THEN 4 ELSE 1]
=============================================================================
