----------------------------- MODULE MCVmLookup -----------------------------
(* The caches of one instruction, or the names of code without one: the two *)
(* have nothing in common, so they are explored one at a time.              *)
EXTENDS VmCaches, VmNames

MCAncestors ==
  [c \in Spaces |-> CASE c = "M" -> <<"M">>
                      [] c = "S" -> <<"S", TopClass, Kernel>>
                      [] c = TopClass -> <<TopClass, Kernel>>
                      [] c = Kernel -> <<Kernel>>]

MCInit == Init /\ NamesInit
MCNext ==
  \/ site # "none" /\ CachesNext /\ UNCHANGED namesVars
  \/ site = "none" /\ NamesNext /\ UNCHANGED vars

Spec == MCInit /\ [][MCNext]_<<vars, namesVars>>

\* ConstantsAreLexical, looked at only where names are explored.
NamesAreLexical == site = "none" => ConstantsAreLexical
=============================================================================
