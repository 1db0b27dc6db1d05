----------------------------- MODULE MCVmCalls -----------------------------
(* Every list of parameters against every list of arguments, through the   *)
(* shortest dispatch; and every small class hierarchy against every way to *)
(* call, with few arguments.                                               *)
EXTENDS VmCalls, TLC

CONSTANT ManyArgs \* arguments one by one, in the first part

Plain(from, n) == [i \in 1 .. n |-> Arg(from + i)]
Arrays == {Array(Plain(20, n)) : n \in 0 .. ManyArgs}

\* Arguments one by one; with a last one that is spread; one array, with or
\* without a value after it.
ListsOfArgs == {Plain(0, n) : n \in 0 .. ManyArgs}
ListsToSpread ==
  {Append(Plain(0, n), last) : n \in 0 .. 2, last \in Arrays \cup {nil, Arg(9)}}
ListsOfArrays == {<<a>> : a \in Arrays} \cup {<<a, Arg(1)>> : a \in Arrays}

\* Arities on both sides of what call_cfunc accepts.
Arities == {-3, -2, -1, 0, 1, 2, 15, 16}

Entry(type, vis) == [type |-> type, vis |-> vis, safe |-> 0, iclass |-> FALSE]
Iseqs == {Entry("ISEQ", "public") @@ [params |-> p] : p \in ParamLists}
Cfuncs == {Entry("CFUNC", "public") @@ [arity |-> a] : a \in Arities}
NoMethods == [k \in 1 .. Depth |-> None]

Base == [kind |-> "call", id |-> "foo", flag |-> {}, args |-> <<>>, blockarg |-> "none",
         methods |-> NoMethods, self_includes |-> TRUE, self_inherits |-> TRUE,
         version |-> "1.9.3"]

Alone(e) == [NoMethods EXCEPT ![1] = e]

Binding ==
  <<{[Base EXCEPT !.methods = Alone(e), !.args = a, !.blockarg = b] :
       e \in Iseqs, a \in ListsOfArgs, b \in BlockArguments},
    {[Base EXCEPT !.methods = Alone(e), !.args = a, !.blockarg = b, !.flag = {"SPLAT"}] :
       e \in Iseqs, a \in ListsToSpread, b \in {"none", "literal"}},
    {[Base EXCEPT !.methods = Alone(e), !.args = a] : e \in Cfuncs, a \in ListsOfArgs}>>

Yields ==
  <<{[Base EXCEPT !.kind = k, !.args = a, !.blockarg = b] @@ [params |-> p] :
       k \in {"yield", "lambda"}, p \in ParamLists,
       a \in ListsOfArgs \cup ListsOfArrays, b \in {"none", "literal"}},
    {[Base EXCEPT !.kind = k, !.args = a, !.flag = {"SPLAT"}] @@ [params |-> p] :
       k \in {"yield", "lambda"}, p \in ParamLists, a \in ListsToSpread},
    {[Base EXCEPT !.kind = "ifunc", !.args = a, !.blockarg = b] @@ [lambda |-> l] :
       a \in ListsOfArgs \cup ListsOfArrays, b \in {"none", "proc", "literal"},
       l \in BOOLEAN}>>

Assignments ==
  {[Base EXCEPT !.kind = "assign", !.args = a, !.flag = f] @@ [num |-> n, post |-> p] :
      a \in ListsOfArgs, f \in {{}, {"SPLAT"}}, n \in 0 .. MaxParams + 1, p \in BOOLEAN}

\* Every visibility, and a definition made at $SAFE 4; the classes above have
\* what a change of the visibility or a super can meet.
OneParam == [m |-> 1, opt |-> 0, rest |-> FALSE, post |-> 0, block |-> FALSE, comma |-> FALSE]
Typed(vis) ==
  {Entry(t, vis) @@ [params |-> OneParam, arity |-> -1] :
      t \in {"ISEQ", "CFUNC", "NOTIMPLEMENTED", "ATTRSET", "IVAR", "MISSING", "BMETHOD", "CALL"}}
Lowest ==
  UNION {Typed(v) : v \in {"public", "private", "protected"}}
    \cup {[e EXCEPT !.safe = 4] : e \in {x \in Typed("public") \cup Typed("protected") : x.type = "ISEQ"}}
    \cup {[e EXCEPT !.iclass = TRUE] : e \in {x \in Typed("protected") : x.type = "CFUNC"}}
Changed == {Entry("ZSUPER", v) : v \in {"public", "private", "protected"}}
Above == {None, Entry("ZSUPER", "public")}
           \cup {x \in Typed("private") : x.type \in {"ISEQ", "MISSING"}}
Root == {None} \cup {x \in Typed("protected") : x.type = "CFUNC"}

Hierarchies ==
  {<<e, None, None>> : e \in Lowest}
    \cup {<<e, f, g>> : e \in {None} \cup Changed, f \in Above, g \in Root}

FewArgs ==
  {<<>>, <<Arg(1)>>, <<Arg(1), Arg(2)>>, <<Name("foo")>>, <<Name("foo"), Arg(1)>>,
   <<Name("send"), Name("foo"), Arg(1)>>, <<Name("other"), Arg(1)>>, <<Name("send")>>}

\* foo alone (a VCALL) has no arguments to give.
Dispatches ==
  <<{[Base EXCEPT !.id = i, !.flag = f, !.args = a, !.blockarg = b, !.methods = m,
                  !.self_inherits = s, !.self_includes = ~s, !.version = v] :
       i \in {"foo", "send", "method_missing"},
       f \in {{}, {"FCALL"}, {"FCALL", "SUPER"}, {"FCALL", "TAILCALL"}}, a \in FewArgs,
       b \in {"none", "literal"}, m \in Hierarchies, s \in BOOLEAN, v \in {"1.9.2", "1.9.3"}},
    {[Base EXCEPT !.id = i, !.flag = {"FCALL", "VCALL"}, !.methods = m] :
       i \in {"foo", "send", "method_missing"}, m \in Hierarchies}>>

MCCalls == Binding \o Yields \o <<Assignments>> \o Dispatches
=============================================================================
