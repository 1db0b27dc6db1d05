---------------------------- MODULE VmCallsProofs ----------------------------
(***************************************************************************)
(* Proofs about VmCalls, for any calls, classes and lists of parameters.   *)
(***************************************************************************)
EXTENDS VmCalls, SequenceTheorems, SumTheorems

\* The block of the call.
Passed ==
  CASE call.blockarg \in {"none", "nil"} -> "none"
    [] call.blockarg = "literal" -> "literal"
    [] OTHER -> "given"

-----------------------------------------------------------------------------
(* The dispatch loop, after k sends.                                       *)

Sent(k) == k \in 0 .. Len(Asked) - 1 /\ \A i \in 1 .. k : Asked[i] = Name("send")
Rest(k) == SubSeq(Asked, k + 2, Len(Asked))

Loop(k) ==
  /\ call.kind = "call" /\ call.blockarg # "other"
  /\ Sent(k) /\ Asked[k + 1] = Name(id)
  /\ num = Len(Rest(k)) /\ stack = <<Recv>> \o Rest(k)
  /\ block = Passed
  /\ flag = IF k = 0 THEN call.flag ELSE call.flag \cup {"FCALL", "OPT_SEND"}

\* The entry is to be judged, or there is none: none was found, or what was found only
\* changes the visibility.
Starts ==
  \/ id = "send" /\ me = Of(Send, Depth)
  \/ id = "foo" /\ me = IF Having = {} THEN None ELSE Of(Judged, LowestOf(Having))
  \/ id \notin {"send", "foo"} /\ me = None
  \/ id = "foo" /\ me = None /\ Having # {} /\ Allowed /\ Safe /\ Bodies = {}

\* The entry may be used; those below it only change the visibility.
Goes ==
  \/ id = "send" /\ me = Of(Send, Depth)
  \/ /\ id = "foo" /\ Allowed /\ Safe
     /\ \E c \in Having : /\ me = Of(call.methods[c], c)
                          /\ \A j \in Having : j < c => call.methods[j].type = "ZSUPER"

IInv ==
  /\ IsCall(call) /\ pc \in {"setup", "start", "normal", "done"}
  /\ pc = "setup" =>
       /\ flag = call.flag /\ id = call.id
       /\ stack = (IF call.kind = "call" THEN <<Recv>> ELSE <<>>) \o call.args
  /\ pc = "start" => Starts /\ \E k \in 0 .. Len(Asked) : Loop(k)
  /\ pc = "normal" => Goes /\ \E k \in 0 .. Len(Asked) : Loop(k)
-----------------------------------------------------------------------------
(* The arguments of a call.                                                *)

\* A variable that stays.
LEMMA CallStays ==
  ASSUME call' = call
  PROVE  /\ Delivered' = Delivered /\ Asked' = Asked /\ Sends' = Sends /\ Named' = Named
         /\ Arguments' = Arguments /\ Having' = Having /\ Judged' = Judged
         /\ Bodies' = Bodies /\ Body' = Body /\ (Allowed' <=> Allowed) /\ (Safe' <=> Safe)
         /\ (Reached' <=> Reached) /\ Passed' = Passed
         /\ \A k : (Sent(k)' <=> Sent(k)) /\ Rest(k)' = Rest(k)
<1>1. Delivered' = Delivered
  BY DEF Delivered
<1>2. Asked' = Asked
  BY <1>1 DEF Asked
<1>3. Sends' = Sends
  BY <1>2 DEF Sends
<1>4. Named' = Named /\ Arguments' = Arguments
  BY <1>2, <1>3 DEF Named, Arguments
<1>5. Having' = Having
  BY <1>2, <1>3, <1>4 DEF Having, From
<1>6. Judged' = Judged /\ Bodies' = Bodies
  BY <1>5 DEF Judged, Bodies
<1>7. Body' = Body
  BY <1>6 DEF Body
<1>8. (Allowed' <=> Allowed) /\ (Safe' <=> Safe)
  BY <1>3, <1>6 DEF Allowed, Safe, Related
<1>9. Passed' = Passed
  BY DEF Passed
<1>10. \A k : (Sent(k)' <=> Sent(k)) /\ Rest(k)' = Rest(k)
  BY <1>2 DEF Sent, Rest
<1> QED
  BY <1>1, <1>2, <1>3, <1>4, <1>5, <1>6, <1>7, <1>8, <1>9, <1>10 DEF Reached

LEMMA AsAskedStays ==
  ASSUME call' = call
  PROVE  AsAsked(outcome)' <=> AsAsked(outcome')
BY CallStays DEF AsAsked

\* The fields of an entry that has been found in a class.
LEMMA FieldsOf ==
  ASSUME NEW e, IsEntry(e), NEW k
  PROVE  /\ Of(e, k).type = e.type /\ Of(e, k).vis = e.vis /\ Of(e, k).safe = e.safe
         /\ (Of(e, k).iclass <=> e.iclass) /\ Of(e, k).klass = k
         /\ e.type = "ISEQ" => Of(e, k).params = e.params
         /\ e.type \in {"CFUNC", "NOTIMPLEMENTED"} => Of(e, k).arity = e.arity
<1>1. /\ {"type", "vis", "safe", "iclass"} \subseteq DOMAIN e /\ "klass" \notin DOMAIN e
      /\ e.type = "ISEQ" => "params" \in DOMAIN e
      /\ e.type \in {"CFUNC", "NOTIMPLEMENTED"} => "arity" \in DOMAIN e
  BY DEF IsEntry
<1>2. \A x \in DOMAIN e : Of(e, k)[x] = e[x]
  BY DEF Of, With
<1>3. Of(e, k)["klass"] = k
  BY <1>1 DEF Of, With
<1>4. Of(e, k).iclass = e.iclass
  BY <1>1, <1>2
<1> QED
  BY <1>1, <1>2, <1>3, <1>4

LEMMA FieldsOfSend ==
  ASSUME NEW k
  PROVE  /\ Of(Send, k).type = "SEND" /\ Of(Send, k).vis = "public" /\ Of(Send, k).safe = 0
         /\ Of(Send, k).klass = k
BY DEF Of, With, Send

\* What caller_setup_args makes of the arguments is what the caller should deliver.
LEMMA SetupDelivers ==
  ASSUME IsCall(call), call.kind # "assign"
  PROVE  /\ \E S : Delivered \in Seq(S)
         /\ call.blockarg # "other" =>
              caller_setup_args(call.args, "SPLAT" \in call.flag, call.blockarg) =
                 [kind |-> "args", args |-> Delivered, block |-> Passed]
         /\ call.blockarg = "other" =>
              caller_setup_args(call.args, "SPLAT" \in call.flag, call.blockarg).kind = "TypeError"
<1> DEFINE args == call.args
           last == args[Len(args)]
           front == SubSeq(args, 1, Len(args) - 1)
           spread == IF "SPLAT" \in call.flag /\ IsArray(ToA(last)) THEN front \o ToA(last)[2]
                     ELSE args
<1>1. PICK S : args \in Seq(S)
  BY DEF IsCall, IsList
<1>2. Len(args) \in Nat /\ DOMAIN args = 1 .. Len(args) /\ \A i \in 1 .. Len(args) : args[i] \in S
  BY <1>1
<1>3. front \in Seq(S)
  BY <1>1, <1>2, SubSeqProperties
<1>4. ASSUME "SPLAT" \in call.flag, IsArray(last) PROVE \E T : last[2] \in Seq(T)
  <2>1. args # <<>>
    BY <1>4 DEF IsCall
  <2>2. Len(args) \in DOMAIN args
    BY <2>1, <1>1, <1>2, EmptySeq
  <2> QED
    BY <2>2, <1>4 DEF IsCall, IsList, Fits
<1>5. ~IsArray(nil) /\ IsArray(ToA(nil)) /\ ToA(nil)[2] = <<>>
  BY DEF IsArray, nil, ToA, Array
<1>6. spread = Delivered
  <2>1. front \o <<>> = front
    BY <1>3, ConcatEmptySeq
  <2>2. CASE last = nil
    BY <2>1, <2>2, <1>5 DEF Delivered
  <2>3. CASE last # nil
    BY <2>3 DEF Delivered, ToA
  <2> QED
    BY <2>2, <2>3
<1>7. \E T : Delivered \in Seq(T)
  <2>1. CASE "SPLAT" \in call.flag /\ IsArray(last)
    <3>1. PICK T : last[2] \in Seq(T)
      BY <2>1, <1>4
    <3>2. front \in Seq(S \cup T) /\ last[2] \in Seq(S \cup T)
      BY <1>3, <3>1
    <3>3. front \o last[2] \in Seq(S \cup T)
      BY <3>2, ConcatProperties
    <3>4. Delivered = front \o last[2]
      BY <2>1, <1>5, <1>6 DEF ToA
    <3> QED
      BY <3>3, <3>4
  <2>2. CASE ~("SPLAT" \in call.flag /\ IsArray(last))
    <3>1. Delivered \in {args, front}
      BY <2>2 DEF Delivered
    <3> QED
      BY <3>1, <1>1, <1>3
  <2> QED
    BY <2>1, <2>2
<1>8. caller_setup_args(args, "SPLAT" \in call.flag, call.blockarg) =
        IF call.blockarg = "other" THEN [kind |-> "TypeError"]
        ELSE [kind |-> "args", args |-> spread, block |-> Passed]
  BY DEF caller_setup_args, Passed
<1> HIDE DEF spread
<1> QED
  BY <1>6, <1>7, <1>8

\* The stack of a call: its receiver or name, and the arguments on it.
LEMMA StackParts ==
  ASSUME NEW S, NEW x, NEW t \in Seq(S), NEW s, s = <<x>> \o t
  PROVE  /\ Len(s) = Len(t) + 1 /\ Len(t) \in Nat
         /\ SubSeq(s, Len(s) - Len(t) + 1, Len(s)) = t
         /\ SubSeq(s, 1, Len(s) - (Len(t) + 1)) = <<>>
         /\ Len(t) > 0 =>
              SubSeq(s, 1, Len(s) - (Len(t) - 1) - 1)
                \o SubSeq(s, Len(s) - (Len(t) - 1) + 1, Len(s)) = <<x>> \o SubSeq(t, 2, Len(t))
<1> DEFINE T == S \cup {x}
<1>1. t \in Seq(T) /\ <<x>> \in Seq(T) /\ Len(<<x>>) = 1 /\ Len(t) \in Nat
  OBVIOUS
<1>2. s \in Seq(T) /\ Len(s) = Len(t) + 1
  BY <1>1, ConcatProperties
<1>3. \A i \in 1 .. Len(s) : s[i] = IF i = 1 THEN x ELSE t[i - 1]
  BY <1>1, <1>2, ConcatProperties
<1>4. \A i \in 1 .. Len(s) : s[i] \in T
  BY <1>2
<1>5. SubSeq(s, 2, Len(s)) = t
  <2>1. /\ SubSeq(s, 2, Len(s)) \in Seq(T)
        /\ Len(SubSeq(s, 2, Len(s))) = IF 2 <= Len(s) THEN Len(s) - 2 + 1 ELSE 0
        /\ \A i \in 1 .. Len(s) - 2 + 1 : SubSeq(s, 2, Len(s))[i] = s[2 + i - 1]
    BY <1>1, <1>2, <1>4, SubSeqProperties
  <2>2. Len(SubSeq(s, 2, Len(s))) = Len(t)
    BY <1>1, <1>2, <2>1
  <2>3. \A i \in 1 .. Len(t) : SubSeq(s, 2, Len(s))[i] = t[i]
    BY <1>1, <1>2, <1>3, <2>1
  <2> QED
    BY <1>1, <2>1, <2>2, <2>3, SeqEqual
<1>6. SubSeq(s, 1, Len(s) - (Len(t) + 1)) = <<>>
  BY <1>1, <1>2, SubSeqEmpty
<1>7. ASSUME Len(t) > 0
      PROVE  SubSeq(s, 1, 1) \o SubSeq(s, 3, Len(s)) = <<x>> \o SubSeq(t, 2, Len(t))
  <2>1. /\ SubSeq(s, 1, 1) \in Seq(T) /\ Len(SubSeq(s, 1, 1)) = 1
        /\ SubSeq(s, 1, 1)[1] = x
    <3>1. /\ SubSeq(s, 1, 1) \in Seq(T)
          /\ Len(SubSeq(s, 1, 1)) = IF 1 <= 1 THEN 1 - 1 + 1 ELSE 0
          /\ \A i \in 1 .. 1 - 1 + 1 : SubSeq(s, 1, 1)[i] = s[1 + i - 1]
      BY <1>1, <1>2, <1>4, SubSeqProperties
    <3> QED
      BY <3>1, <1>1, <1>2, <1>3
  <2>2. SubSeq(s, 1, 1) = <<x>>
    <3>1. <<x>> \in Seq(T) /\ Len(SubSeq(s, 1, 1)) = Len(<<x>>) /\ <<x>>[1] = x
      BY <1>1, <2>1
    <3>2. \A i \in 1 .. Len(SubSeq(s, 1, 1)) : SubSeq(s, 1, 1)[i] = <<x>>[i]
      <4>1. \A i \in 1 .. Len(SubSeq(s, 1, 1)) : i = 1
        BY <2>1
      <4> QED
        BY <4>1, <3>1, <2>1
    <3> QED
      BY <3>1, <3>2, <2>1, SeqEqual
  <2>3. SubSeq(s, 3, Len(s)) = SubSeq(t, 2, Len(t))
    <3>1. /\ SubSeq(s, 3, Len(s)) \in Seq(T)
          /\ Len(SubSeq(s, 3, Len(s))) = IF 3 <= Len(s) THEN Len(s) - 3 + 1 ELSE 0
          /\ \A i \in 1 .. Len(s) - 3 + 1 : SubSeq(s, 3, Len(s))[i] = s[3 + i - 1]
      BY <1>1, <1>2, <1>4, SubSeqProperties
    <3>2. \A i \in 2 .. Len(t) : t[i] \in T
      BY <1>1
    <3>3. /\ SubSeq(t, 2, Len(t)) \in Seq(T)
          /\ Len(SubSeq(t, 2, Len(t))) = IF 2 <= Len(t) THEN Len(t) - 2 + 1 ELSE 0
          /\ \A i \in 1 .. Len(t) - 2 + 1 : SubSeq(t, 2, Len(t))[i] = t[2 + i - 1]
      BY <1>1, <3>2, SubSeqProperties
    <3>4. Len(SubSeq(s, 3, Len(s))) = Len(SubSeq(t, 2, Len(t)))
      BY <1>1, <1>2, <3>1, <3>3
    <3>5. \A i \in 1 .. Len(SubSeq(s, 3, Len(s))) :
            SubSeq(s, 3, Len(s))[i] = SubSeq(t, 2, Len(t))[i]
      BY <1>1, <1>2, <1>3, <3>1, <3>3
    <3> QED
      BY <3>1, <3>3, <3>4, <3>5, SeqEqual
  <2> QED
    BY <2>2, <2>3
<1>8. Len(s) - Len(t) + 1 = 2 /\ Len(s) - (Len(t) - 1) - 1 = 1 /\ Len(s) - (Len(t) - 1) + 1 = 3
  BY <1>1, <1>2
<1> QED
  BY <1>1, <1>2, <1>5, <1>6, <1>7, <1>8

\* The name and the arguments that have been asked for.
LEMMA AskedIs ==
  ASSUME IsCall(call), call.kind = "call"
  PROVE  /\ \E S : Asked \in Seq(S)
         /\ Len(Asked) \in Nat \ {0} /\ Len(Asked) = Len(Delivered) + 1
         /\ Asked[1] = Name(call.id)
         /\ SubSeq(Asked, 2, Len(Asked)) = Delivered
<1>1. PICK S : Delivered \in Seq(S)
  BY SetupDelivers
<1> DEFINE T == S \cup {Name(call.id)}
<1>2. <<Name(call.id)>> \in Seq(T) /\ Delivered \in Seq(T) /\ Len(Delivered) \in Nat
  BY <1>1
<1>3. Asked \in Seq(T) /\ Len(Asked) = Len(Delivered) + 1 /\ Asked[1] = Name(call.id)
  BY <1>2, ConcatProperties DEF Asked
<1>4. SubSeq(Asked, Len(Asked) - Len(Delivered) + 1, Len(Asked)) = Delivered
  BY <1>1, StackParts DEF Asked
<1> QED
  BY <1>2, <1>3, <1>4

\* And those behind the first k.
LEMMA RestHas ==
  ASSUME NEW S, Asked \in Seq(S), NEW k \in 0 .. Len(Asked)
  PROVE  /\ Rest(k) \in Seq(S)
         /\ k < Len(Asked) => Len(Rest(k)) = Len(Asked) - k - 1
         /\ k = Len(Asked) => Len(Rest(k)) = 0
         /\ \A i \in 1 .. Len(Asked) - k - 1 : Rest(k)[i] = Asked[k + 1 + i]
<1>1. Len(Asked) \in Nat /\ \A i \in 1 .. Len(Asked) : Asked[i] \in S
  OBVIOUS
<1>2. k + 2 \in Int /\ Len(Asked) \in Int /\ \A i \in k + 2 .. Len(Asked) : Asked[i] \in S
  BY <1>1
<1>3. /\ SubSeq(Asked, k + 2, Len(Asked)) \in Seq(S)
      /\ Len(SubSeq(Asked, k + 2, Len(Asked))) =
           IF k + 2 <= Len(Asked) THEN Len(Asked) - (k + 2) + 1 ELSE 0
      /\ \A i \in 1 .. Len(Asked) - (k + 2) + 1 :
           SubSeq(Asked, k + 2, Len(Asked))[i] = Asked[(k + 2) + i - 1]
  BY <1>2, SubSeqProperties
<1>4. Rest(k) = SubSeq(Asked, k + 2, Len(Asked))
  BY DEF Rest
<1>5. /\ k < Len(Asked) => Len(Rest(k)) = Len(Asked) - k - 1
      /\ k = Len(Asked) => Len(Rest(k)) = 0
  BY <1>1, <1>3, <1>4
<1>6. \A i \in 1 .. Len(Asked) - k - 1 : Rest(k)[i] = Asked[k + 1 + i]
  <2> SUFFICES ASSUME NEW i \in 1 .. Len(Asked) - k - 1 PROVE Rest(k)[i] = Asked[k + 1 + i]
    OBVIOUS
  <2>1. i \in 1 .. Len(Asked) - (k + 2) + 1 /\ (k + 2) + i - 1 = k + 1 + i
    BY <1>1
  <2> QED
    BY <2>1, <1>3, <1>4
<1> QED
  BY <1>3, <1>4, <1>5, <1>6

LEMMA RestIs ==
  ASSUME IsCall(call), call.kind = "call", NEW k \in 0 .. Len(Asked) - 1
  PROVE  /\ \E S : Rest(k) \in Seq(S)
         /\ Len(Rest(k)) = Len(Asked) - k - 1
         /\ Len(Rest(k)) > 0 => /\ Rest(k)[1] = Asked[k + 2]
                                /\ SubSeq(Rest(k), 2, Len(Rest(k))) = Rest(k + 1)
<1>1. PICK S : Asked \in Seq(S)
  BY AskedIs
<1>2. Len(Asked) \in Nat /\ k \in 0 .. Len(Asked) /\ k + 1 \in 0 .. Len(Asked) /\ k < Len(Asked)
  BY <1>1
<1>3. /\ Rest(k) \in Seq(S) /\ Len(Rest(k)) = Len(Asked) - k - 1
      /\ \A i \in 1 .. Len(Asked) - k - 1 : Rest(k)[i] = Asked[k + 1 + i]
  BY <1>1, <1>2, RestHas
<1>4. /\ Rest(k + 1) \in Seq(S)
      /\ k + 1 < Len(Asked) => Len(Rest(k + 1)) = Len(Asked) - (k + 1) - 1
      /\ k + 1 = Len(Asked) => Len(Rest(k + 1)) = 0
      /\ \A i \in 1 .. Len(Asked) - (k + 1) - 1 : Rest(k + 1)[i] = Asked[(k + 1) + 1 + i]
  BY <1>1, <1>2, RestHas
<1>5. ASSUME Len(Rest(k)) > 0
      PROVE  Rest(k)[1] = Asked[k + 2] /\ SubSeq(Rest(k), 2, Len(Rest(k))) = Rest(k + 1)
  <2>1. Rest(k)[1] = Asked[k + 2]
    <3>1. 1 \in 1 .. Len(Asked) - k - 1 /\ k + 1 + 1 = k + 2
      BY <1>2, <1>3, <1>5
    <3> QED
      BY <3>1, <1>3
  <2>2. \A i \in 2 .. Len(Rest(k)) : Rest(k)[i] \in S
    BY <1>3
  <2> DEFINE r == SubSeq(Rest(k), 2, Len(Rest(k)))
  <2>3. /\ r \in Seq(S)
        /\ Len(r) = IF 2 <= Len(Rest(k)) THEN Len(Rest(k)) - 2 + 1 ELSE 0
        /\ \A i \in 1 .. Len(Rest(k)) - 2 + 1 : r[i] = Rest(k)[2 + i - 1]
    <3>1. Len(Rest(k)) \in Int
      BY <1>2, <1>3
    <3> QED
      BY <3>1, <2>2, SubSeqProperties
  <2> HIDE DEF r
  <2>4. Len(r) = Len(Rest(k + 1))
    BY <1>2, <1>3, <1>4, <1>5, <2>3
  <2>5. \A i \in 1 .. Len(r) : r[i] = Rest(k + 1)[i]
    <3> SUFFICES ASSUME NEW i \in 1 .. Len(r) PROVE r[i] = Rest(k + 1)[i]
      OBVIOUS
    <3>1. i \in 1 .. Len(Rest(k)) - 2 + 1 /\ i \in 1 .. Len(Asked) - (k + 1) - 1
          /\ 2 + i - 1 \in 1 .. Len(Asked) - k - 1
      BY <1>2, <1>3, <1>5, <2>3
    <3>2. r[i] = Rest(k)[2 + i - 1] /\ Rest(k)[2 + i - 1] = Asked[k + 1 + (2 + i - 1)]
      BY <1>3, <2>3, <3>1
    <3>3. Rest(k + 1)[i] = Asked[(k + 1) + 1 + i]
      BY <1>4, <3>1
    <3>4. k + 1 + (2 + i - 1) = (k + 1) + 1 + i
      BY <3>1, <1>2
    <3> QED
      BY <3>2, <3>3, <3>4
  <2> QED
    BY <2>1, <2>3, <2>4, <2>5, <1>4, SeqEqual DEF r
<1> QED
  BY <1>3, <1>5

\* How many sends there are is the number after which there is no other.
LEMMA SendsIs ==
  ASSUME IsCall(call), call.kind = "call", NEW k, Sent(k)
  PROVE  /\ Asked[k + 1] # Name("send") =>
              Sends = k /\ Sends < Len(Asked) /\ Named = Asked[k + 1] /\ Arguments = Rest(k)
         /\ Asked[k + 1] = Name("send") /\ k + 1 = Len(Asked) => Sends = Len(Asked)
         /\ Asked[k + 1] = Name("send") /\ k + 1 # Len(Asked) => Sent(k + 1)
<1> DEFINE Counts(n) == /\ \A i \in 1 .. n : Asked[i] = Name("send")
                        /\ n < Len(Asked) => Asked[n + 1] # Name("send")
<1>1. Len(Asked) \in Nat /\ k \in 0 .. Len(Asked) - 1 /\ \A i \in 1 .. k : Asked[i] = Name("send")
  BY AskedIs DEF Sent
<1>2. ASSUME NEW n \in 0 .. Len(Asked), Counts(n) PROVE Sends = n
  <2>1. ASSUME NEW j \in 0 .. Len(Asked), NEW l \in 0 .. Len(Asked), Counts(j), Counts(l), j < l
        PROVE  FALSE
    <3>1. j + 1 \in 1 .. l /\ j < Len(Asked)
      BY <2>1, <1>1
    <3> QED
      BY <3>1, <2>1
  <2>2. \A j \in 0 .. Len(Asked) : Counts(j) => j = n
    <3> SUFFICES ASSUME NEW j \in 0 .. Len(Asked), Counts(j), j # n PROVE FALSE
      OBVIOUS
    <3>1. j < n \/ n < j
      BY <1>1
    <3> QED
      BY <3>1, <2>1, <1>2
  <2>3. Sends \in 0 .. Len(Asked) /\ Counts(Sends)
    <3>1. Sends = CHOOSE j \in 0 .. Len(Asked) : Counts(j)
      BY DEF Sends
    <3> HIDE DEF Counts
    <3> QED
      BY <3>1, <1>2
  <2> QED
    BY <2>2, <2>3
<1>3. ASSUME Asked[k + 1] # Name("send")
      PROVE  Sends = k /\ Sends < Len(Asked) /\ Named = Asked[k + 1] /\ Arguments = Rest(k)
  <2>1. k \in 0 .. Len(Asked) /\ Counts(k)
    BY <1>1, <1>3
  <2>2. Sends = k
    BY <2>1, <1>2
  <2> QED
    BY <2>2, <1>1 DEF Named, Arguments, Rest
<1>4. ASSUME Asked[k + 1] = Name("send") PROVE \A i \in 1 .. k + 1 : Asked[i] = Name("send")
  <2>1. \A i \in 1 .. k + 1 : i \in 1 .. k \/ i = k + 1
    BY <1>1
  <2> QED
    BY <2>1, <1>1, <1>4
<1>5. ASSUME Asked[k + 1] = Name("send"), k + 1 = Len(Asked) PROVE Sends = Len(Asked)
  <2>1. k + 1 \in 0 .. Len(Asked) /\ Counts(k + 1)
    BY <1>1, <1>4, <1>5
  <2> QED
    BY <2>1, <1>2, <1>5
<1>6. ASSUME Asked[k + 1] = Name("send"), k + 1 # Len(Asked) PROVE Sent(k + 1)
  BY <1>1, <1>4, <1>6 DEF Sent
<1> QED
  BY <1>3, <1>5, <1>6

\* Only a name looks like one.
LEMMA AskedNames ==
  ASSUME IsCall(call), call.kind = "call", NEW i \in 1 .. Len(Asked), Asked[i][1] = "name"
  PROVE  Asked[i] = Name(Asked[i][2])
<1> DEFINE args == call.args
           last == args[Len(args)]
           front == SubSeq(args, 1, Len(args) - 1)
<1>1. PICK S : Delivered \in Seq(S)
  BY SetupDelivers
<1>2. \A j \in 1 .. Len(Delivered) : Delivered[j][1] = "name" => Delivered[j] = Name(Delivered[j][2])
  <2>1. PICK A : args \in Seq(A)
    BY DEF IsCall, IsList
  <2>2. /\ Len(args) \in Nat /\ DOMAIN args = 1 .. Len(args)
        /\ \A j \in 1 .. Len(args) : args[j] \in A
    BY <2>1
  <2>3. \A j \in 1 .. Len(args) : args[j][1] = "name" => args[j] = Name(args[j][2])
    BY <2>2 DEF IsCall, AreNames
  <2>4. CASE Delivered = args
    BY <2>3, <2>4
  <2>5. Len(args) - 1 \in Int /\ \A j \in 1 .. Len(args) - 1 : args[j] \in A
    BY <2>2
  <2>6. /\ front \in Seq(A) /\ Len(front) = IF 1 <= Len(args) - 1 THEN Len(args) - 1 - 1 + 1 ELSE 0
        /\ \A j \in 1 .. Len(args) - 1 - 1 + 1 : front[j] = args[1 + j - 1]
    BY <2>5, SubSeqProperties
  <2>7. \A j \in 1 .. Len(front) : j \in 1 .. Len(args) /\ front[j] = args[j]
    BY <2>2, <2>6
  <2>8. CASE Delivered = front
    BY <2>3, <2>7, <2>8
  <2>9. CASE "SPLAT" \in call.flag /\ IsArray(last) /\ Delivered = front \o last[2]
    <3>1. args # <<>>
      BY <2>9 DEF IsCall
    <3>2. Len(args) \in DOMAIN args
      BY <3>1, <2>1, <2>2, EmptySeq
    <3>3. IsList(last[2]) /\ AreNames(last[2])
      BY <3>2, <2>9 DEF IsCall, Fits
    <3>4. PICK B : last[2] \in Seq(B)
      BY <3>3 DEF IsList
    <3>5. /\ Len(last[2]) \in Nat /\ Len(front) \in Nat
          /\ \A j \in 1 .. Len(last[2]) : last[2][j][1] = "name" => last[2][j] = Name(last[2][j][2])
      BY <2>6, <3>3, <3>4 DEF AreNames
    <3>6. front \in Seq(A \cup B) /\ last[2] \in Seq(A \cup B)
      BY <2>6, <3>4
    <3>7. /\ Len(Delivered) = Len(front) + Len(last[2])
          /\ \A j \in 1 .. Len(front) + Len(last[2]) :
               Delivered[j] = IF j <= Len(front) THEN front[j] ELSE last[2][j - Len(front)]
      BY <3>6, <2>9, ConcatProperties
    <3> HIDE DEF front, last
    <3> SUFFICES ASSUME NEW j \in 1 .. Len(Delivered), Delivered[j][1] = "name"
                 PROVE  Delivered[j] = Name(Delivered[j][2])
      OBVIOUS
    <3>8. CASE j <= Len(front)
      <4>1. j \in 1 .. Len(front) + Len(last[2]) /\ j \in 1 .. Len(front)
        BY <3>5, <3>7, <3>8
      <4>2. Delivered[j] = front[j]
        BY <4>1, <3>5, <3>7, <3>8
      <4> QED
        BY <4>1, <4>2, <2>3, <2>7
    <3>9. CASE ~(j <= Len(front))
      <4>1. j \in 1 .. Len(front) + Len(last[2]) /\ j - Len(front) \in 1 .. Len(last[2])
        BY <3>5, <3>7, <3>9
      <4>2. Delivered[j] = last[2][j - Len(front)]
        BY <4>1, <3>7, <3>9
      <4> QED
        BY <4>1, <4>2, <3>5
    <3> QED
      BY <3>8, <3>9
  <2>10. \/ Delivered = args \/ Delivered = front
         \/ "SPLAT" \in call.flag /\ IsArray(last) /\ Delivered = front \o last[2]
    <3>1. ~IsArray(nil)
      BY DEF IsArray, nil
    <3>2. CASE "SPLAT" \notin call.flag
      BY <3>2 DEF Delivered
    <3>3. CASE "SPLAT" \in call.flag /\ last = nil
      BY <3>1, <3>3 DEF Delivered
    <3>4. CASE "SPLAT" \in call.flag /\ last # nil /\ IsArray(last)
      BY <3>4 DEF Delivered
    <3>5. CASE "SPLAT" \in call.flag /\ last # nil /\ ~IsArray(last)
      BY <3>5 DEF Delivered
    <3> QED
      BY <3>2, <3>3, <3>4, <3>5
  <2> QED
    BY <2>4, <2>8, <2>9, <2>10
<1>3. CASE i = 1
  BY <1>3, AskedIs DEF Name
<1>4. CASE i # 1
  <2>1. Len(<<Name(call.id)>>) = 1 /\ Len(Delivered) \in Nat
    BY <1>1
  <2>2. /\ <<Name(call.id)>> \in Seq(S \cup {Name(call.id)})
        /\ Delivered \in Seq(S \cup {Name(call.id)})
    BY <1>1
  <2>3. /\ Len(Asked) = 1 + Len(Delivered)
        /\ \A j \in 1 .. 1 + Len(Delivered) :
             Asked[j] = IF j <= 1 THEN <<Name(call.id)>>[j] ELSE Delivered[j - 1]
    BY <2>1, <2>2, ConcatProperties DEF Asked
  <2>4. i - 1 \in 1 .. Len(Delivered) /\ Asked[i] = Delivered[i - 1]
    BY <1>4, <2>1, <2>3
  <2> QED
    BY <2>4, <1>2
<1> QED
  BY <1>3, <1>4

-----------------------------------------------------------------------------
(* The entries of the classes.                                             *)

\* The lowest of some classes.
LEMMA LowestIs ==
  ASSUME NEW T \in SUBSET (1 .. Depth), T # {}
  PROVE  /\ LowestOf(T) \in T /\ \A j \in T : LowestOf(T) <= j
         /\ \A c \in T : (\A j \in T : c <= j) => LowestOf(T) = c
<1>1. T \subseteq Nat
  OBVIOUS
<1>2. \E c \in T : \A j \in T : c <= j
  BY <1>1, SmallestOf
<1>3. LowestOf(T) \in T /\ \A j \in T : LowestOf(T) <= j
  BY <1>2 DEF LowestOf
<1>4. ASSUME NEW c \in T, \A j \in T : c <= j PROVE LowestOf(T) = c
  <2>1. LowestOf(T) <= c /\ c <= LowestOf(T) /\ LowestOf(T) \in Nat /\ c \in Nat
    BY <1>1, <1>3, <1>4
  <2> QED
    BY <2>1
<1> QED
  BY <1>3, <1>4

\* rb_method_entry finds the lowest entry.
LEMMA EntryIs ==
  ASSUME NEW klass \in Nat \ {0}, NEW methods
  PROVE  LET found == {k \in klass .. Depth : methods[k] # None}
         IN /\ rb_method_entry(methods, klass, "send") = Of(Send, Depth)
            /\ found = {} => rb_method_entry(methods, klass, "foo") = None
            /\ found # {} => rb_method_entry(methods, klass, "foo") =
                               Of(methods[LowestOf(found)], LowestOf(found))
            /\ \A m : m \notin {"send", "foo"} => rb_method_entry(methods, klass, m) = None
BY DEF rb_method_entry, LowestOf

\* What is found for a call when it has been sent for the last time.
LEMMA HavingIs ==
  ASSUME IsCall(call)
  PROVE  /\ Having \subseteq 1 .. Depth /\ Bodies \subseteq Having
         /\ \A c \in Having : /\ IsEntry(call.methods[c]) /\ Of(call.methods[c], c) # None
                              /\ call.methods[c] # None
         /\ Having # {} => /\ Sends < Len(Asked) /\ Named = Name("foo")
                           /\ LowestOf(Having) \in Having /\ Judged = call.methods[LowestOf(Having)]
                           /\ IsEntry(Judged) /\ Of(Judged, LowestOf(Having)) # None
<1>1. Having \subseteq 1 .. Depth /\ Bodies \subseteq Having
  BY DepthAssumption DEF Having, From, Bodies
<1>2. \A c \in Having : /\ IsEntry(call.methods[c]) /\ Of(call.methods[c], c) # None
                        /\ call.methods[c] # None
  BY <1>1 DEF IsCall, Having
<1>3. Having # {} => LowestOf(Having) \in Having
  BY <1>1, LowestIs
<1>4. Having # {} => Sends < Len(Asked) /\ Named = Name("foo")
  BY DEF Having
<1>5. Judged = call.methods[LowestOf(Having)]
  BY DEF Judged
<1> QED
  BY <1>1, <1>2, <1>3, <1>4, <1>5

LEMMA EntryForFoo ==
  ASSUME IsCall(call), Sends < Len(Asked), Named = Name("foo")
  PROVE  rb_method_entry(call.methods, From, "foo") =
           IF Having = {} THEN None ELSE Of(Judged, LowestOf(Having))
<1>1. Having = {k \in From .. Depth : call.methods[k] # None}
  BY DEF Having
<1>2. From \in Nat \ {0}
  BY DEF From
<1> QED
  BY <1>1, <1>2, EntryIs DEF Judged

-----------------------------------------------------------------------------
(* Where the dispatch loop is.                                             *)

\* After k sends.
LEMMA LoopIs ==
  ASSUME IsCall(call), NEW k, Loop(k)
  PROVE  /\ num \in Nat /\ Len(stack) = num + 1 /\ Top(num) = Rest(k)
         /\ SubSeq(stack, 1, Len(stack) - (num + 1)) = <<>>
         /\ num > 0 => /\ Without(num - 1) = <<Recv>> \o Rest(k + 1)
                       /\ Top(num)[1] = Asked[k + 2]
         /\ num = 0 <=> k + 1 = Len(Asked)
         /\ k \in 0 .. Len(Asked) - 1 /\ Len(Asked) \in Nat
<1>1. /\ call.kind = "call" /\ Sent(k) /\ num = Len(Rest(k)) /\ stack = <<Recv>> \o Rest(k)
  BY DEF Loop
<1>2. k \in 0 .. Len(Asked) - 1 /\ Len(Asked) \in Nat
  BY <1>1, AskedIs DEF Sent
<1>3. PICK S : Rest(k) \in Seq(S)
  BY <1>1, <1>2, RestIs
<1>4. /\ Len(Rest(k)) = Len(Asked) - k - 1
      /\ Len(Rest(k)) > 0 => /\ Rest(k)[1] = Asked[k + 2]
                             /\ SubSeq(Rest(k), 2, Len(Rest(k))) = Rest(k + 1)
  BY <1>1, <1>2, RestIs
<1>5. /\ Len(stack) = Len(Rest(k)) + 1 /\ Len(Rest(k)) \in Nat
      /\ SubSeq(stack, Len(stack) - Len(Rest(k)) + 1, Len(stack)) = Rest(k)
      /\ SubSeq(stack, 1, Len(stack) - (Len(Rest(k)) + 1)) = <<>>
      /\ Len(Rest(k)) > 0 =>
           SubSeq(stack, 1, Len(stack) - (Len(Rest(k)) - 1) - 1)
             \o SubSeq(stack, Len(stack) - (Len(Rest(k)) - 1) + 1, Len(stack)) =
           <<Recv>> \o SubSeq(Rest(k), 2, Len(Rest(k)))
  BY <1>1, <1>3, StackParts
<1>6. Top(num) = Rest(k)
  BY <1>1, <1>5 DEF Top
<1>7. num > 0 => Without(num - 1) = <<Recv>> \o Rest(k + 1)
  BY <1>1, <1>4, <1>5 DEF Without
<1>8. num = 0 <=> k + 1 = Len(Asked)
  BY <1>1, <1>2, <1>4
<1> QED
  BY <1>1, <1>2, <1>4, <1>5, <1>6, <1>7, <1>8

\* The last name has been reached, unless it is send.
LEMMA LoopEnds ==
  ASSUME IsCall(call), NEW k, Loop(k), id # "send"
  PROVE  Sends = k /\ Sends < Len(Asked) /\ Named = Name(id) /\ Arguments = Rest(k)
<1>1. Sent(k) /\ Asked[k + 1] = Name(id) /\ call.kind = "call"
  BY DEF Loop
<1>2. Name(id) # Name("send")
  BY DEF Name
<1> QED
  BY <1>1, <1>2, SendsIs

\* What the sends have made of the flags.
LEMMA FlagIs ==
  ASSUME IsCall(call), NEW k, Loop(k)
  PROVE  /\ "FCALL" \in flag <=> k > 0 \/ "FCALL" \in call.flag
         /\ "OPT_SEND" \in flag <=> k > 0
         /\ flag \cap {"VCALL", "SUPER"} = call.flag \cap {"VCALL", "SUPER"}
         /\ "VCALL" \in flag => "FCALL" \in flag
<1>1. k \in Nat
  BY LoopIs
<1>2. /\ call.flag \subseteq {"FCALL", "VCALL", "SUPER", "SPLAT", "TAILCALL"}
      /\ call.flag \cap {"VCALL", "SUPER"} # {} => "FCALL" \in call.flag
  BY DEF IsCall
<1>3. flag = IF k = 0 THEN call.flag ELSE call.flag \cup {"FCALL", "OPT_SEND"}
  BY DEF Loop
<1>4. CASE k = 0
  BY <1>2, <1>3, <1>4
<1>5. CASE k # 0
  <2>1. k > 0
    BY <1>1, <1>5
  <2> QED
    BY <2>1, <1>2, <1>3, <1>5
<1> QED
  BY <1>4, <1>5

\* The tests of the code are about the lowest entry, and are those asked for.
LEMMA JudgedAsAllowed ==
  ASSUME IsCall(call), NEW k, Loop(k), id = "foo", Having # {},
         me = Of(Judged, LowestOf(Having))
  PROVE  /\ Allowed <=> ~Private /\ ~Protected
         /\ Safe <=> ~Insecure \/ (me.vis = "protected" /\ "OPT_SEND" \notin flag)
         /\ Private => Judged.vis = "private" /\ "VCALL" \notin flag
         /\ Protected => Judged.vis = "protected"
         /\ Unflagged(me) => Allowed /\ Safe
<1>1. Sends = k /\ k \in Nat
  BY LoopEnds, LoopIs
<1>2. IsEntry(Judged)
  BY HavingIs
<1>3. /\ me.vis = Judged.vis /\ me.safe = Judged.safe /\ (me.iclass <=> Judged.iclass)
      /\ Judged.safe \in Nat /\ Judged.vis \in {"public", "private", "protected"}
  BY <1>2, FieldsOf DEF IsEntry
<1>4. Related(me) <=> Related(Judged)
  BY <1>3 DEF Related
<1>5. /\ "FCALL" \in flag <=> Sends > 0 \/ "FCALL" \in call.flag
      /\ "OPT_SEND" \in flag <=> Sends > 0
      /\ "VCALL" \in flag => "FCALL" \in flag
      /\ Sends > 0 <=> Sends # 0
  BY <1>1, FlagIs
<1>6. Allowed <=> ~Private /\ ~Protected
  BY <1>3, <1>4, <1>5 DEF Allowed, Private, Protected
<1>7. Safe <=> ~Insecure \/ (me.vis = "protected" /\ "OPT_SEND" \notin flag)
  <2>1. Insecure <=> ~(Judged.safe <= SafeLevel \/ Judged.safe <= 2)
    BY <1>3, DepthAssumption DEF Insecure
  <2> QED
    BY <2>1, <1>3, <1>5 DEF Safe
<1>8. Private => Judged.vis = "private" /\ "VCALL" \notin flag
  BY <1>3, <1>5 DEF Private
<1>9. Protected => Judged.vis = "protected"
  BY <1>3 DEF Protected
<1>10. Unflagged(me) => Allowed /\ Safe
  BY <1>3, DepthAssumption DEF Unflagged, Allowed, Safe
<1> QED
  BY <1>6, <1>7, <1>8, <1>9, <1>10

\* A body is only dispatched to if it is the one that was asked for.
LEMMA Dispatched ==
  ASSUME IInv, pc = "normal", me.type \notin {"ZSUPER", "SEND"}
  PROVE  /\ call.kind = "call" /\ call.blockarg # "other" /\ block = Passed
         /\ Reached /\ Body.type = me.type /\ Body.type \in Types
         /\ Body.type = "ISEQ" => me.params = Body.params /\ IsParams(Body.params)
         /\ Body.type \in {"CFUNC", "NOTIMPLEMENTED"} => me.arity = Body.arity /\ Body.arity \in Int
         /\ Sends < Len(Asked) /\ Named = Name("foo")
         /\ num \in Nat /\ num = Len(Arguments) /\ Top(num) = Arguments
         /\ Len(stack) = num + 1 /\ SubSeq(stack, 1, Len(stack) - (num + 1)) = <<>>
         /\ \E S : Arguments \in Seq(S)
<1>1. IsCall(call) /\ Goes
  BY DEF IInv
<1>2. PICK k \in 0 .. Len(Asked) : Loop(k)
  BY DEF IInv
<1>3. me # Of(Send, Depth)
  BY FieldsOfSend
<1>4. /\ id = "foo" /\ Allowed /\ Safe
      /\ \E c \in Having : /\ me = Of(call.methods[c], c)
                           /\ \A j \in Having : j < c => call.methods[j].type = "ZSUPER"
  BY <1>1, <1>3 DEF Goes
<1>5. PICK c \in Having : /\ me = Of(call.methods[c], c)
                          /\ \A j \in Having : j < c => call.methods[j].type = "ZSUPER"
  BY <1>4
<1>6. /\ Having \subseteq 1 .. Depth /\ Bodies \subseteq Having /\ IsEntry(call.methods[c])
  BY <1>1, HavingIs
<1>7. /\ me.type = call.methods[c].type
      /\ me.type = "ISEQ" => me.params = call.methods[c].params
      /\ me.type \in {"CFUNC", "NOTIMPLEMENTED"} => me.arity = call.methods[c].arity
  BY <1>5, <1>6, FieldsOf
<1>8. c \in Bodies
  BY <1>7 DEF Bodies
<1>9. \A j \in Bodies : c <= j
  <2> SUFFICES ASSUME NEW j \in Bodies PROVE c <= j
    OBVIOUS
  <2>1. j \in Having /\ call.methods[j].type # "ZSUPER"
    BY DEF Bodies
  <2>2. ~(j < c) /\ j \in Int /\ c \in Int
    BY <2>1, <1>5, <1>6, DepthAssumption
  <2> QED
    BY <2>2
<1>10. LowestOf(Bodies) = c
  BY <1>6, <1>8, <1>9, LowestIs
<1>11. Body = call.methods[c]
  BY <1>10 DEF Body
<1>12. Reached
  BY <1>4, <1>8, <1>6 DEF Reached
<1>13. call.kind = "call" /\ call.blockarg # "other" /\ block = Passed /\ num = Len(Rest(k))
  BY <1>2 DEF Loop
<1>14. Sends < Len(Asked) /\ Named = Name("foo") /\ Arguments = Rest(k)
  BY <1>1, <1>2, <1>4, LoopEnds
<1>15. /\ num \in Nat /\ Len(stack) = num + 1 /\ Top(num) = Rest(k)
       /\ SubSeq(stack, 1, Len(stack) - (num + 1)) = <<>>
       /\ k \in 0 .. Len(Asked) - 1
  BY <1>1, <1>2, LoopIs
<1>16. \E S : Arguments \in Seq(S)
  BY <1>1, <1>13, <1>14, <1>15, RestIs
<1>17. /\ Body.type \in Types
       /\ Body.type = "ISEQ" => IsParams(Body.params)
       /\ Body.type \in {"CFUNC", "NOTIMPLEMENTED"} => Body.arity \in Int
  BY <1>6, <1>11 DEF IsEntry
<1> QED
  BY <1>7, <1>11, <1>12, <1>13, <1>14, <1>15, <1>16, <1>17

-----------------------------------------------------------------------------
(* What a call comes to.                                                   *)

LEMMA WithHas ==
  ASSUME NEW r, NEW more
  PROVE  /\ \A x \in DOMAIN r : With(r, more)[x] = r[x]
         /\ \A x \in DOMAIN more : x \notin DOMAIN r => With(r, more)[x] = more[x]
BY DEF With

\* A method takes the arguments or raises an ArgumentError.
LEMMA CalleeIs ==
  ASSUME NEW iseq, NEW argc, NEW mem, NEW b
  PROVE  LET got == vm_callee_setup_arg(iseq, argc, mem, b)
         IN \/ got.kind = "ArgumentError"
            \/ got.kind = "bound" /\ DOMAIN got = {"kind", "opt_pc", "locals"}
<1> DEFINE IsOutcome(got) == \/ got.kind = "ArgumentError"
                             \/ got.kind = "bound" /\ DOMAIN got = {"kind", "opt_pc", "locals"}
<1>1. \A m, n : IsOutcome(argument_error(m, n))
  BY DEF argument_error
<1>2. \A m, i, o : IsOutcome(Bound(m, i, o))
  BY DEF Bound
<1> HIDE DEF IsOutcome
<1>3. IsOutcome(vm_callee_setup_arg_complex(iseq, argc, mem, b))
  BY <1>1, <1>2 DEF vm_callee_setup_arg_complex
<1>4. IsOutcome(vm_callee_setup_arg(iseq, argc, mem, b))
  BY <1>1, <1>2, <1>3 DEF vm_callee_setup_arg
<1> QED
  BY <1>4 DEF IsOutcome

\* And so does a C function.
LEMMA CfuncIs ==
  ASSUME NEW len, NEW args
  PROVE  \/ call_cfunc(len, args).kind = "ArgumentError"
         \/ /\ call_cfunc(len, args).kind = "cfunc"
            /\ DOMAIN call_cfunc(len, args) = {"kind", "params"}
<1> DEFINE IsOutcome(got) == \/ got.kind = "ArgumentError"
                             \/ got.kind = "cfunc" /\ DOMAIN got = {"kind", "params"}
<1>1. \A m, n : IsOutcome(argument_error(m, n))
  BY DEF argument_error
<1>2. \A p : IsOutcome([kind |-> "cfunc", params |-> p])
  OBVIOUS
<1>3. IsOutcome([kind |-> "ArgumentError"])
  OBVIOUS
<1> HIDE DEF IsOutcome
<1>4. IsOutcome(call_cfunc(len, args))
  BY <1>1, <1>2, <1>3 DEF call_cfunc
<1> QED
  BY <1>4 DEF IsOutcome

\* A method written in Ruby or in C is given the arguments asked for.
Taken == vm_callee_setup_arg(Iseq(Body.params), Len(Arguments), StackOf(Arguments), Passed)
TakenByC == call_cfunc(Body.arity, Arguments)
FromBody(got) ==
  /\ Reached /\ Body.type = "ISEQ" =>
       IF Taken.kind = "bound"
       THEN \E more : got = With(Taken, more)
       ELSE got = Taken
  /\ Reached /\ Body.type \in {"CFUNC", "NOTIMPLEMENTED"} =>
       IF TakenByC.kind = "cfunc"
       THEN \E more : got = With(TakenByC, more)
       ELSE got = TakenByC

\* Everything else is given what the caller delivers.
Given(got) ==
  /\ call.kind = "lambda" =>
       got = vm_callee_setup_arg(Iseq(call.params), Len(Delivered), StackOf(Delivered), Passed)
  /\ call.kind = "yield" =>
       got = vm_yield_setup_block_args(Iseq(call.params), Len(Delivered), StackOf(Delivered), Passed)
  /\ call.kind = "ifunc" =>
       got.arg = IF call.lambda THEN Array(Delivered)
                 ELSE IF Delivered = <<>> THEN nil ELSE Delivered[1]
  /\ call.kind = "assign" =>
       got.values = vm_expandarray(call.args, call.num, "SPLAT" \in call.flag, call.post)
Results ==
  pc = "done" =>
    Given(outcome) /\ (call.kind = "call" /\ call.blockarg # "other" => FromBody(outcome))

EndsWell == RunsWhatWasAsked /\ StackIsBalanced /\ BlockReachesTheBody /\ Results

LEMMA ResultsStay ==
  ASSUME call' = call, pc' = "done", Given(outcome'),
         call.kind = "call" /\ call.blockarg # "other" => FromBody(outcome')
  PROVE  Results'
<1>1. Given(outcome)' <=> Given(outcome')
  BY CallStays DEF Given
<1>2. Taken' = Taken /\ TakenByC' = TakenByC
  BY CallStays DEF Taken, TakenByC
<1>3. FromBody(outcome)' <=> FromBody(outcome')
  BY <1>2, CallStays DEF FromBody
<1> QED
  BY <1>1, <1>3 DEF Results

\* What is shown of a step that ends the call.
LEMMA Ends ==
  ASSUME call' = call, pc' = "done", call.kind = "call", AsAsked(outcome'), FromBody(outcome'),
         \/ stack' = <<>>
         \/ outcome'.kind \notin {"bound", "cfunc", "proc", "method_missing", "ivar_get",
                                  "ivar_set", "ifunc"},
         outcome'.kind \in {"bound", "cfunc", "proc", "method_missing"} =>
           \/ outcome'.block = Passed
           \/ call.version = "1.9.2" /\ Reached /\ Body.type = "MISSING"
  PROVE  EndsWell'
<1>1. RunsWhatWasAsked'
  BY AsAskedStays DEF RunsWhatWasAsked
<1>2. StackIsBalanced'
  BY DEF StackIsBalanced
<1>3. BlockReachesTheBody'
  <2>1. (Reached' <=> Reached) /\ Body' = Body
    BY CallStays
  <2> QED
    BY <2>1 DEF BlockReachesTheBody, Passed
<1>4. Results'
  BY ResultsStay DEF Given
<1> QED
  BY <1>1, <1>2, <1>3, <1>4 DEF EndsWell

LEMMA NotReached ==
  ASSUME ~Reached, NEW got
  PROVE  FromBody(got)
BY DEF FromBody

LEMMA GoesOn ==
  ASSUME pc' # "done"
  PROVE  EndsWell'
BY DEF EndsWell, RunsWhatWasAsked, StackIsBalanced, BlockReachesTheBody, Results, Ended

\* method_missing is as asked for if nothing may run.
LEMMA MissingAsAsked ==
  ASSUME NEW m, m # "method_missing", Named = Name(m), Sends < Len(Asked), Len(Asked) \in Nat,
         Sends \in Nat, ~Reached, ~(Having # {} /\ Allowed /\ ~Safe),
         NEW got, got.kind = "method_missing", got.args = <<Named>> \o Arguments,
         got.reasons = IF Having = {} \/ Allowed THEN call.flag \cap {"VCALL", "SUPER"}
                       ELSE IF Judged.vis = "private" THEN {"PRIVATE"} ELSE {"PROTECTED"}
  PROVE  AsAsked(got)
<1>1. Named[1] = "name" /\ Named # Name("method_missing") /\ Sends # Len(Asked)
  BY DEF Name
<1> QED
  BY <1>1 DEF AsAsked

LEMMA NoMethodStep ==
  ASSUME IInv, NoMethod
  PROVE  EndsWell'
<1>1. pc = "start" /\ me = None /\ IsCall(call) /\ Starts
  BY DEF IInv, NoMethod
<1>2. PICK k \in 0 .. Len(Asked) : Loop(k)
  BY <1>1 DEF IInv
<1>3. id # "send"
  BY <1>1, CallsAssumption DEF Starts
<1>4. Sends = k /\ Sends < Len(Asked) /\ Named = Name(id) /\ Arguments = Rest(k)
  BY <1>1, <1>2, <1>3, LoopEnds
<1>5. /\ Len(Asked) \in Nat /\ k \in Nat /\ Top(num) = Rest(k) /\ num \in Nat
      /\ SubSeq(stack, 1, Len(stack) - (num + 1)) = <<>>
  BY <1>1, <1>2, LoopIs
<1>6. flag \cap {"VCALL", "SUPER"} = call.flag \cap {"VCALL", "SUPER"}
  BY <1>1, <1>2, FlagIs
<1>7. block = Passed /\ call.kind = "call" /\ pc' = "done"
  BY <1>1, <1>2 DEF Loop, NoMethod, vm_method_missing, Finish
<1>8. CASE id # "method_missing"
  <2>1. /\ stack' = <<>> /\ call' = call
        /\ outcome' = [kind |-> "method_missing", args |-> <<Name(id)>> \o Top(num),
                       reasons |-> flag \cap {"VCALL", "SUPER"}, block |-> block]
    BY <1>5, <1>8 DEF NoMethod, vm_method_missing, Pop, Finish
  <2>2. Having = {} \/ (Having # {} /\ Allowed /\ Safe /\ Bodies = {})
    <3>1. CASE id = "foo"
      <4>1. Having # {} => Of(Judged, LowestOf(Having)) # None
        BY <1>1, HavingIs
      <4> QED
        BY <4>1, <1>1, <3>1 DEF Starts
    <3>2. CASE id # "foo"
      <4>1. Name(id) # Name("foo")
        BY <3>2 DEF Name
      <4> QED
        BY <4>1, <1>1, <1>4, HavingIs
    <3> QED
      BY <3>1, <3>2
  <2>3. ~Reached /\ ~(Having # {} /\ Allowed /\ ~Safe) /\ (Having = {} \/ Allowed)
    BY <2>2 DEF Reached
  <2>4. AsAsked(outcome')
    <3>1. outcome'.kind = "method_missing" /\ outcome'.args = <<Named>> \o Arguments
          /\ outcome'.reasons = call.flag \cap {"VCALL", "SUPER"}
      BY <2>1, <1>4, <1>5, <1>6
    <3> QED
      BY <3>1, <2>3, <1>4, <1>5, <1>8, MissingAsAsked
  <2>5. outcome'.block = Passed
    BY <2>1, <1>7
  <2> QED
    BY <2>1, <2>3, <2>4, <2>5, <1>7, NotReached, Ends
<1>9. CASE id = "method_missing"
  <2>1. call' = call /\ outcome'.kind = "NoMethodError"
    BY <1>9 DEF NoMethod, Finish
  <2>2. Named[1] = "name" /\ Named = Name("method_missing") /\ Sends # Len(Asked)
    BY <1>4, <1>5, <1>9 DEF Name
  <2>3. Named # Name("foo")
    BY <2>2 DEF Name
  <2>4. Having = {} /\ ~Reached
    BY <2>3, <1>1, HavingIs DEF Reached
  <2>5. AsAsked(outcome')
    BY <2>1, <2>2, <2>4, <1>4 DEF AsAsked
  <2> QED
    BY <2>1, <2>4, <2>5, <1>7, NotReached, Ends
<1> QED
  BY <1>8, <1>9

LEMMA RefuseStep ==
  ASSUME IInv, Refuse
  PROVE  EndsWell'
<1>1. pc = "start" /\ me # None /\ IsCall(call) /\ Starts
  BY DEF IInv, Refuse
<1>2. PICK k \in 0 .. Len(Asked) : Loop(k)
  BY <1>1 DEF IInv
<1>3. id = "foo" /\ Having # {} /\ me = Of(Judged, LowestOf(Having))
  <2>1. me = Of(Send, Depth) => ~Private /\ me.vis # "protected" /\ ~Insecure
    BY FieldsOfSend, DepthAssumption DEF Private, Insecure
  <2>2. me # Of(Send, Depth)
    BY <2>1 DEF Refuse, Protected
  <2> QED
    BY <2>2, <1>1 DEF Starts
<1>4. Sends = k /\ Sends < Len(Asked) /\ Named = Name("foo") /\ Arguments = Rest(k)
  BY <1>1, <1>2, <1>3, LoopEnds
<1>5. /\ Len(Asked) \in Nat /\ k \in Nat /\ Top(num) = Rest(k)
      /\ SubSeq(stack, 1, Len(stack) - (num + 1)) = <<>>
  BY <1>1, <1>2, LoopIs
<1>6. block = Passed /\ call.kind = "call" /\ pc' = "done"
  BY <1>2 DEF Loop, Refuse, vm_method_missing, Finish
<1>7. /\ Allowed <=> ~Private /\ ~Protected
      /\ Safe <=> ~Insecure \/ (me.vis = "protected" /\ "OPT_SEND" \notin flag)
      /\ Private => Judged.vis = "private" /\ "VCALL" \notin flag
      /\ Protected => Judged.vis = "protected"
  BY <1>1, <1>2, <1>3, JudgedAsAllowed
<1>8. ASSUME NEW reasons, vm_method_missing(reasons), ~Allowed,
             reasons = IF Judged.vis = "private" THEN {"PRIVATE"} ELSE {"PROTECTED"}
      PROVE  EndsWell'
  <2>1. /\ stack' = <<>> /\ call' = call
        /\ outcome' = [kind |-> "method_missing", args |-> <<Name(id)>> \o Top(num),
                       reasons |-> reasons, block |-> block]
    BY <1>5, <1>8 DEF vm_method_missing, Pop, Finish
  <2>2. ~Reached
    BY <1>8 DEF Reached
  <2>3. AsAsked(outcome')
    <3>1. outcome'.kind = "method_missing" /\ outcome'.args = <<Named>> \o Arguments
          /\ outcome'.reasons = reasons
      BY <2>1, <1>3, <1>4, <1>5
    <3>2. "foo" # "method_missing"
      OBVIOUS
    <3> QED
      BY <3>1, <3>2, <2>2, <1>3, <1>4, <1>5, <1>8, MissingAsAsked
  <2>4. outcome'.block = Passed
    BY <2>1, <1>6
  <2> QED
    BY <2>1, <2>2, <2>3, <2>4, <1>6, NotReached, Ends
<1>9. CASE Private /\ vm_method_missing({"PRIVATE"} \cup (flag \cap {"VCALL"}))
  <2>1. {"PRIVATE"} \cup (flag \cap {"VCALL"}) = {"PRIVATE"} /\ Judged.vis = "private" /\ ~Allowed
    BY <1>7, <1>9
  <2> QED
    BY <2>1, <1>8, <1>9
<1>10. CASE ~Private /\ Protected /\ vm_method_missing({"PROTECTED"})
  <2>1. Judged.vis = "protected" /\ ~Allowed
    BY <1>7, <1>10
  <2> QED
    BY <2>1, <1>8, <1>10
<1>11. CASE /\ ~Private /\ (me.vis = "protected" => "OPT_SEND" \in flag) /\ Insecure
            /\ Finish([kind |-> "SecurityError"]) /\ UNCHANGED <<call, registers>>
  <2>1. ~Protected /\ Allowed /\ ~Safe
    BY <1>7, <1>11 DEF Protected
  <2>2. call' = call /\ outcome'.kind = "SecurityError"
    BY <1>11 DEF Finish
  <2>3. ~Reached
    BY <2>1 DEF Reached
  <2>4. Named[1] = "name" /\ Named # Name("method_missing") /\ Sends # Len(Asked)
    BY <1>4, <1>5 DEF Name
  <2>5. AsAsked(outcome')
    BY <2>1, <2>2, <2>3, <2>4, <1>3, <1>4 DEF AsAsked
  <2> QED
    BY <2>2, <2>3, <2>5, <1>6, NotReached, Ends
<1> QED
  BY <1>9, <1>10, <1>11 DEF Refuse

\* The body that is dispatched to is the one that was asked for.
LEMMA BodyAsAsked ==
  ASSUME IsCall(call), Reached, Sends < Len(Asked), Named = Name("foo"), Len(Asked) \in Nat,
         Sends \in Nat, NEW got,
         Body.type = "MISSING" => /\ got.kind = "method_missing" /\ got.reasons = {}
                                  /\ got.args = <<Named>> \o Arguments,
         Body.type \in {"BMETHOD", "CALL"} => got.kind = "proc" /\ got.args = Arguments,
         Body.type \in {"ATTRSET", "IVAR"} =>
           IF Len(Arguments) = (IF Body.type = "IVAR" THEN 0 ELSE 1)
           THEN got.kind \in {"ivar_get", "ivar_set"} /\ got.args = Arguments
           ELSE got.kind = "ArgumentError",
         Body.type \in {"CFUNC", "NOTIMPLEMENTED", "ISEQ"} =>
           got.kind \in {"cfunc", "bound", "ArgumentError"},
         Body.type \in {"MISSING", "BMETHOD", "CALL", "ATTRSET", "IVAR", "CFUNC",
                        "NOTIMPLEMENTED", "ISEQ"}
  PROVE  AsAsked(got)
<1>1. Named[1] = "name" /\ Named # Name("method_missing") /\ Sends # Len(Asked) /\ Safe
  BY DEF Name, Reached
<1>2. CASE Body.type = "MISSING"
  BY <1>1, <1>2 DEF AsAsked
<1>3. CASE Body.type \in {"BMETHOD", "CALL"}
  BY <1>1, <1>3 DEF AsAsked
<1>4. CASE Body.type \in {"ATTRSET", "IVAR"}
  BY <1>1, <1>4 DEF AsAsked
<1>5. CASE Body.type \in {"CFUNC", "NOTIMPLEMENTED", "ISEQ"}
  BY <1>1, <1>5 DEF AsAsked
<1> QED
  BY <1>2, <1>3, <1>4, <1>5

LEMMA SendsInRange ==
  ASSUME IInv, pc \in {"start", "normal"}
  PROVE  /\ Len(Asked) \in Nat
         /\ id # "send" => Sends \in Nat
<1>1. PICK k \in 0 .. Len(Asked) : Loop(k)
  BY DEF IInv
<1>2. IsCall(call)
  BY DEF IInv
<1> QED
  BY <1>1, <1>2, LoopIs, LoopEnds

FromRuby(got) ==
  LET found == vm_callee_setup_arg(Iseq(me.params), num, StackOf(Top(num)), block)
  IN IF found.kind = "bound" THEN \E more : got = With(found, more) ELSE got = found
FromC(got) ==
  LET found == call_cfunc(me.arity, Top(num))
  IN IF found.kind = "cfunc" THEN \E more : got = With(found, more) ELSE got = found

\* A body that runs takes receiver and arguments from the stack, and the block.
LEMMA BodySteps ==
  ASSUME IInv, pc = "normal", call' = call, pc' = "done",
         me.type \in {"MISSING", "BMETHOD", "CALL", "ATTRSET", "IVAR", "CFUNC", "NOTIMPLEMENTED",
                      "ISEQ"},
         me.type = "MISSING" => /\ outcome'.kind = "method_missing" /\ outcome'.reasons = {}
                                /\ outcome'.args = <<Name("foo")>> \o Top(num),
         me.type \in {"BMETHOD", "CALL"} => outcome'.kind = "proc" /\ outcome'.args = Top(num),
         me.type \in {"ATTRSET", "IVAR"} =>
           IF num = (IF me.type = "IVAR" THEN 0 ELSE 1)
           THEN outcome'.kind \in {"ivar_get", "ivar_set"} /\ outcome'.args = Top(num)
           ELSE outcome'.kind = "ArgumentError",
         me.type \in {"CFUNC", "NOTIMPLEMENTED", "ISEQ"} =>
           outcome'.kind \in {"cfunc", "bound", "ArgumentError"},
         outcome'.kind # "ArgumentError" => stack' = SubSeq(stack, 1, Len(stack) - (num + 1))
                                              \/ stack' = <<>>,
         outcome'.kind \in {"bound", "cfunc", "proc", "method_missing"} =>
           outcome'.block = block \/ (call.version # "1.9.3" /\ me.type = "MISSING"),
         me.type = "ISEQ" => FromRuby(outcome'),
         me.type \in {"CFUNC", "NOTIMPLEMENTED"} => FromC(outcome')
  PROVE  EndsWell'
<1>1. IsCall(call) /\ me.type \notin {"ZSUPER", "SEND"}
  BY DEF IInv
<1>2. /\ block = Passed /\ Reached /\ Body.type = me.type
      /\ Sends < Len(Asked) /\ Named = Name("foo")
      /\ num = Len(Arguments) /\ Top(num) = Arguments /\ call.kind = "call"
      /\ SubSeq(stack, 1, Len(stack) - (num + 1)) = <<>>
  BY <1>1, Dispatched
<1>3. Len(Asked) \in Nat /\ Sends \in Nat
  <2>1. Goes
    BY DEF IInv
  <2>2. id # "send"
    BY <2>1, <1>1, FieldsOfSend DEF Goes
  <2> QED
    BY <2>2, SendsInRange
<1>4. AsAsked(outcome')
  BY <1>1, <1>2, <1>3, BodyAsAsked
<1>5. outcome'.kind # "ArgumentError" => stack' = <<>>
  BY <1>2
<1>6. outcome'.kind \in {"bound", "cfunc", "proc", "method_missing"} =>
           \/ outcome'.block = Passed
           \/ call.version = "1.9.2" /\ Reached /\ Body.type = "MISSING"
  BY <1>1, <1>2 DEF IsCall
<1>7. FromBody(outcome')
  <2>1. Body.type = "ISEQ" => me.params = Body.params
    BY <1>1, Dispatched
  <2>2. Body.type \in {"CFUNC", "NOTIMPLEMENTED"} => me.arity = Body.arity
    BY <1>1, Dispatched
  <2>3. Body.type = "ISEQ" => Taken = vm_callee_setup_arg(Iseq(me.params), num, StackOf(Top(num)), block)
    BY <2>1, <1>2 DEF Taken
  <2>4. Body.type \in {"CFUNC", "NOTIMPLEMENTED"} => TakenByC = call_cfunc(me.arity, Top(num))
    BY <2>2, <1>2 DEF TakenByC
  <2> QED
    BY <2>3, <2>4, <1>2 DEF FromBody, FromRuby, FromC
<1> QED
  BY <1>2, <1>4, <1>5, <1>6, <1>7, Ends

LEMMA SetupMethodStep ==
  ASSUME IInv, vm_setup_method
  PROVE  EndsWell'
<1> DEFINE found == vm_callee_setup_arg(Iseq(me.params), num, StackOf(Top(num)), block)
           more == [block |-> block, replaces |-> "TAILCALL" \in flag]
<1>1. /\ pc = "normal" /\ me.type = "ISEQ" /\ call' = call /\ pc' = "done"
      /\ found.kind # "bound" => outcome' = found
      /\ found.kind = "bound" => /\ outcome' = With(found, more)
                                 /\ \/ stack' = <<>>
                                    \/ stack' = SubSeq(stack, 1, Len(stack) - (num + 1))
  BY DEF vm_setup_method, Dispatch, Finish, Pop
<1>2. \/ found.kind = "ArgumentError"
      \/ found.kind = "bound" /\ DOMAIN found = {"kind", "opt_pc", "locals"}
  BY CalleeIs
<1>5. FromRuby(outcome')
  BY <1>1 DEF FromRuby
<1> HIDE DEF found
<1>3. CASE found.kind = "ArgumentError"
  <2>1. outcome'.kind = "ArgumentError"
    BY <1>1, <1>3
  <2> QED
    BY <2>1, <1>1, <1>5, BodySteps
<1>4. CASE found.kind = "bound" /\ DOMAIN found = {"kind", "opt_pc", "locals"}
  <2>1. "block" \in DOMAIN more /\ more.block = block
    OBVIOUS
  <2> HIDE DEF more
  <2>2. outcome'.kind = "bound" /\ outcome'.block = block
    BY <1>1, <1>4, <2>1, WithHas
  <2> QED
    BY <2>2, <1>1, <1>4, <1>5, BodySteps
<1> QED
  BY <1>2, <1>3, <1>4

LEMMA CfuncStep ==
  ASSUME IInv, vm_call_cfunc
  PROVE  EndsWell'
<1> DEFINE found == call_cfunc(me.arity, Top(num))
           more == [block |-> block]
<1>1. /\ pc = "normal" /\ me.type \in {"CFUNC", "NOTIMPLEMENTED"} /\ call' = call /\ pc' = "done"
      /\ stack' = SubSeq(stack, 1, Len(stack) - (num + 1))
      /\ found.kind # "cfunc" => outcome' = found
      /\ found.kind = "cfunc" => outcome' = With(found, more)
  BY DEF vm_call_cfunc, Dispatch, Finish, Pop
<1>2. \/ found.kind = "ArgumentError"
      \/ found.kind = "cfunc" /\ DOMAIN found = {"kind", "params"}
  BY CfuncIs
<1>5. FromC(outcome')
  BY <1>1 DEF FromC
<1> HIDE DEF found
<1>3. CASE found.kind = "ArgumentError"
  <2>1. outcome'.kind = "ArgumentError"
    BY <1>1, <1>3
  <2> QED
    BY <2>1, <1>1, <1>5, BodySteps
<1>4. CASE found.kind = "cfunc" /\ DOMAIN found = {"kind", "params"}
  <2>1. "block" \in DOMAIN more /\ more.block = block
    OBVIOUS
  <2> HIDE DEF more
  <2>2. outcome'.kind = "cfunc" /\ outcome'.block = block
    BY <1>1, <1>4, <2>1, WithHas
  <2> QED
    BY <2>2, <1>1, <1>5, BodySteps
<1> QED
  BY <1>2, <1>3, <1>4

LEMMA AttributeStep ==
  ASSUME IInv, Attribute
  PROVE  EndsWell'
<1>1. pc = "normal" /\ me.type \in {"ATTRSET", "IVAR"} /\ call' = call /\ pc' = "done"
  BY DEF Attribute, Dispatch, Finish
<1>2. /\ num \in Nat /\ Len(stack) = num + 1 /\ num = Len(Arguments) /\ Top(num) = Arguments
      /\ \E S : Arguments \in Seq(S)
  BY <1>1, Dispatched
<1>3. CASE me.type = "ATTRSET" /\ num = 1
  <2>1. /\ outcome'.kind = "ivar_set" /\ outcome'.args = Top(num)
        /\ stack' = SubSeq(stack, 1, Len(stack) - (num + 1))
    BY <1>2, <1>3 DEF Attribute, Dispatch, Finish, Pop
  <2> QED
    BY <2>1, <1>1, <1>3, BodySteps
<1>4. CASE me.type = "IVAR" /\ num = 0
  <2>1. /\ outcome'.kind = "ivar_get" /\ outcome'.args = <<>>
        /\ stack' = SubSeq(stack, 1, Len(stack) - (num + 1))
    BY <1>2, <1>4 DEF Attribute, Dispatch, Finish, Pop
  <2>2. Top(num) = <<>>
    BY <1>2, <1>4, EmptySeq
  <2> QED
    BY <2>1, <2>2, <1>1, <1>4, BodySteps
<1>5. CASE num # IF me.type = "IVAR" THEN 0 ELSE 1
  <2>1. outcome'.kind = "ArgumentError"
    BY <1>1, <1>5 DEF Attribute, Dispatch, Finish, argument_error
  <2> QED
    BY <2>1, <1>1, <1>5, BodySteps
<1> QED
  BY <1>1, <1>3, <1>4, <1>5

LEMMA MissingStep ==
  ASSUME IInv, CallMissing
  PROVE  EndsWell'
<1>1. /\ pc = "normal" /\ me.type = "MISSING" /\ call' = call /\ pc' = "done"
      /\ stack' = SubSeq(stack, 1, Len(stack) - (num + 1))
      /\ outcome' = [kind |-> "method_missing", args |-> <<Name("foo")>> \o Top(num),
                     reasons |-> {}, block |-> passed_block']
      /\ call.version = "1.9.3" => passed_block' = block
  BY DEF CallMissing, Dispatch, Finish, Pop, Missing193
<1>2. /\ outcome'.kind = "method_missing" /\ outcome'.reasons = {}
      /\ outcome'.args = <<Name("foo")>> \o Top(num) /\ outcome'.block = passed_block'
  BY <1>1
<1> QED
  BY <1>1, <1>2, BodySteps

LEMMA ProcStep ==
  ASSUME IInv, vm_call_bmethod \/ CallProc
  PROVE  EndsWell'
<1>1. /\ pc = "normal" /\ me.type \in {"BMETHOD", "CALL"} /\ call' = call /\ pc' = "done"
      /\ stack' = SubSeq(stack, 1, Len(stack) - (num + 1))
      /\ outcome'.kind = "proc" /\ outcome'.args = Top(num) /\ outcome'.block = block
  BY DEF vm_call_bmethod, CallProc, Dispatch, Finish, Pop
<1> QED
  BY <1>1, BodySteps

-----------------------------------------------------------------------------
(* The steps of the loop.                                                  *)

\* The entry is judged, or there is none.
LEMMA StartsAgain ==
  ASSUME IsCall(call), call' = call, pc' = "start", NEW k \in 0 .. Len(Asked) - 1, Sent(k),
         Asked[k + 1] = Name(id'), call.kind = "call", call.blockarg # "other",
         num' = Len(Rest(k)), stack' = <<Recv>> \o Rest(k), block' = Passed,
         flag' = IF k = 0 THEN call.flag ELSE call.flag \cup {"FCALL", "OPT_SEND"},
         me' = rb_method_entry(call.methods, IF "SUPER" \in call.flag /\ k = 0 THEN 2 ELSE 1, id')
  PROVE  IInv'
<1> DEFINE from == IF "SUPER" \in call.flag /\ k = 0 THEN 2 ELSE 1
<1>1. Loop(k)'
  BY CallStays DEF Loop
<1>2. Starts'
  <2>1. from \in Nat \ {0}
    OBVIOUS
  <2>2. CASE id' = "send"
    BY <2>1, <2>2, EntryIs DEF Starts
  <2>3. CASE id' = "foo"
    <3>1. Asked[k + 1] # Name("send")
      BY <2>3 DEF Name
    <3>2. Sends = k /\ Sends < Len(Asked) /\ Named = Name("foo")
      BY <2>3, <3>1, SendsIs
    <3>3. From = from
      BY <3>2 DEF From
    <3>4. me' = IF Having = {} THEN None ELSE Of(Judged, LowestOf(Having))
      BY <2>3, <3>2, <3>3, EntryForFoo
    <3>5. Having' = Having /\ Judged' = Judged
      BY CallStays
    <3> QED
      BY <2>3, <3>4, <3>5 DEF Starts
  <2>4. CASE id' \notin {"send", "foo"}
    BY <2>1, <2>4, EntryIs DEF Starts
  <2> QED
    BY <2>2, <2>3, <2>4
<1>3. Len(Asked)' = Len(Asked) /\ Len(Asked) \in Nat
  BY CallStays, AskedIs
<1>4. k \in 0 .. Len(Asked)'
  BY <1>3
<1>5. (\E j \in 0 .. Len(Asked) : Loop(j))'
  BY <1>1, <1>4
<1> QED
  BY <1>2, <1>5 DEF IInv

LEMMA SetupSendStep ==
  ASSUME IInv, SetupSend
  PROVE  IInv' /\ EndsWell'
<1>1. IsCall(call) /\ pc = "setup" /\ call.kind = "call" /\ call' = call
      /\ flag = call.flag /\ id = call.id
  BY DEF IInv, SetupSend
<1> DEFINE c == caller_setup_args(call.args, "SPLAT" \in flag, call.blockarg)
<1>2. /\ c.kind # "args" => Finish(c) /\ UNCHANGED registers
      /\ c.kind = "args" =>
           /\ pc' = "start" /\ stack' = <<Recv>> \o c.args /\ num' = Len(c.args)
           /\ block' = c.block /\ id' = id /\ flag' = flag
           /\ me' = rb_method_entry(call.methods, IF "SUPER" \in flag THEN 2 ELSE 1, id)
  BY DEF SetupSend
<1>3. c = caller_setup_args(call.args, "SPLAT" \in call.flag, call.blockarg)
  BY <1>1
<1> HIDE DEF c
<1>4. CASE call.blockarg = "other"
  <2>1. c.kind = "TypeError"
    BY <1>1, <1>3, <1>4, SetupDelivers
  <2>2. pc' = "done" /\ outcome'.kind = "TypeError"
    BY <2>1, <1>2 DEF Finish
  <2>5. Results'
    BY <2>2, <1>1, <1>4, ResultsStay DEF Given
  <2>3. EndsWell'
    BY <2>2, <2>5, <1>1, <1>4
    DEF EndsWell, RunsWhatWasAsked, StackIsBalanced, BlockReachesTheBody, Ended
  <2>4. IInv'
    BY <2>2, <1>1 DEF IInv
  <2> QED
    BY <2>3, <2>4
<1>5. CASE call.blockarg # "other"
  <2>1. c = [kind |-> "args", args |-> Delivered, block |-> Passed]
    BY <1>1, <1>3, <1>5, SetupDelivers
  <2>2. c.kind = "args" /\ c.args = Delivered /\ c.block = Passed
    BY <2>1
  <2>3. Rest(0) = Delivered /\ Asked[0 + 1] = Name(id') /\ 0 \in 0 .. Len(Asked) - 1
    BY <1>1, <1>2, <2>2, AskedIs DEF Rest
  <2>4. Sent(0)
    BY <2>3 DEF Sent
  <2>5. /\ num' = Len(Rest(0)) /\ stack' = <<Recv>> \o Rest(0) /\ block' = Passed
        /\ flag' = IF 0 = 0 THEN call.flag ELSE call.flag \cup {"FCALL", "OPT_SEND"}
        /\ me' = rb_method_entry(call.methods, IF "SUPER" \in call.flag /\ 0 = 0 THEN 2 ELSE 1, id')
        /\ pc' = "start"
    BY <1>1, <1>2, <2>2, <2>3
  <2>6. IInv'
    BY <1>1, <1>5, <2>3, <2>4, <2>5, StartsAgain
  <2> QED
    BY <2>5, <2>6, GoesOn
<1> QED
  BY <1>4, <1>5

LEMMA OptimizedSendStep ==
  ASSUME IInv, OptimizedSend
  PROVE  IInv' /\ EndsWell'
<1>1. IsCall(call) /\ pc = "normal" /\ me.type = "SEND" /\ call' = call /\ Goes
  BY DEF IInv, OptimizedSend
<1>2. PICK k \in 0 .. Len(Asked) : Loop(k)
  BY <1>1 DEF IInv
<1>3. id = "send"
  <2>1. ASSUME NEW c \in Having, me = Of(call.methods[c], c) PROVE FALSE
    <3>1. IsEntry(call.methods[c])
      BY <1>1, HavingIs
    <3>2. me.type \in Types
      BY <2>1, <3>1, FieldsOf DEF IsEntry
    <3> QED
      BY <3>2, <1>1 DEF Types
  <2> QED
    BY <2>1, <1>1 DEF Goes
<1>4. /\ call.kind = "call" /\ call.blockarg # "other" /\ Sent(k) /\ Asked[k + 1] = Name("send")
      /\ num = Len(Rest(k)) /\ block = Passed
      /\ flag = IF k = 0 THEN call.flag ELSE call.flag \cup {"FCALL", "OPT_SEND"}
  BY <1>2, <1>3 DEF Loop
<1>5. /\ num \in Nat
      /\ num > 0 => Without(num - 1) = <<Recv>> \o Rest(k + 1) /\ Top(num)[1] = Asked[k + 2]
      /\ num = 0 <=> k + 1 = Len(Asked)
      /\ k \in 0 .. Len(Asked) - 1 /\ Len(Asked) \in Nat
  BY <1>1, <1>2, LoopIs
<1>6. CASE num = 0
  <2>1. Sends = Len(Asked)
    BY <1>1, <1>4, <1>5, <1>6, SendsIs
  <2>2. pc' = "done" /\ outcome'.kind = "ArgumentError"
    BY <1>6 DEF OptimizedSend, Finish
  <2>3. ~Reached /\ Having = {}
    BY <2>1, <1>5 DEF Reached, Having
  <2>4. AsAsked(outcome')
    BY <2>1, <2>2, <2>3, <1>5 DEF AsAsked
  <2>5. IInv'
    BY <2>2, <1>1 DEF IInv
  <2> QED
    BY <2>2, <2>3, <2>4, <2>5, <1>1, <1>4, NotReached, Ends
<1>7. ASSUME num # 0
      PROVE  /\ Sent(k + 1) /\ k + 1 \in 0 .. Len(Asked) - 1 /\ num > 0
             /\ Top(num)[1] = Asked[(k + 1) + 1]
  <2>1. (k + 1) + 1 = k + 2 /\ num > 0
    BY <1>5, <1>7
  <2>2. k + 1 # Len(Asked) /\ Top(num)[1] = Asked[(k + 1) + 1]
    BY <2>1, <1>5, <1>7
  <2>3. Sent(k + 1)
    BY <2>2, <1>1, <1>4, SendsIs
  <2> QED
    BY <2>1, <2>2, <2>3, <1>5
<1>8. CASE num # 0 /\ Top(num)[1][1] # "name"
  <2>1. Asked[(k + 1) + 1] # Name("send")
    BY <1>7, <1>8 DEF Name
  <2>2. Sends < Len(Asked) /\ Named = Top(num)[1] /\ Sends = k + 1
    BY <2>1, <1>1, <1>4, <1>7, <1>8, SendsIs
  <2>3. Named[1] # "name" /\ Named # Name("method_missing") /\ Named # Name("foo")
    BY <2>2, <1>8 DEF Name
  <2>4. pc' = "done" /\ outcome'.kind = "TypeError"
    BY <1>8 DEF OptimizedSend, Finish
  <2>5. ~Reached /\ Having = {}
    BY <2>3 DEF Reached, Having
  <2>6. AsAsked(outcome')
    BY <2>2, <2>3, <2>4, <2>5, <1>5 DEF AsAsked
  <2>7. IInv'
    BY <2>4, <1>1 DEF IInv
  <2> QED
    BY <2>4, <2>5, <2>6, <2>7, <1>1, <1>4, NotReached, Ends
<1>9. CASE num # 0 /\ Top(num)[1][1] = "name"
  <2>1. /\ id' = Top(num)[1][2] /\ stack' = Without(num - 1) /\ num' = num - 1
        /\ me' = rb_method_entry(call.methods, 1, id') /\ pc' = "start" /\ block' = block
        /\ flag' = flag \cup {"FCALL", "OPT_SEND"}
    BY <1>9 DEF OptimizedSend
  <2>2. (k + 1) + 1 \in 1 .. Len(Asked)
    BY <1>5, <1>7, <1>9
  <2>3. Asked[(k + 1) + 1] = Name(id')
    BY <2>1, <2>2, <1>1, <1>4, <1>7, <1>9, AskedNames
  <2>4. num' = Len(Rest(k + 1))
    <3>1. Len(Rest(k + 1)) = Len(Asked) - (k + 1) - 1 /\ Len(Rest(k)) = Len(Asked) - k - 1
      BY <1>1, <1>4, <1>5, <1>7, <1>9, RestIs
    <3> QED
      BY <3>1, <2>1, <1>4, <1>5
  <2>5. k + 1 # 0 /\ flag' = call.flag \cup {"FCALL", "OPT_SEND"}
    BY <2>1, <1>4, <1>5
  <2>6. stack' = <<Recv>> \o Rest(k + 1) /\ block' = Passed
    BY <2>1, <1>4, <1>5, <1>7, <1>9
  <2>7. me' = rb_method_entry(call.methods,
                              IF "SUPER" \in call.flag /\ k + 1 = 0 THEN 2 ELSE 1, id')
    BY <2>1, <2>5
  <2>8. flag' = IF k + 1 = 0 THEN call.flag ELSE call.flag \cup {"FCALL", "OPT_SEND"}
    BY <2>5
  <2>9. IInv'
    BY <2>1, <2>3, <2>4, <2>6, <2>7, <2>8, <1>1, <1>4, <1>7, <1>9, StartsAgain
  <2> QED
    BY <2>1, <2>9, GoesOn
<1> QED
  BY <1>6, <1>8, <1>9

LEMMA AcceptStep ==
  ASSUME IInv, Accept
  PROVE  IInv' /\ EndsWell'
<1>1. /\ IsCall(call) /\ pc = "start" /\ me # None /\ Starts /\ pc' = "normal"
      /\ call' = call /\ UNCHANGED registers
  BY DEF IInv, Accept
<1>2. PICK k \in 0 .. Len(Asked) : Loop(k)
  BY <1>1 DEF IInv
<1>3. Goes
  <2>1. CASE id = "send" /\ me = Of(Send, Depth)
    BY <2>1 DEF Goes
  <2>2. CASE id = "foo" /\ Having # {} /\ me = Of(Judged, LowestOf(Having))
    <3>1. /\ Allowed <=> ~Private /\ ~Protected
          /\ Safe <=> ~Insecure \/ (me.vis = "protected" /\ "OPT_SEND" \notin flag)
          /\ Unflagged(me) => Allowed /\ Safe
      BY <1>1, <1>2, <2>2, JudgedAsAllowed
    <3>2. \/ Unflagged(me)
          \/ /\ ~Private
             /\ IF me.vis = "protected" /\ "OPT_SEND" \notin flag
                THEN Related(me) ELSE ~Insecure
      BY DEF Accept
    <3>3. Allowed /\ Safe
      BY <3>1, <3>2 DEF Protected
    <3>4. /\ Having \subseteq 1 .. Depth /\ LowestOf(Having) \in Having
          /\ Judged = call.methods[LowestOf(Having)]
          /\ \A j \in Having : LowestOf(Having) <= j
      BY <1>1, <2>2, HavingIs, LowestIs
    <3>5. \A j \in Having : ~(j < LowestOf(Having))
      <4>1. PICK d : d = LowestOf(Having)
        OBVIOUS
      <4>2. d \in Having /\ \A j \in Having : d <= j
        BY <3>4, <4>1
      <4>3. Having \subseteq Nat
        BY <3>4, DepthAssumption
      <4>4. \A j \in Having : ~(j < d)
        BY <4>2, <4>3
      <4> QED
        BY <4>1, <4>4
    <3> QED
      BY <2>2, <3>3, <3>4, <3>5 DEF Goes
  <2> QED
    BY <2>1, <2>2, <1>1 DEF Starts
<1>4. Goes'
  BY <1>1, <1>3, CallStays DEF Goes, registers
<1>5. Loop(k)'
  BY <1>1, <1>2, CallStays DEF Loop, registers
<1>6. (\E j \in 0 .. Len(Asked) : Loop(j))'
  <2>1. Len(Asked)' = Len(Asked)
    BY <1>1, CallStays
  <2> QED
    BY <2>1, <1>5
<1>7. IInv'
  BY <1>1, <1>4, <1>6 DEF IInv
<1> QED
  BY <1>1, <1>7, GoesOn

LEMMA ZsuperStep ==
  ASSUME IInv, Zsuper
  PROVE  IInv' /\ EndsWell'
<1>1. /\ IsCall(call) /\ pc = "normal" /\ me.type = "ZSUPER" /\ Goes
      /\ me' = rb_method_entry(call.methods, me.klass + 1, id)
      /\ pc' = IF me' = None THEN "start" ELSE "normal"
      /\ call' = call /\ UNCHANGED <<stack, num, block, id, flag>>
  BY DEF IInv, Zsuper
<1>2. PICK k \in 0 .. Len(Asked) : Loop(k)
  BY <1>1 DEF IInv
<1>3. id = "foo" /\ Allowed /\ Safe
      /\ \E c \in Having : /\ me = Of(call.methods[c], c)
                           /\ \A j \in Having : j < c => call.methods[j].type = "ZSUPER"
  BY <1>1, FieldsOfSend DEF Goes
<1>4. PICK c \in Having : /\ me = Of(call.methods[c], c)
                          /\ \A j \in Having : j < c => call.methods[j].type = "ZSUPER"
  BY <1>3
<1>5. /\ Having \subseteq 1 .. Depth /\ Bodies \subseteq Having /\ IsEntry(call.methods[c])
      /\ \A j \in Having : Of(call.methods[j], j) # None
      /\ Sends < Len(Asked) /\ Named = Name("foo")
  BY <1>1, HavingIs
<1>6. me.klass = c /\ call.methods[c].type = "ZSUPER" /\ c \in Nat
  BY <1>1, <1>4, <1>5, FieldsOf
<1> DEFINE found == {j \in c + 1 .. Depth : call.methods[j] # None}
<1>7. found = {j \in Having : c < j}
  <2>1. c \in From .. Depth /\ From \in Nat
    BY DEF Having, From
  <2>2. \A j \in c + 1 .. Depth : j \in From .. Depth /\ c < j
    BY <2>1, DepthAssumption
  <2>3. \A j \in From .. Depth : c < j => j \in c + 1 .. Depth
    BY <2>1, <1>6, DepthAssumption
  <2>4. Having = {j \in From .. Depth : call.methods[j] # None}
    BY <1>5 DEF Having
  <2> QED
    BY <2>2, <2>3, <2>4
<1>8. /\ found = {} => me' = None
      /\ found # {} => me' = Of(call.methods[LowestOf(found)], LowestOf(found))
  <2>1. c + 1 \in Nat \ {0}
    BY <1>6
  <2> QED
    BY <2>1, <1>1, <1>3, <1>6, EntryIs
<1> HIDE DEF found
<1>9. \A j \in Having : j \notin found => call.methods[j].type = "ZSUPER"
  <2> SUFFICES ASSUME NEW j \in Having, j \notin found PROVE call.methods[j].type = "ZSUPER"
    OBVIOUS
  <2>1. j < c \/ j = c
    BY <1>5, <1>6, <1>7, DepthAssumption
  <2> QED
    BY <2>1, <1>4, <1>6
<1>10. CASE found = {}
  <2>1. Bodies = {}
    BY <1>9, <1>10 DEF Bodies
  <2>2. me' = None /\ pc' = "start" /\ id' = "foo" /\ Having # {}
    BY <1>1, <1>3, <1>8, <1>10
  <2>3. Starts'
    BY <2>1, <2>2, <1>1, <1>3, CallStays DEF Starts
  <2>4. Loop(k)'
    BY <1>1, <1>2, CallStays DEF Loop
  <2>5. (\E j \in 0 .. Len(Asked) : Loop(j))'
    <3>1. Len(Asked)' = Len(Asked)
      BY <1>1, CallStays
    <3> QED
      BY <3>1, <2>4
  <2>6. IInv'
    BY <2>2, <2>3, <2>5, <1>1 DEF IInv
  <2> QED
    BY <2>2, <2>6, GoesOn
<1>11. CASE found # {}
  <2> DEFINE d == LowestOf(found)
  <2>1. d \in found /\ \A j \in found : d <= j
    <3>1. found \in SUBSET (1 .. Depth)
      BY <1>5, <1>7
    <3> QED
      BY <3>1, <1>11, LowestIs
  <2>2. d \in Having /\ me' = Of(call.methods[d], d) /\ me' # None
    BY <2>1, <1>5, <1>7, <1>8, <1>11
  <2>3. \A j \in Having : j < d => call.methods[j].type = "ZSUPER"
    <3> HIDE DEF d
    <3>1. \A j \in Having : j < d => j \notin found
      BY <2>1, <2>2, <1>5, DepthAssumption
    <3> QED
      BY <3>1, <1>9
  <2>4. pc' = "normal" /\ id' = "foo"
    BY <2>2, <1>1, <1>3
  <2> HIDE DEF d
  <2>5. Goes'
    BY <2>2, <2>3, <2>4, <1>1, <1>3, CallStays DEF Goes
  <2>6. Loop(k)'
    BY <1>1, <1>2, CallStays DEF Loop
  <2>7. (\E j \in 0 .. Len(Asked) : Loop(j))'
    <3>1. Len(Asked)' = Len(Asked)
      BY <1>1, CallStays
    <3> QED
      BY <3>1, <2>6
  <2>8. IInv'
    BY <2>4, <2>5, <2>7, <1>1 DEF IInv
  <2> QED
    BY <2>4, <2>8, GoesOn
<1> QED
  BY <1>10, <1>11

\* yield and multiple assignment end at once.
LEMMA OtherSteps ==
  ASSUME IInv, vm_invoke_block \/ Expand
  PROVE  IInv' /\ EndsWell'
<1>1. IsCall(call) /\ call' = call /\ pc' = "done" /\ call.kind # "call"
  BY DEF IInv, vm_invoke_block, Expand, Finish
<1>2. stack' = <<>> \/ outcome'.kind = "pushed"
  BY DEF vm_invoke_block, Expand, Finish
<1>3. Given(outcome')
  <2>1. CASE Expand
    BY <2>1, <1>1 DEF Expand, Finish, Given, IInv
  <2>2. CASE vm_invoke_block
    <3>1. flag = call.flag /\ call.kind \in {"yield", "lambda", "ifunc"} /\ call.blockarg # "other"
      BY <2>2, <1>1 DEF IInv, IsCall, vm_invoke_block
    <3>2. caller_setup_args(call.args, "SPLAT" \in flag, call.blockarg) =
            [kind |-> "args", args |-> Delivered, block |-> Passed]
      BY <1>1, <3>1, SetupDelivers
    <3> DEFINE c == [kind |-> "args", args |-> Delivered, block |-> Passed]
    <3>3. \E lambda \in {call.kind = "lambda" \/ (call.kind = "ifunc" /\ call.lambda)} :
            outcome' = IF call.kind = "ifunc"
                       THEN vm_yield_with_cfunc(c.args, lambda, c.block, "theirs")
                       ELSE vm_yield_setup_args(Iseq(call.params), Len(c.args), StackOf(c.args),
                                                c.block, lambda)
      BY <2>2, <3>2 DEF vm_invoke_block, Finish
    <3>4. c.args = Delivered /\ c.block = Passed
      OBVIOUS
    <3> HIDE DEF c
    <3>5. PICK lambda \in {call.kind = "lambda" \/ (call.kind = "ifunc" /\ call.lambda)} :
            outcome' = IF call.kind = "ifunc"
                       THEN vm_yield_with_cfunc(Delivered, lambda, Passed, "theirs")
                       ELSE vm_yield_setup_args(Iseq(call.params), Len(Delivered),
                                                StackOf(Delivered), Passed, lambda)
      BY <3>3, <3>4
    <3>6. lambda <=> call.kind = "lambda" \/ (call.kind = "ifunc" /\ call.lambda)
      BY <3>5
    <3>7. CASE call.kind = "lambda"
      BY <3>5, <3>6, <3>7 DEF Given, vm_yield_setup_args
    <3>8. CASE call.kind = "yield"
      BY <3>5, <3>6, <3>8 DEF Given, vm_yield_setup_args
    <3>9. CASE call.kind = "ifunc"
      <4>1. outcome' = vm_yield_with_cfunc(Delivered, lambda, Passed, "theirs")
        BY <3>5, <3>9
      <4>2. outcome'.arg = IF lambda THEN Array(Delivered)
                           ELSE IF Delivered = <<>> THEN nil ELSE Delivered[1]
        BY <4>1 DEF vm_yield_with_cfunc
      <4> QED
        BY <4>2, <3>6, <3>9 DEF Given
    <3> QED
      BY <3>1, <3>7, <3>8, <3>9
  <2> QED
    BY <2>1, <2>2
<1>4. Results'
  BY <1>1, <1>3, ResultsStay
<1>5. EndsWell'
  BY <1>1, <1>2, <1>4
  DEF EndsWell, RunsWhatWasAsked, StackIsBalanced, BlockReachesTheBody, Ended
<1>6. IInv'
  BY <1>1 DEF IInv
<1> QED
  BY <1>5, <1>6

-----------------------------------------------------------------------------
(* The theorems.                                                           *)

LEMMA InitCalls == Init => IInv /\ EndsWell
<1> SUFFICES ASSUME Init PROVE IInv /\ EndsWell
  OBVIOUS
<1>1. IsCall(call) /\ pc = "setup"
  BY CallsAssumption DEF Init
<1>2. IInv
  BY <1>1 DEF IInv, Init
<1>3. EndsWell
  BY <1>1 DEF EndsWell, RunsWhatWasAsked, StackIsBalanced, BlockReachesTheBody, Results, Ended
<1> QED
  BY <1>2, <1>3

LEMMA NextCalls == IInv /\ EndsWell /\ [Next]_vars => IInv' /\ EndsWell'
<1> SUFFICES ASSUME IInv, EndsWell, [Next]_vars PROVE IInv' /\ EndsWell'
  OBVIOUS
<1> DEFINE Last == \/ NoMethod \/ Refuse \/ vm_setup_method \/ vm_call_cfunc \/ Attribute
                   \/ CallMissing \/ vm_call_bmethod \/ CallProc
<1>1. CASE Last
  <2>1. EndsWell'
    BY <1>1, NoMethodStep, RefuseStep, SetupMethodStep, CfuncStep, AttributeStep, MissingStep,
       ProcStep
  <2>2. call' = call /\ pc' = "done"
    BY <1>1 DEF NoMethod, Refuse, vm_method_missing, vm_setup_method, vm_call_cfunc, Attribute,
       CallMissing, vm_call_bmethod, CallProc, Dispatch, Finish
  <2>3. IInv'
    BY <2>2 DEF IInv
  <2> QED
    BY <2>1, <2>3
<1>2. CASE SetupSend
  BY <1>2, SetupSendStep
<1>3. CASE Accept
  BY <1>3, AcceptStep
<1>4. CASE Zsuper
  BY <1>4, ZsuperStep
<1>5. CASE OptimizedSend
  BY <1>5, OptimizedSendStep
<1>6. CASE vm_invoke_block \/ Expand
  BY <1>6, OtherSteps
<1>7. CASE UNCHANGED vars
  <2>1. call' = call /\ UNCHANGED <<pc, registers, outcome>>
    BY <1>7 DEF vars
  <2>2. EndsWell'
    <3>1. RunsWhatWasAsked'
      BY <2>1, AsAskedStays DEF EndsWell, RunsWhatWasAsked, Ended
    <3>2. StackIsBalanced'
      BY <2>1 DEF EndsWell, StackIsBalanced, registers
    <3>3. BlockReachesTheBody'
      BY <2>1, CallStays DEF EndsWell, BlockReachesTheBody, Ended
    <3>4. Results'
      BY <2>1, ResultsStay DEF EndsWell, Results
    <3> QED
      BY <3>1, <3>2, <3>3, <3>4 DEF EndsWell
  <2>3. IInv'
    <3>1. (Starts' <=> Starts) /\ (Goes' <=> Goes)
      BY <2>1, CallStays DEF Starts, Goes, registers
    <3>2. \A k : Loop(k)' <=> Loop(k)
      BY <2>1, CallStays DEF Loop, registers
    <3>3. Len(Asked)' = Len(Asked)
      BY <2>1, CallStays
    <3> QED
      BY <3>1, <3>2, <3>3, <2>1 DEF IInv, registers
  <2> QED
    BY <2>2, <2>3
<1> QED
  BY <1>1, <1>2, <1>3, <1>4, <1>5, <1>6, <1>7 DEF Next, vm_call_method

\* vm_call_method runs the body of the lowest class that has one, however many
\* names send took off the arguments and however many classes only changed the visibility,
\* if the lowest entry lets this caller have it; else method_missing gets what was asked for.
THEOREM WhatWasAskedRuns == Spec => []RunsWhatWasAsked
<1>1. EndsWell => RunsWhatWasAsked
  BY DEF EndsWell
<1> QED
  BY <1>1, InitCalls, NextCalls, PTL DEF Spec

\* Nothing of the receiver or the arguments is left on the stack when a body or
\* method_missing runs: each way out of vm_call_method pops as many cells as
\* the splat, send and the number of arguments have left there.
THEOREM StackStaysBalanced == Spec => []StackIsBalanced
<1>1. EndsWell => StackIsBalanced
  BY DEF EndsWell
<1> QED
  BY <1>1, InitCalls, NextCalls, PTL DEF Spec

\* The block caller_setup_args took is handed to whatever runs, but for method_missing
\* behind an entry of its own in 1.9.2.
THEOREM BlocksReachTheirBody == Spec => []BlockReachesTheBody
<1>1. EndsWell => BlockReachesTheBody
  BY DEF EndsWell
<1> QED
  BY <1>1, InitCalls, NextCalls, PTL DEF Spec

-----------------------------------------------------------------------------
(* Multiple assignment and C code.                                         *)

PushedAfter(v, e, len, n, size) ==
  v = [i \in 1 .. size |->
         CASE i <= Most(n - len, 0) -> nil
           [] i > Most(n - len, 0) /\ i <= n -> e[len - (i - Most(n - len, 0)) + 1]
           [] i > n -> Array(SubSeq(e, 1, len - (n - Most(n - len, 0))))]
PoppedAfter(v, e, len, n, size) ==
  LET skip == Most(len - n, 0)
  IN /\ \A i \in 1 .. n : v[n - i + 1] = IF skip + i <= len THEN e[skip + i] ELSE nil
     /\ size = n + 1 => v[size] = Array(SubSeq(e, 1, skip))
PushedBefore(v, e, len, n, size) ==
  v = [i \in 1 .. size |->
         LET k == size - i + 1
         IN CASE k > n -> Array(SubSeq(e, n + 1, len))
              [] k <= n /\ k > len -> nil
              [] k <= n /\ k <= len -> e[k]]

\* The cells a multiple assignment pushes, from the last one on: the last elements
\* from the right, and the array of those before them.
LEMMA PushedPost ==
  ASSUME NEW len \in Nat, NEW n \in Nat, NEW e, NEW v, NEW size \in Nat,
         size = n \/ size = n + 1,
         PushedAfter(v, e, len, n, size)
  PROVE  PoppedAfter(v, e, len, n, size)
<1>1. ASSUME NEW i \in 1 .. n
      PROVE  v[n - i + 1] = IF Most(len - n, 0) + i <= len THEN e[Most(len - n, 0) + i] ELSE nil
  <2>1. n - i + 1 \in 1 .. size /\ ~(n - i + 1 > n)
    OBVIOUS
  <2>2. CASE len <= n
    <3>1. Most(n - len, 0) = n - len /\ Most(len - n, 0) = 0
      BY <2>2 DEF Most
    <3>2. len - (n - i + 1 - (n - len)) + 1 = i
      OBVIOUS
    <3> QED
      BY <2>1, <3>1, <3>2 DEF PushedAfter
  <2>3. CASE len > n
    <3>1. Most(n - len, 0) = 0 /\ Most(len - n, 0) = len - n
      BY <2>3 DEF Most
    <3>2. len - (n - i + 1 - 0) + 1 = len - n + i /\ len - n + i <= len /\ ~(n - i + 1 <= 0)
      BY <2>3
    <3> QED
      BY <2>1, <3>1, <3>2 DEF PushedAfter
  <2>4. len <= n \/ len > n
    OBVIOUS
  <2> QED
    BY <2>2, <2>3, <2>4
<1>2. ASSUME size = n + 1 PROVE v[size] = Array(SubSeq(e, 1, Most(len - n, 0)))
  <2>1. len - (n - Most(n - len, 0)) = Most(len - n, 0) /\ ~(n + 1 <= Most(n - len, 0))
    BY DEF Most
  <2>2. n + 1 \in 1 .. size /\ n + 1 > n /\ ~(n + 1 <= n)
    BY <1>2
  <2> QED
    BY <2>1, <2>2, <1>2 DEF PushedAfter
<1> QED
  BY <1>1, <1>2 DEF PoppedAfter

\* Otherwise the first elements, and the array of those behind.
LEMMA PushedPre ==
  ASSUME NEW len \in Nat, NEW n \in Nat, NEW e, NEW v, NEW size \in Nat,
         size = n \/ size = n + 1,
         PushedBefore(v, e, len, n, size)
  PROVE  /\ \A i \in 1 .. n : v[size - i + 1] = IF i <= len THEN e[i] ELSE nil
         /\ size = n + 1 => v[1] = Array(SubSeq(e, n + 1, len))
<1>1. ASSUME NEW i \in 1 .. n PROVE v[size - i + 1] = IF i <= len THEN e[i] ELSE nil
  <2>1. size - i + 1 \in 1 .. size /\ size - (size - i + 1) + 1 = i /\ i <= n
    OBVIOUS
  <2> QED
    BY <2>1 DEF PushedBefore
<1>2. ASSUME size = n + 1 PROVE v[1] = Array(SubSeq(e, n + 1, len))
  <2>1. 1 \in 1 .. size /\ size - 1 + 1 > n
    BY <1>2
  <2> QED
    BY <2>1 DEF PushedBefore
<1> QED
  BY <1>1, <1>2

LEMMA TakesApart ==
  ASSUME IsCall(call), EndsWell
  PROVE  AssignmentTakesApart
<1> SUFFICES ASSUME pc = "done", call.kind = "assign" PROVE AssignmentTakesApart
  BY DEF AssignmentTakesApart
<1> DEFINE n == Len(call.args)
           splat == "SPLAT" \in call.flag
           size == call.num + (IF splat THEN 1 ELSE 0)
           popped == [i \in 1 .. size |-> outcome.values[size - i + 1]]
           hole == IF ~splat THEN 0 ELSE IF call.post THEN 1 ELSE size
           single == [i \in 1 .. call.num |->
                       popped[IF hole # 0 /\ i >= hole THEN i + 1 ELSE i]]
           skip == IF call.post THEN Most(n - call.num, 0) ELSE 0
<1>1. n \in Nat /\ call.num \in Nat /\ call.post \in BOOLEAN
  BY DEF IsCall, IsList
<1>2. outcome.values = vm_expandarray(call.args, call.num, "SPLAT" \in call.flag, call.post)
  BY DEF EndsWell, Results, Given
<1>3. (size = call.num \/ size = call.num + 1) /\ size \in Nat /\ (splat <=> size = call.num + 1)
  BY <1>1
<1>4. ASSUME /\ Len(outcome.values) = size
             /\ \A i \in 1 .. call.num :
                  single[i] = IF skip + i <= n THEN call.args[skip + i] ELSE nil
             /\ splat => popped[hole] = Array(IF call.post THEN SubSeq(call.args, 1, skip)
                                             ELSE SubSeq(call.args, call.num + 1, n))
      PROVE  AssignmentTakesApart
  BY <1>4 DEF AssignmentTakesApart
<1>5. \A i \in 1 .. size : popped[i] = outcome.values[size - i + 1]
  OBVIOUS
<1>6. \A i \in 1 .. call.num : single[i] = popped[IF hole # 0 /\ i >= hole THEN i + 1 ELSE i]
  OBVIOUS
<1>7. CASE call.post
  <2>1. PushedAfter(outcome.values, call.args, n, call.num, size)
    BY <1>2, <1>7 DEF vm_expandarray, PushedAfter
  <2>2. Len(outcome.values) = size
    BY <1>3, <2>1 DEF PushedAfter
  <2>3. skip = Most(n - call.num, 0) /\ (splat => hole = 1) /\ (~splat => hole = 0)
    BY <1>7
  <2> HIDE DEF size, popped, single, hole, skip, splat
  <2>4. /\ \A i \in 1 .. call.num : outcome.values[call.num - i + 1] =
                                     IF skip + i <= n THEN call.args[skip + i] ELSE nil
        /\ size = call.num + 1 => outcome.values[size] = Array(SubSeq(call.args, 1, skip))
    <3>1. /\ size \in Nat /\ (size = call.num \/ size = call.num + 1)
          /\ n \in Nat /\ call.num \in Nat
      BY <1>1, <1>3
    <3>2. PoppedAfter(outcome.values, call.args, n, call.num, size)
      BY <3>1, <2>1, PushedPost
    <3> QED
      BY <3>2, <2>3 DEF PoppedAfter
  <2>5. \A i \in 1 .. call.num : single[i] = outcome.values[call.num - i + 1]
    <3> SUFFICES ASSUME NEW i \in 1 .. call.num
                 PROVE  single[i] = outcome.values[call.num - i + 1]
      OBVIOUS
    <3>1. CASE splat
      <4>1. single[i] = popped[i + 1] /\ i + 1 \in 1 .. size /\ size - (i + 1) + 1 = call.num - i + 1
        BY <1>1, <1>3, <1>6, <2>3, <3>1
      <4> QED
        BY <4>1, <1>5
    <3>2. CASE ~splat
      <4>1. single[i] = popped[i] /\ i \in 1 .. size /\ size = call.num
        BY <1>1, <1>3, <1>6, <2>3, <3>2
      <4> QED
        BY <4>1, <1>5
    <3> QED
      BY <3>1, <3>2
  <2>6. splat => popped[hole] = Array(SubSeq(call.args, 1, skip))
    <3> SUFFICES ASSUME splat PROVE popped[hole] = Array(SubSeq(call.args, 1, skip))
      OBVIOUS
    <3>1. hole = 1 /\ 1 \in 1 .. size /\ size - 1 + 1 = size /\ size = call.num + 1
      BY <1>1, <1>3, <2>3
    <3> QED
      BY <3>1, <1>5, <2>4
  <2> QED
    BY <1>4, <1>7, <2>2, <2>4, <2>5, <2>6
<1>8. CASE ~call.post
  <2>1. PushedBefore(outcome.values, call.args, n, call.num, size)
    BY <1>2, <1>8 DEF vm_expandarray, PushedBefore
  <2>2. Len(outcome.values) = size
    BY <1>3, <2>1 DEF PushedBefore
  <2>3. skip = 0 /\ (splat => hole = size) /\ (~splat => hole = 0)
    BY <1>8
  <2> HIDE DEF size, popped, single, hole, skip, splat
  <2>4. /\ \A i \in 1 .. call.num : outcome.values[size - i + 1] =
                                     IF i <= n THEN call.args[i] ELSE nil
        /\ size = call.num + 1 => outcome.values[1] = Array(SubSeq(call.args, call.num + 1, n))
    <3>1. /\ size \in Nat /\ (size = call.num \/ size = call.num + 1)
          /\ n \in Nat /\ call.num \in Nat
      BY <1>1, <1>3
    <3>2. PICK values, args, count : values = outcome.values /\ args = call.args /\ count = call.num
      OBVIOUS
    <3> HIDE DEF n
    <3>3. /\ n \in Nat /\ count \in Nat /\ size \in Nat /\ (size = count \/ size = count + 1)
          /\ PushedBefore(values, args, n, count, size)
      BY <3>1, <3>2, <2>1
    <3>4. /\ \A i \in 1 .. count : values[size - i + 1] = IF i <= n THEN args[i] ELSE nil
          /\ size = count + 1 => values[1] = Array(SubSeq(args, count + 1, n))
      BY <3>3, PushedPre
    <3> QED
      BY <3>2, <3>4
  <2>5. \A i \in 1 .. call.num : single[i] = outcome.values[size - i + 1]
    <3> SUFFICES ASSUME NEW i \in 1 .. call.num PROVE single[i] = outcome.values[size - i + 1]
      OBVIOUS
    <3>1. single[i] = popped[i] /\ i \in 1 .. size
      BY <1>1, <1>3, <1>6, <2>3
    <3> QED
      BY <3>1, <1>5
  <2>6. splat => popped[hole] = Array(SubSeq(call.args, call.num + 1, n))
    <3> SUFFICES ASSUME splat PROVE popped[hole] = Array(SubSeq(call.args, call.num + 1, n))
      OBVIOUS
    <3>1. hole = size /\ size \in 1 .. size /\ size - size + 1 = 1 /\ size = call.num + 1
      BY <1>1, <1>3, <2>3
    <3> QED
      BY <3>1, <1>5, <2>4
  <2>7. \A i \in 1 .. call.num : skip + i = i
    BY <2>3, <1>1
  <2> QED
    BY <1>4, <1>8, <2>2, <2>4, <2>5, <2>6, <2>7
<1> QED
  BY <1>7, <1>8

\* There is a first name that is not send, or only sends.
LEMMA SendsEnd ==
  ASSUME IsCall(call), call.kind = "call"
  PROVE  Sends \in 0 .. Len(Asked) /\ Len(Asked) \in Nat
<1> DEFINE Counts(n) == /\ \A i \in 1 .. n : Asked[i] = Name("send")
                        /\ n < Len(Asked) => Asked[n + 1] # Name("send")
           stops == {n \in 0 .. Len(Asked) : n = Len(Asked) \/ Asked[n + 1] # Name("send")}
<1>1. Len(Asked) \in Nat
  BY AskedIs
<1>2. Len(Asked) \in stops /\ stops \in SUBSET Nat
  BY <1>1
<1>3. PICK n \in stops : \A j \in stops : n <= j
  BY <1>2, SmallestOf
<1>4. \A i \in 1 .. n : Asked[i] = Name("send")
  <2> SUFFICES ASSUME NEW i \in 1 .. n, Asked[i] # Name("send") PROVE FALSE
    OBVIOUS
  <2>1. i - 1 \in 0 .. Len(Asked) /\ (i - 1) + 1 = i /\ ~(n <= i - 1)
    BY <1>1
  <2>2. i - 1 \in stops
    BY <2>1
  <2> QED
    BY <2>1, <2>2, <1>3
<1>5. n \in 0 .. Len(Asked) /\ Counts(n)
  BY <1>4
<1>6. Sends = CHOOSE j \in 0 .. Len(Asked) : Counts(j)
  BY DEF Sends
<1> HIDE DEF Counts
<1> QED
  BY <1>1, <1>5, <1>6

\* The arguments behind the sends are a list, no longer than those of the call.
LEMMA ArgumentsAre ==
  ASSUME IsCall(call), call.kind = "call", Sends < Len(Asked)
  PROVE  /\ \E S : Arguments \in Seq(S)
         /\ Len(Arguments) \in Nat /\ Len(Arguments) <= Len(Delivered)
<1>1. Sends \in 0 .. Len(Asked) - 1 /\ Len(Asked) \in Nat
  BY SendsEnd
<1>2. Arguments = Rest(Sends)
  BY DEF Arguments, Rest
<1>3. (\E S : Rest(Sends) \in Seq(S)) /\ Len(Rest(Sends)) = Len(Asked) - Sends - 1
  BY <1>1, RestIs
<1>4. Len(Asked) = Len(Delivered) + 1
  BY AskedIs
<1>5. PICK S : Delivered \in Seq(S)
  BY SetupDelivers
<1>6. Len(Delivered) \in Nat
  BY <1>5
<1> QED
  BY <1>1, <1>2, <1>3, <1>4, <1>6

LEMMA BodyIs ==
  ASSUME IsCall(call), Reached
  PROVE  IsEntry(Body) /\ Sends < Len(Asked)
<1>1. Bodies # {} /\ Having # {}
  BY DEF Reached
<1>2. Bodies \in SUBSET (1 .. Depth) /\ Bodies \subseteq Having /\ Sends < Len(Asked)
  BY <1>1, HavingIs
<1>3. LowestOf(Bodies) \in Bodies
  BY <1>1, <1>2, LowestIs
<1> QED
  BY <1>2, <1>3, HavingIs DEF Body

LEMMA CGetsArguments ==
  ASSUME IsCall(call), EndsWell
  PROVE  CCodeGetsArguments
<1>1. ASSUME Ended, Reached, Body.type \in {"CFUNC", "NOTIMPLEMENTED"}
      PROVE  IF Body.arity \notin {-2, -1, Len(Arguments)} \/ Body.arity > 15
             THEN outcome.kind = "ArgumentError"
             ELSE /\ Body.arity < 0 => outcome.params[Len(outcome.params)] = Array(Arguments)
                  /\ Body.arity >= 0 => outcome.params = Arguments
  <2>1. /\ IF TakenByC.kind = "cfunc" THEN \E more : outcome = With(TakenByC, more)
           ELSE outcome = TakenByC
        /\ call.kind = "call"
    BY <1>1 DEF EndsWell, Results, FromBody, Ended
  <2>2. Body.arity \in Int /\ Len(Arguments) \in Nat
    BY <1>1, <2>1, BodyIs, ArgumentsAre DEF IsEntry
  <2>3. TakenByC = call_cfunc(Body.arity, Arguments)
    BY DEF TakenByC
  <2>4. CASE Body.arity \notin {-2, -1, Len(Arguments)} \/ Body.arity > 15
    <3>1. TakenByC.kind = "ArgumentError"
      BY SMTT(30), <2>2, <2>3, <2>4 DEF call_cfunc, argument_error
    <3> QED
      BY <3>1, <2>1, <2>4
  <2>5. CASE ~(Body.arity \notin {-2, -1, Len(Arguments)} \/ Body.arity > 15)
    <3>1. /\ TakenByC.kind = "cfunc" /\ DOMAIN TakenByC = {"kind", "params"}
          /\ Body.arity = -2 => TakenByC.params = <<Array(Arguments)>>
          /\ Body.arity = -1 => TakenByC.params = <<<<"argc", Len(Arguments)>>, Array(Arguments)>>
          /\ Body.arity >= 0 => TakenByC.params = Arguments
      <4>1. PICK arity, args : arity = Body.arity /\ args = Arguments
        OBVIOUS
      <4>2. /\ TakenByC = call_cfunc(arity, args) /\ Len(args) \in Nat
            /\ arity = -2 \/ arity = -1 \/ (arity = Len(args) /\ arity \in 0 .. 15)
        BY SMTT(30), <2>2, <2>3, <2>5, <4>1
      <4>3. CASE arity = -2
        BY <4>1, <4>2, <4>3 DEF call_cfunc
      <4>4. CASE arity = -1
        BY <4>1, <4>2, <4>4 DEF call_cfunc
      <4>5. CASE arity = Len(args) /\ arity \in 0 .. 15
        <5>1. arity # -2 /\ arity # -1
          BY <4>5
        <5>2. TakenByC = [kind |-> "cfunc", params |-> args]
          BY <5>1, <4>2, <4>5 DEF call_cfunc
        <5> QED
          BY <5>1, <5>2, <4>1
      <4> QED
        BY <4>2, <4>3, <4>4, <4>5
    <3>2. outcome.params = TakenByC.params
      BY <3>1, <2>1, WithHas
    <3>3. Body.arity = -2 => outcome.params[Len(outcome.params)] = Array(Arguments)
      BY SMTT(30), <3>1, <3>2
    <3>4. Body.arity = -1 => outcome.params[Len(outcome.params)] = Array(Arguments)
      <4>1. \A s, x, y : s = <<x, y>> => s[Len(s)] = y
        OBVIOUS
      <4>2. PICK x, y : x = <<"argc", Len(Arguments)>> /\ y = Array(Arguments)
        OBVIOUS
      <4>3. Body.arity = -1 => outcome.params = <<x, y>>
        BY <4>2, <3>1, <3>2
      <4> QED
        BY <4>1, <4>2, <4>3
    <3>5. Body.arity < 0 => Body.arity \in {-1, -2}
      BY <2>2, <2>5
    <3> QED
      BY <2>5, <3>1, <3>2, <3>3, <3>4, <3>5
  <2> QED
    BY <2>4, <2>5
<1>2. ASSUME pc = "done", call.kind = "ifunc"
      PROVE  outcome.arg = IF call.lambda THEN Array(Delivered) ELSE Append(Delivered, nil)[1]
  <2>1. outcome.arg = IF call.lambda THEN Array(Delivered)
                      ELSE IF Delivered = <<>> THEN nil ELSE Delivered[1]
    BY <1>2 DEF EndsWell, Results, Given
  <2>2. PICK S : Delivered \in Seq(S)
    BY <1>2, SetupDelivers
  <2>3. Append(Delivered, nil)[1] = IF Delivered = <<>> THEN nil ELSE Delivered[1]
    <3>1. Len(Delivered) \in Nat /\ (Delivered # <<>> => Len(Delivered) # 0)
      BY <2>2, EmptySeq
    <3>2. /\ Delivered \in Seq(S \cup {nil}) /\ nil \in S \cup {nil}
      BY <2>2
    <3>3. CASE Delivered = <<>>
      BY <3>3
    <3>4. CASE Delivered # <<>>
      BY <3>1, <3>2, <3>4, AppendProperties
    <3> QED
      BY <3>3, <3>4
  <2> QED
    BY <2>1, <2>3
<1> QED
  BY <1>1, <1>2 DEF CCodeGetsArguments

-----------------------------------------------------------------------------
(* Methods and lambdas.                                                    *)

\* The cells of the parameters and of the arguments are on the stack.
LEMMA OnStack ==
  ASSUME NEW p, IsParams(p), NEW n \in Nat, n <= 2 * MaxArgs
  PROVE  /\ p.m \in Nat /\ p.opt \in Nat /\ p.post \in Nat
         /\ p.rest \in BOOLEAN /\ p.block \in BOOLEAN /\ p.comma \in BOOLEAN
         /\ \A i \in Nat : i < n \/ i < p.m + p.opt + p.post + 2 => i \in Cells
         /\ p.post > 0 => p.rest \/ p.opt > 0
<1>1. /\ p.m \in 0 .. MaxParams /\ p.opt \in 0 .. MaxParams /\ p.post \in 0 .. MaxParams
      /\ p.rest \in BOOLEAN /\ p.block \in BOOLEAN /\ p.comma \in BOOLEAN
  BY DEF IsParams
<1>2. \A i \in Nat : i < n \/ i < p.m + p.opt + p.post + 2 => i \in Cells
  BY <1>1, BoundAssumption DEF Cells
<1> QED
  BY <1>1, <1>2, BoundAssumption DEF IsParams

\* What the compiler has recorded of a list of parameters.
LEMMA IseqIs ==
  ASSUME NEW p, IsParams(p)
  PROVE  LET start == p.m + p.opt + (IF p.rest THEN 1 ELSE 0)
         IN /\ Iseq(p).argc = p.m /\ Iseq(p).arg_post_len = p.post /\ Iseq(p).arg_post_start = start
            /\ Iseq(p).arg_opts = IF p.opt = 0 THEN 0 ELSE p.opt + 1
            /\ Iseq(p).arg_rest = IF p.rest THEN p.m + p.opt ELSE -1
            /\ Iseq(p).arg_block = IF p.block THEN start + p.post ELSE -1
            /\ Iseq(p).arg_size = start + p.post + (IF p.block THEN 1 ELSE 0)
            /\ Iseq(p).local_size = start + p.post + (IF p.block THEN 1 ELSE 0) + 1
            /\ Iseq(p).simple <=> p.opt = 0 /\ ~p.rest /\ p.post = 0 /\ ~p.block
            /\ Iseq(p).alone <=> p.opt = 0 /\ ~p.rest /\ p.post = 0 /\ p.m = 1 /\ ~p.comma
BY DEF Iseq

\* What a frame has in it.
LEMMA BoundIs ==
  ASSUME NEW mem, NEW iseq, NEW opt_pc, iseq.local_size \in Nat
  PROVE  /\ Bound(mem, iseq, opt_pc).kind = "bound" /\ Bound(mem, iseq, opt_pc).opt_pc = opt_pc
         /\ DOMAIN Bound(mem, iseq, opt_pc).locals = 0 .. iseq.local_size - 1
         /\ \A i \in 0 .. iseq.local_size - 1 :
              Bound(mem, iseq, opt_pc).locals[i] = IF i < iseq.arg_size THEN mem[i] ELSE nil
BY DEF Bound

LEMMA ParametersAre ==
  ASSUME NEW p, IsParams(p), NEW args, NEW taken
  PROVE  LET n == Len(args)
             given == Least(p.opt, n - p.m - p.post)
             rest == p.m + p.opt
             start == rest + (IF p.rest THEN 1 ELSE 0)
             at == Parameters(p, args, taken).at
         IN /\ Parameters(p, args, taken).given = given
            /\ DOMAIN at = 0 .. start + p.post + (IF p.block THEN 1 ELSE 0)
            /\ \A i \in DOMAIN at : at[i] =
                 CASE i < p.m + given -> args[i + 1]
                   [] i >= p.m + given /\ i < rest -> nil
                   [] i = rest /\ p.rest -> Array(SubSeq(args, p.m + given + 1, n - p.post))
                   [] i >= start /\ i < start + p.post -> args[n - p.post + i - start + 1]
                   [] i = start + p.post /\ p.block -> taken
                   [] OTHER -> nil
BY DEF Parameters

LEMMA CellsMoved ==
  ASSUME NEW mem, NEW to, NEW source, NEW from, NEW n, NEW i \in Cells
  PROVE  /\ Copy(mem, to, source, from, n)[i] =
              IF i \in to .. to + n - 1 THEN source[from + i - to] ELSE mem[i]
         /\ FillNil(mem, from, to)[i] = IF i \in from .. to - 1 THEN nil ELSE mem[i]
BY DEF Copy, FillNil

\* An array of cells that hold arguments.
LEMMA ArrayIs ==
  ASSUME NEW S, NEW args \in Seq(S), NEW from \in Nat, NEW k \in Nat, from + k <= Len(args),
         NEW mem, \A i \in from .. from + k - 1 : mem[i] = args[i + 1]
  PROVE  ArrayOf(mem, from, k) = Array(SubSeq(args, from + 1, from + k))
<1>1. Len(args) \in Nat /\ \A i \in 1 .. Len(args) : args[i] \in S
  OBVIOUS
<1> DEFINE s == SubSeq(args, from + 1, from + k)
           t == [i \in 1 .. k |-> mem[from + i - 1]]
<1>2. \A i \in from + 1 .. from + k : args[i] \in S
  BY <1>1
<1>3. /\ s \in Seq(S)
      /\ Len(s) = IF from + 1 <= from + k THEN from + k - (from + 1) + 1 ELSE 0
      /\ \A i \in 1 .. from + k - (from + 1) + 1 : s[i] = args[from + 1 + i - 1]
  BY SMTT(30), <1>2, SubSeqProperties
<1>4. \A i \in 1 .. k : t[i] = args[from + i]
  <2> SUFFICES ASSUME NEW i \in 1 .. k PROVE t[i] = args[from + i]
    OBVIOUS
  <2>1. from + i - 1 \in from .. from + k - 1 /\ (from + i - 1) + 1 = from + i
    OBVIOUS
  <2> QED
    BY <2>1
<1>5. \A i \in 1 .. k : t[i] \in S
  BY <1>1, <1>4
<1>6. t \in Seq(S) /\ Len(t) = k
  <2>1. t \in [1 .. k -> S]
    BY <1>5
  <2> QED
    BY <2>1
<1> HIDE DEF s, t
<1>7. Len(s) = k /\ \A i \in 1 .. k : s[i] = args[from + i]
  <2>1. Len(s) = k
    BY <1>3
  <2>2. \A i \in 1 .. k : i \in 1 .. from + k - (from + 1) + 1 /\ from + 1 + i - 1 = from + i
    OBVIOUS
  <2> QED
    BY <2>1, <2>2, <1>3
<1>8. s = t
  BY <1>3, <1>4, <1>6, <1>7, SeqEqual
<1> QED
  BY <1>8 DEF ArrayOf, s, t

\* Where a cell of the new frame is, of those that are not left to the code at
\* opt_pc: among the mandatory and the given optional parameters, at the rest,
\* among the post parameters, or at the block.
Mandatory(M, given, i) == i < M + given
AtRest(r, rest, i) == r = 1 /\ i = rest
Post(start, P, i) == start <= i /\ i < start + P
AtBlock(k, start, P, i) == k = 1 /\ i = start + P

InOnePlace(M, O, P, r, k, start, given, i) ==
  /\ \/ Mandatory(M, given, i) \/ AtRest(r, M + O, i)
     \/ Post(start, P, i) \/ AtBlock(k, start, P, i)
  /\ Mandatory(M, given, i) =>
       ~AtRest(r, M + O, i) /\ ~Post(start, P, i) /\ ~AtBlock(k, start, P, i)
  /\ AtRest(r, M + O, i) => ~Post(start, P, i) /\ ~AtBlock(k, start, P, i)
  /\ Post(start, P, i) => ~AtBlock(k, start, P, i)
  /\ ~(i >= M + given /\ i < M + O)
InNoPlace(M, O, P, r, k, start, given, i) ==
  /\ ~Mandatory(M, given, i) /\ ~AtRest(r, M + O, i)
  /\ ~Post(start, P, i) /\ ~AtBlock(k, start, P, i)
  /\ ~(i >= M + given /\ i < M + O)

LEMMA Placed ==
  ASSUME NEW M \in Nat, NEW O \in Nat, NEW P \in Nat, NEW r \in 0 .. 1, NEW k \in 0 .. 1,
         NEW start \in Nat, start = M + O + r,
         NEW given \in Nat, given <= O,
         NEW i \in Nat, i < start + P + k,
         ~(M + given <= i /\ i < M + O)
  PROVE  InOnePlace(M, O, P, r, k, start, given, i)
<1>1. CASE r = 1
  BY <1>1 DEF Mandatory, AtRest, Post, AtBlock, InOnePlace
<1>2. CASE r = 0
  BY <1>2 DEF Mandatory, AtRest, Post, AtBlock, InOnePlace
<1> QED
  BY <1>1, <1>2

\* It is one of the cells that a frame has, as its parameters are within MaxArgs.
LEMMA InFrame ==
  ASSUME NEW M \in Nat, NEW O \in Nat, NEW P \in Nat, NEW r \in 0 .. 1, NEW k \in 0 .. 1,
         NEW start \in Nat, start = M + O + r, NEW i \in Nat, i < start + P + k
  PROVE  i < M + O + P + 2 /\ i \in 0 .. start + P + k
OBVIOUS

\* The last cell, which is after all parameters.
LEMMA NotPlaced ==
  ASSUME NEW M \in Nat, NEW O \in Nat, NEW P \in Nat, NEW r \in 0 .. 1, NEW k \in 0 .. 1,
         NEW start \in Nat, start = M + O + r,
         NEW given \in Nat, given <= O, NEW i \in Nat,
         i >= start + P + k
  PROVE  InNoPlace(M, O, P, r, k, start, given, i)
<1>1. CASE r = 1
  BY <1>1 DEF Mandatory, AtRest, Post, AtBlock, InNoPlace
<1>2. CASE r = 0
  BY <1>2 DEF Mandatory, AtRest, Post, AtBlock, InNoPlace
<1> QED
  BY <1>1, <1>2

\* The numbers of vm_callee_setup_arg_complex, for arguments that fit.
CountedOut(M, O, P, r, n, l, given) ==
  /\ given \in Nat /\ given <= O /\ given <= l /\ given = Least(O, l)
  /\ l - given \in Nat
  /\ r = 0 => l - given = 0
  /\ M + given \in Nat /\ M + given + (l - given) = n - P /\ n - P <= n
  /\ l - given > 0 => given = O

LEMMA Counted ==
  ASSUME NEW M \in Nat, NEW O \in Nat, NEW P \in Nat, NEW r \in 0 .. 1, NEW n \in Nat,
         NEW l \in Nat, l = n - M - P, r = 0 => l <= O,
         NEW given, given = (IF O = 0 THEN 0 ELSE Least(l, O))
  PROVE  CountedOut(M, O, P, r, n, l, given)
<1>1. CASE l < O
  BY <1>1 DEF Least, CountedOut
<1>2. CASE l >= O
  <2>1. given = O
    BY <1>2 DEF Least
  <2>2. Least(O, l) = O
    BY <1>2 DEF Least
  <2> QED
    BY <2>1, <2>2, <1>2 DEF CountedOut
<1> QED
  BY <1>1, <1>2

\* Cells that have been filled, and one that has been written, or none if it is -1.
FilledTo(new, mem, from, to) ==
  /\ DOMAIN new = Cells
  /\ \A i \in Cells : new[i] = IF i \in from .. to - 1 THEN nil ELSE mem[i]
WrittenTo(new, mem, at, value) ==
  /\ DOMAIN new = Cells
  /\ \A i \in Cells : new[i] = IF i = at THEN value ELSE mem[i]

LEMMA Filled ==
  ASSUME NEW mem, NEW from, NEW to
  PROVE  FilledTo(FillNil(mem, from, to), mem, from, to)
BY DEF FillNil, FilledTo

LEMMA Written ==
  ASSUME NEW mem, DOMAIN mem = Cells, NEW at, NEW value
  PROVE  WrittenTo(IF at = -1 THEN mem ELSE [mem EXCEPT ![at] = value], mem, at, value)
<1>1. -1 \notin Cells
  BY DEF Cells
<1>2. CASE at = -1
  <2>1. \A i \in Cells : i # at
    BY <1>1, <1>2
  <2> QED
    BY <1>2, <2>1 DEF WrittenTo
<1>3. CASE at # -1
  BY <1>3 DEF WrittenTo
<1> QED
  BY <1>2, <1>3

\* vm_callee_setup_arg_complex: arguments that fit are bound as declared, others raise.
LEMMA ComplexBinds ==
  ASSUME NEW p, IsParams(p), NEW S, NEW args \in Seq(S), Len(args) <= 2 * MaxArgs, NEW b
  PROVE  LET n == Len(args)
             high == p.m + p.opt + p.post
             got == vm_callee_setup_arg_complex(Iseq(p), n, StackOf(args), b)
         IN /\ n < p.m + p.post => got = argument_error(n, p.m + p.post)
            /\ n >= p.m + p.post /\ n > high /\ ~p.rest /\ ~Iseq(p).simple =>
                 got = argument_error(n, high)
            /\ n >= p.m + p.post /\ (n <= high \/ p.rest) =>
                 Agrees(got, p, Parameters(p, args, BlockValue(b)))
<1> DEFINE n == Len(args)
           high == p.m + p.opt + p.post
           iseq == Iseq(p)
           orig == StackOf(args)
           m == iseq.argc
           opts == Most(iseq.arg_opts - 1, 0)
           left == n - m - iseq.arg_post_len
           posted == Copy(orig, iseq.arg_post_start, orig, m + left, iseq.arg_post_len)
           argv == SetAside(iseq, n, orig, posted)
           given == IF iseq.arg_opts = 0 THEN 0 ELSE Least(left, opts)
           opted == FillNil(posted, m + given, m + opts)
           over == left - given
           rested == IF iseq.arg_rest = -1 THEN opted
                     ELSE [opted EXCEPT ![iseq.arg_rest] = ArrayOf(argv, m + given, over)]
           blocked == IF iseq.arg_block = -1 THEN rested
                      ELSE [rested EXCEPT ![iseq.arg_block] = BlockValue(b)]
           got == vm_callee_setup_arg_complex(iseq, n, orig, b)
           start == p.m + p.opt + (IF p.rest THEN 1 ELSE 0)
           rst == IF p.rest THEN 1 ELSE 0
           blk == IF p.block THEN 1 ELSE 0
           expected == Parameters(p, args, BlockValue(b))
<1>1. got = IF left < 0 THEN argument_error(n, m + iseq.arg_post_len)
            ELSE IF iseq.arg_opts > 0 /\ iseq.arg_rest = -1 /\ over > 0
            THEN argument_error(n, m + opts + iseq.arg_post_len)
            ELSE IF iseq.arg_block # -1 /\ iseq.arg_rest = -1 /\ over > 0
            THEN argument_error(n, m + iseq.arg_post_len)
            ELSE Bound(blocked, iseq, given)
  BY DEF vm_callee_setup_arg_complex
<1>2. /\ n \in Nat /\ p.m \in Nat /\ p.opt \in Nat /\ p.post \in Nat
      /\ p.rest \in BOOLEAN /\ p.block \in BOOLEAN
      /\ p.post > 0 => p.rest \/ p.opt > 0
  BY OnStack
<1>c. \A i \in Nat : i < n \/ i < p.m + p.opt + p.post + 2 => i \in Cells
  BY OnStack
<1>3. /\ m = p.m /\ iseq.arg_post_len = p.post /\ iseq.arg_post_start = start
      /\ iseq.arg_opts = (IF p.opt = 0 THEN 0 ELSE p.opt + 1)
      /\ iseq.arg_rest = (IF p.rest THEN p.m + p.opt ELSE -1)
      /\ iseq.arg_block = (IF p.block THEN start + p.post ELSE -1)
      /\ iseq.arg_size = start + p.post + blk
      /\ iseq.local_size = start + p.post + blk + 1
      /\ iseq.simple <=> p.opt = 0 /\ ~p.rest /\ p.post = 0 /\ ~p.block
  BY IseqIs
<1>4. start \in Nat /\ start = p.m + p.opt + rst /\ rst \in 0 .. 1
      /\ (rst = 1 => p.rest) /\ (rst = 0 => ~p.rest)
  BY <1>2
<1>blk. blk \in 0 .. 1 /\ (blk = 1 => p.block) /\ (blk = 0 => ~p.block)
  BY <1>2
<1>5. opts = p.opt /\ left = n - p.m - p.post
      /\ given = (IF p.opt = 0 THEN 0 ELSE Least(n - p.m - p.post, p.opt))
  BY <1>2, <1>3 DEF Most
<1>6. \A i \in Cells : orig[i] = IF i < n THEN args[i + 1] ELSE Stale
  BY DEF StackOf
<1>7. \A i \in Cells : posted[i] = IF i \in start .. start + p.post - 1
                                   THEN orig[p.m + left + i - start] ELSE orig[i]
  BY <1>3, CellsMoved
<1>8. FilledTo(opted, posted, m + given, m + opts)
  BY Filled
<1>9. argv = IF p.post > 0 /\ n < start THEN posted ELSE orig
  BY <1>3 DEF SetAside
<1> HIDE DEF m, opts, left, given, orig, posted, opted, argv, got, iseq, start, rst, blk
<1>15. over = left - given
  OBVIOUS
<1> HIDE DEF over
<1>10. CASE n < p.m + p.post
  <2>1. got = argument_error(n, p.m + p.post)
    BY <1>1, <1>2, <1>3, <1>5, <1>10
  <2> QED
    BY <2>1, <1>2, <1>10 DEF got, iseq, orig
<1>11. CASE n >= p.m + p.post /\ n > high /\ ~p.rest
  <2>1. ASSUME ~iseq.simple PROVE got = argument_error(n, high)
    <3>1. left > 0 /\ ~(left < 0) /\ left > p.opt /\ left \in Nat
      <4>1. left = n - p.m - p.post /\ n > p.m + p.opt + p.post
        BY <1>5, <1>11
      <4> QED
        BY <4>1, <1>2
    <3>2. over > 0 /\ iseq.arg_rest = -1
      BY <1>2, <1>3, <1>5, <1>11, <1>15, <3>1 DEF Least
    <3>3. CASE p.opt > 0
      <4>1. iseq.arg_opts > 0 /\ p.m + opts + p.post = high
        BY <1>2, <1>3, <1>5, <3>3
      <4> QED
        BY <4>1, <3>1, <3>2, <1>1, <1>3
    <3>4. CASE p.opt = 0
      <4>1. p.post = 0 /\ p.block
        BY <1>2, <1>3, <1>11, <2>1, <3>4
      <4>2. iseq.arg_opts = 0 /\ iseq.arg_block # -1 /\ high = p.m + p.post
        BY <1>2, <1>3, <1>4, <3>4, <4>1
      <4> QED
        BY <4>2, <3>1, <3>2, <1>1, <1>3
    <3> QED
      BY <3>3, <3>4, <1>2
  <2> QED
    BY <2>1, <1>2, <1>11 DEF got, iseq, orig
<1>12. CASE n >= p.m + p.post /\ (n <= high \/ p.rest)
  <2>1. /\ left \in Nat /\ given \in Nat /\ given <= p.opt /\ given <= left
        /\ given = Least(p.opt, n - p.m - p.post) /\ over \in Nat
        /\ ~p.rest => over = 0
        /\ over > 0 => given = p.opt
        /\ p.m + given \in Nat /\ p.m + given + over = n - p.post /\ n - p.post <= n
    <3>1. left = n - p.m - p.post /\ given = (IF p.opt = 0 THEN 0 ELSE Least(left, p.opt))
      BY <1>5
    <3>2. rst = 0 => n <= high
      BY <1>4, <1>12
    <3>3. left \in Nat /\ (rst = 0 => left <= p.opt)
      <4>1. n \in Nat /\ p.m \in Nat /\ p.opt \in Nat /\ p.post \in Nat
        BY <1>2
      <4>2. n >= p.m + p.post /\ left = n - p.m - p.post
        BY <1>12, <3>1
      <4> QED
        BY SMTT(30), <3>2, <4>1, <4>2
    <3>4. CountedOut(p.m, p.opt, p.post, rst, n, left, given)
      BY <1>2, <1>4, <3>1, <3>3, Counted
    <3>5. ~p.rest => rst = 0
      BY <1>4
    <3> QED
      BY <3>1, <3>3, <3>4, <3>5, <1>15 DEF CountedOut
  <2>2. got = Bound(blocked, iseq, given)
    <3>1. ~(left < 0)
      BY <2>1
    <3>2. iseq.arg_rest = -1 => ~(over > 0)
      BY <2>1, <1>2, <1>3
    <3> HIDE DEF blocked
    <3> QED
      BY <3>1, <3>2, <1>1
  <2>3. /\ got.kind = "bound" /\ got.opt_pc = given
        /\ DOMAIN got.locals = 0 .. start + p.post + blk
        /\ \A i \in 0 .. start + p.post + blk :
             got.locals[i] = IF i < start + p.post + blk THEN blocked[i] ELSE nil
    <3>1. iseq.local_size \in Nat /\ iseq.local_size - 1 = start + p.post + blk
      <4>1. PICK size : size = start + p.post + blk
        OBVIOUS
      <4>2. size \in Nat
        BY <4>1, <1>2, <1>4, <1>blk
      <4>3. iseq.local_size = size + 1
        BY <4>1, <1>3
      <4> QED
        BY <4>1, <4>2, <4>3
    <3> HIDE DEF blocked
    <3>2. /\ got.kind = "bound" /\ got.opt_pc = given
          /\ DOMAIN got.locals = 0 .. iseq.local_size - 1
          /\ \A i \in 0 .. iseq.local_size - 1 :
               got.locals[i] = IF i < iseq.arg_size THEN blocked[i] ELSE nil
      BY <2>2, <3>1, BoundIs
    <3> QED
      BY <3>1, <3>2, <1>3
  <2>4. /\ expected.given = given
        /\ DOMAIN expected.at = 0 .. start + p.post + blk
        /\ \A i \in DOMAIN expected.at : expected.at[i] =
             CASE Mandatory(p.m, given, i) -> args[i + 1]
               [] i >= p.m + given /\ i < p.m + p.opt -> nil
               [] AtRest(rst, p.m + p.opt, i) ->
                    Array(SubSeq(args, p.m + given + 1, n - p.post))
               [] Post(start, p.post, i) -> args[n - p.post + i - start + 1]
               [] AtBlock(blk, start, p.post, i) -> BlockValue(b)
               [] OTHER -> nil
    <3>1. given = Least(p.opt, n - p.m - p.post)
      BY <2>1
    <3>2. /\ expected.given = given
          /\ DOMAIN expected.at = 0 .. start + p.post + blk
          /\ \A i \in DOMAIN expected.at : expected.at[i] =
               CASE i < p.m + given -> args[i + 1]
                 [] i >= p.m + given /\ i < p.m + p.opt -> nil
                 [] i = p.m + p.opt /\ p.rest ->
                      Array(SubSeq(args, p.m + given + 1, n - p.post))
                 [] i >= start /\ i < start + p.post -> args[n - p.post + i - start + 1]
                 [] i = start + p.post /\ p.block -> BlockValue(b)
                 [] OTHER -> nil
      BY <3>1, ParametersAre DEF start, rst, blk
    <3> HIDE DEF expected
    <3>3. /\ p.rest <=> rst = 1
          /\ p.block <=> blk = 1
      BY <1>2, <1>4, <1>blk
    <3>4. \A i \in DOMAIN expected.at :
            /\ i < p.m + given <=> Mandatory(p.m, given, i)
            /\ i = p.m + p.opt /\ p.rest <=> AtRest(rst, p.m + p.opt, i)
            /\ i >= start /\ i < start + p.post <=> Post(start, p.post, i)
            /\ i = start + p.post /\ p.block <=> AtBlock(blk, start, p.post, i)
      BY <3>2, <3>3, <1>4 DEF Mandatory, AtRest, Post, AtBlock
    <3> QED
      BY <3>2, <3>4
  <2> HIDE DEF expected
  <2>5. p.rest => ArrayOf(argv, m + given, over) = Array(SubSeq(args, p.m + given + 1, n - p.post))
    <3>1. p.m + given \in Nat /\ over \in Nat /\ p.m + given + over = n - p.post
          /\ p.m + given + over <= n
      BY <2>1
    <3>2. ASSUME p.rest, NEW i \in p.m + given .. p.m + given + over - 1
          PROVE  argv[i] = args[i + 1]
      <4>1. i \in Nat /\ i < n /\ over > 0
        BY <3>1, <3>2, <1>2
      <4>2. ~(p.post > 0 /\ n < start)
        BY <4>1, <3>1, <2>1, <1>2, <1>4, <3>2
      <4> QED
        BY <4>1, <4>2, <1>c, <1>6, <1>9
    <3>3. p.rest => ArrayOf(argv, p.m + given, over)
                    = Array(SubSeq(args, p.m + given + 1, p.m + given + over))
      BY <3>1, <3>2, ArrayIs
    <3> QED
      BY <3>1, <3>3, <1>3
  <2>6. WrittenTo(rested, opted, iseq.arg_rest, ArrayOf(argv, m + given, over))
    BY <1>8, Written DEF FilledTo
  <2> HIDE DEF rested
  <2>7. WrittenTo(blocked, rested, iseq.arg_block, BlockValue(b))
    <3>1. DOMAIN rested = Cells
      BY <2>6 DEF WrittenTo
    <3> QED
      BY <3>1, Written
  <2> HIDE DEF blocked
  <2>8. ASSUME NEW i \in Nat, i < start + p.post + blk,
               ~(p.m + given <= i /\ i < p.m + p.opt)
        PROVE  blocked[i] = expected.at[i]
    <3>p. InOnePlace(p.m, p.opt, p.post, rst, blk, start, given, i)
      <4>1. PICK M \in Nat, O \in Nat, P \in Nat : M = p.m /\ O = p.opt /\ P = p.post
        BY <1>2
      <4>2. /\ start \in Nat /\ start = M + O + rst /\ rst \in 0 .. 1 /\ blk \in 0 .. 1
            /\ given \in Nat /\ given <= O
        BY <4>1, <1>4, <1>blk, <2>1
      <4>3. i < start + P + blk /\ ~(M + given <= i /\ i < M + O)
        BY <4>1, <2>8
      <4>4. InOnePlace(M, O, P, rst, blk, start, given, i)
        BY <4>2, <4>3, Placed
      <4> QED
        BY <4>1, <4>4
    <3>1. i \in Cells /\ i \in 0 .. start + p.post + blk
      <4>1. i < p.m + p.opt + p.post + 2 /\ i \in 0 .. start + p.post + blk
        <5>1. PICK M \in Nat, O \in Nat, P \in Nat : M = p.m /\ O = p.opt /\ P = p.post
          BY <1>2
        <5>2. start \in Nat /\ start = M + O + rst /\ rst \in 0 .. 1 /\ blk \in 0 .. 1
          BY <5>1, <1>4, <1>blk
        <5>3. i < start + P + blk
          BY <5>1, <2>8
        <5>4. i < M + O + P + 2 /\ i \in 0 .. start + P + blk
          BY <5>2, <5>3, InFrame
        <5> QED
          BY <5>1, <5>4
      <4> QED
        BY <4>1, <2>8, <1>c
    <3>2. opted[i] = posted[i]
      <4>1. i \notin m + given .. (m + opts) - 1
        BY SMTT(30), <1>2, <1>3, <1>5, <2>1, <2>8
      <4> QED
        BY <4>1, <1>8, <3>1 DEF FilledTo
    <3>r. rested[i] = IF AtRest(rst, p.m + p.opt, i) THEN ArrayOf(argv, m + given, over)
                      ELSE opted[i]
      <4>1. i = iseq.arg_rest <=> rst = 1 /\ i = p.m + p.opt
        BY <1>2, <1>3, <1>4
      <4> QED
        BY <4>1, <2>6, <3>1 DEF WrittenTo, AtRest
    <3>b. blocked[i] = IF AtBlock(blk, start, p.post, i) THEN BlockValue(b) ELSE rested[i]
      <4>1. i = iseq.arg_block <=> blk = 1 /\ i = start + p.post
        BY <1>2, <1>3, <1>4, <1>blk
      <4> QED
        BY <4>1, <2>7, <3>1 DEF WrittenTo, AtBlock
    <3>3. posted[i] = IF Post(start, p.post, i) THEN orig[p.m + left + i - start] ELSE orig[i]
      <4>1. PICK post : post = p.post
        OBVIOUS
      <4>2. post \in Nat /\ start \in Nat
        BY <4>1, <1>2, <1>4
      <4>3. i \in start .. start + post - 1 <=> Post(start, post, i)
        BY <4>2 DEF Post
      <4> QED
        BY <4>1, <4>3, <1>7, <3>1
    <3>4. expected.at[i] =
             CASE Mandatory(p.m, given, i) -> args[i + 1]
               [] i >= p.m + given /\ i < p.m + p.opt -> nil
               [] AtRest(rst, p.m + p.opt, i) ->
                    Array(SubSeq(args, p.m + given + 1, n - p.post))
               [] Post(start, p.post, i) -> args[n - p.post + i - start + 1]
               [] AtBlock(blk, start, p.post, i) -> BlockValue(b)
               [] OTHER -> nil
      BY <2>4, <3>1
    <3>5. CASE Mandatory(p.m, given, i)
      <4>1. expected.at[i] = args[i + 1]
        BY <3>p, <3>4, <3>5 DEF InOnePlace
      <4>2. blocked[i] = orig[i]
        BY <3>p, <3>5, <3>r, <3>b, <3>2, <3>3 DEF InOnePlace
      <4>3. i < n
        BY <1>2, <2>1, <3>5 DEF Mandatory
      <4> QED
        BY <4>1, <4>2, <4>3, <1>6, <3>1
    <3>6. CASE AtRest(rst, p.m + p.opt, i)
      <4>1. expected.at[i] = Array(SubSeq(args, p.m + given + 1, n - p.post))
        BY <3>p, <3>4, <3>6 DEF InOnePlace
      <4>2. blocked[i] = ArrayOf(argv, m + given, over) /\ p.rest
        BY <3>p, <3>6, <3>r, <3>b, <1>4 DEF InOnePlace, AtRest
      <4> QED
        BY <4>1, <4>2, <2>5
    <3>7. CASE Post(start, p.post, i)
      <4>1. expected.at[i] = args[n - p.post + i - start + 1]
        BY <3>p, <3>4, <3>7 DEF InOnePlace
      <4>2. blocked[i] = orig[p.m + left + i - start]
        BY <3>p, <3>7, <3>r, <3>b, <3>2, <3>3 DEF InOnePlace
      <4>3. /\ p.m + left + i - start \in Nat /\ p.m + left + i - start < n
            /\ (p.m + left + i - start) + 1 = n - p.post + i - start + 1
        <5>1. p.m + left = n - p.post /\ p.m + left \in Nat
          <6>1. left = n - p.m - p.post
            BY <1>5
          <6>2. left \in Nat /\ n \in Nat /\ p.m \in Nat /\ p.post \in Nat
            BY <1>2, <2>1
          <6> QED
            BY <6>1, <6>2
        <5>2. i - start \in Nat /\ i - start < p.post
          BY <1>2, <1>4, <3>7 DEF Post
        <5>3. n \in Nat /\ p.post \in Nat /\ start \in Nat /\ p.m \in Nat /\ left \in Nat
          BY <1>2, <1>4, <2>1
        <5> HIDE DEF n
        <5> QED
          BY SMTT(30), <5>1, <5>2, <5>3
      <4>4. orig[p.m + left + i - start] = args[(p.m + left + i - start) + 1]
        <5> DEFINE x == p.m + left + i - start
        <5>1. x \in Nat /\ x < n
          BY <4>3
        <5> HIDE DEF x
        <5>2. x \in Cells
          BY <5>1, <1>c
        <5>3. orig[x] = args[x + 1]
          BY <5>1, <5>2, <1>6
        <5> QED
          BY <5>3 DEF x
      <4> QED
        BY <4>1, <4>2, <4>3, <4>4
    <3>8. CASE AtBlock(blk, start, p.post, i)
      <4>1. expected.at[i] = BlockValue(b)
        BY <3>p, <3>4, <3>8 DEF InOnePlace
      <4>2. blocked[i] = BlockValue(b)
        BY <3>8, <3>b
      <4> QED
        BY <4>1, <4>2
    <3> QED
      BY <3>p, <3>5, <3>6, <3>7, <3>8 DEF InOnePlace
  <2>9. Agrees(got, p, expected)
    <3>1. DOMAIN got.locals = DOMAIN expected.at
      BY <2>3, <2>4
    <3>2. ASSUME NEW i \in DOMAIN expected.at, i \notin p.m + given .. p.m + p.opt - 1
          PROVE  got.locals[i] = expected.at[i]
      <4>1. i \in 0 .. start + p.post + blk /\ i \in Nat
        BY <2>4, <3>2
      <4>2. ~(p.m + given <= i /\ i < p.m + p.opt)
        <5>1. PICK M \in Nat, O \in Nat : M = p.m /\ O = p.opt
          BY <1>2
        <5>2. PICK g \in Nat : g = given
          BY <2>1
        <5>3. i \notin M + g .. M + O - 1
          BY <5>1, <5>2, <3>2
        <5>4. ~(M + g <= i /\ i < M + O)
          BY <5>3, <4>1
        <5> QED
          BY <5>1, <5>2, <5>4
      <4>3. CASE i < start + p.post + blk
        <5>2. got.locals[i] = blocked[i]
          BY <4>1, <4>3, <2>3
        <5> QED
          BY <4>1, <4>2, <4>3, <5>2, <2>8
      <4>4. CASE ~(i < start + p.post + blk)
        <5>1. got.locals[i] = nil
          BY <4>1, <4>4, <2>3
        <5>2. i >= start + p.post + blk
          BY <4>1, <4>4, <1>2, <1>4, <1>blk
        <5>3. InNoPlace(p.m, p.opt, p.post, rst, blk, start, given, i)
          BY <4>1, <5>2, <1>2, <1>4, <1>blk, <2>1, NotPlaced
        <5>4. expected.at[i] = nil
          BY <5>3, <2>4, <3>2 DEF InNoPlace
        <5> QED
          BY <5>1, <5>4
      <4> QED
        BY <4>3, <4>4
    <3> QED
      BY <2>3, <2>4, <3>1, <3>2 DEF Agrees
  <2> QED
    BY <2>9, <1>2, <1>12 DEF got, iseq, orig, expected
<1> QED
  BY <1>2, <1>10, <1>11, <1>12

\* VM_CALLEE_SETUP_ARG binds as declared, or raises with the number that was expected.
Declared(got, p, args, taken) ==
  LET n == Len(args)
      high == p.m + p.opt + p.post
  IN CASE n < p.m + p.post -> got = argument_error(n, p.m + p.post)
       [] n > high /\ ~p.rest -> got = argument_error(n, high)
       [] OTHER -> Agrees(got, p, Parameters(p, args, taken))

LEMMA SimpleBinds ==
  ASSUME NEW p, IsParams(p), NEW S, NEW args \in Seq(S), Len(args) <= 2 * MaxArgs, NEW taken,
         Len(args) = p.m, p.opt = 0, ~p.rest, p.post = 0, ~p.block
  PROVE  Agrees(Bound(StackOf(args), Iseq(p), 0), p, Parameters(p, args, taken))
<1> DEFINE n == Len(args)
           got == Bound(StackOf(args), Iseq(p), 0)
           expected == Parameters(p, args, taken)
<1>1. n \in Nat /\ p.m \in Nat /\ \A i \in Nat : i < n => i \in Cells
  BY OnStack
<1>2. /\ got.kind = "bound" /\ got.opt_pc = 0 /\ DOMAIN got.locals = 0 .. n
      /\ \A i \in 0 .. n : got.locals[i] = IF i < n THEN StackOf(args)[i] ELSE nil
  <2>1. Iseq(p).arg_size = n /\ Iseq(p).local_size = n + 1
    BY <1>1, IseqIs
  <2> HIDE DEF n
  <2>2. Iseq(p).local_size \in Nat /\ Iseq(p).local_size - 1 = n
    BY <2>1, <1>1
  <2> QED
    BY <2>1, <2>2, BoundIs
<1>3. /\ expected.given = 0 /\ DOMAIN expected.at = 0 .. n
      /\ \A i \in 0 .. n : expected.at[i] = IF i < n THEN args[i + 1] ELSE nil
  <2> DEFINE given == Least(p.opt, n - p.m - p.post)
             rst == IF p.rest THEN 1 ELSE 0
             blk == IF p.block THEN 1 ELSE 0
             start == p.m + p.opt + rst
  <2>1. given = 0 /\ rst = 0 /\ blk = 0
    BY <1>1 DEF Least
  <2>2. /\ expected.given = given
        /\ DOMAIN expected.at = 0 .. start + p.post + blk
        /\ \A i \in DOMAIN expected.at : expected.at[i] =
             CASE i < p.m + given -> args[i + 1]
               [] i >= p.m + given /\ i < p.m + p.opt -> nil
               [] i = p.m + p.opt /\ p.rest ->
                    Array(SubSeq(args, p.m + given + 1, n - p.post))
               [] i >= start /\ i < start + p.post -> args[n - p.post + i - start + 1]
               [] i = start + p.post /\ p.block -> taken
               [] OTHER -> nil
    <3> DEFINE at == expected.at
    <3>1. expected.given = given
      BY ParametersAre
    <3>2. DOMAIN at = 0 .. start + p.post + blk
      BY ParametersAre
    <3>3. \A i \in DOMAIN at : at[i] =
             CASE i < p.m + given -> args[i + 1]
               [] i >= p.m + given /\ i < p.m + p.opt -> nil
               [] i = p.m + p.opt /\ p.rest ->
                    Array(SubSeq(args, p.m + given + 1, n - p.post))
               [] i >= start /\ i < start + p.post -> args[n - p.post + i - start + 1]
               [] i = start + p.post /\ p.block -> taken
               [] OTHER -> nil
      BY ZenonT(60), ParametersAre
    <3> QED
      BY <3>1, <3>2, <3>3
  <2> HIDE DEF expected, given, rst, blk
  <2>3. p.m = n /\ start = n /\ start + p.post + blk = n /\ start + p.post = n /\ p.m + given = n
        /\ p.m + p.opt = n
    BY <1>1, <2>1
  <2> HIDE DEF start, n
  <2>4. ASSUME NEW i \in 0 .. n
        PROVE  expected.at[i] = IF i < n THEN args[i + 1] ELSE nil
    <3>1. /\ i < p.m + given <=> i < n
          /\ ~(i >= p.m + given /\ i < p.m + p.opt)
          /\ ~(i >= start /\ i < start + p.post)
      BY <1>1, <2>3
    <3>2. i \in DOMAIN expected.at
      BY <2>2, <2>3
    <3> QED
      BY <3>1, <3>2, <2>2
  <2> QED
    BY <2>1, <2>2, <2>3, <2>4
<1>4. \A i \in 0 .. n : i < n => StackOf(args)[i] = args[i + 1]
  BY <1>1 DEF StackOf
<1> HIDE DEF got, expected
<1>5. Agrees(got, p, expected)
  <2>1. \A i \in 0 .. n : got.locals[i] = expected.at[i]
    BY <1>2, <1>3, <1>4
  <2> QED
    BY <2>1, <1>2, <1>3 DEF Agrees
<1> QED
  BY <1>5 DEF got, expected

LEMMA CalleeBinds ==
  ASSUME NEW p, IsParams(p), NEW S, NEW args \in Seq(S), Len(args) <= 2 * MaxArgs, NEW b
  PROVE  Declared(vm_callee_setup_arg(Iseq(p), Len(args), StackOf(args), b), p, args, BlockValue(b))
<1> DEFINE n == Len(args)
           high == p.m + p.opt + p.post
           got == vm_callee_setup_arg(Iseq(p), n, StackOf(args), b)
<1>1. n \in Nat /\ p.m \in Nat /\ p.opt \in Nat /\ p.post \in Nat
  BY OnStack
<1>2. Iseq(p).argc = p.m /\ (Iseq(p).simple <=> p.opt = 0 /\ ~p.rest /\ p.post = 0 /\ ~p.block)
  BY IseqIs
<1>3. CASE ~Iseq(p).simple
  <2>1. got = vm_callee_setup_arg_complex(Iseq(p), n, StackOf(args), b)
    BY <1>3 DEF vm_callee_setup_arg
  <2> HIDE DEF got
  <2>2. /\ n < p.m + p.post => got = argument_error(n, p.m + p.post)
        /\ n >= p.m + p.post /\ n > high /\ ~p.rest => got = argument_error(n, high)
        /\ n >= p.m + p.post /\ (n <= high \/ p.rest) =>
             Agrees(got, p, Parameters(p, args, BlockValue(b)))
    BY <2>1, <1>3, ComplexBinds
  <2>3. n < p.m + p.post \/ n >= p.m + p.post
    BY <1>1
  <2>4. n > high \/ n <= high
    BY <1>1
  <2>5. n < p.m + p.post => ~(n >= p.m + p.post)
    BY <1>1
  <2>6. Declared(got, p, args, BlockValue(b))
    <3>1. CASE n < p.m + p.post
      <4>1. ~(n > high)
        BY <1>1, <3>1
      <4> QED
        BY <3>1, <4>1, <2>2 DEF Declared
    <3>2. CASE n >= p.m + p.post /\ n > high /\ ~p.rest
      <4>1. ~(n < p.m + p.post)
        BY <1>1, <3>2
      <4> QED
        BY <3>2, <4>1, <2>2 DEF Declared
    <3>3. CASE n >= p.m + p.post /\ (n <= high \/ p.rest)
      <4>1. ~(n < p.m + p.post) /\ ~(n > high /\ ~p.rest)
        BY <1>1, <3>3
      <4> QED
        BY <3>3, <4>1, <2>2 DEF Declared
    <3> QED
      BY <2>3, <2>4, <3>1, <3>2, <3>3
  <2> QED
    BY <2>6 DEF got
<1>4. CASE Iseq(p).simple
  <2>1. p.opt = 0 /\ ~p.rest /\ p.post = 0 /\ ~p.block
    BY <1>2, <1>4
  <2>2. p.m + p.post = p.m /\ high = p.m
    BY <1>1, <2>1
  <2>3. CASE n # p.m
    <3>1. got = argument_error(n, p.m)
      BY <1>2, <1>4, <2>3 DEF vm_callee_setup_arg
    <3> HIDE DEF got
    <3>2. Declared(got, p, args, BlockValue(b))
      <4>1. CASE n < p.m
        <5>1. ~(n > p.m)
          BY <1>1, <4>1
        <5> QED
          BY <4>1, <5>1, <3>1, <2>2 DEF Declared
      <4>2. CASE n > p.m
        <5>1. ~(n < p.m)
          BY <1>1, <4>2
        <5> QED
          BY <4>2, <5>1, <3>1, <2>1, <2>2 DEF Declared
      <4> QED
        BY <1>1, <2>3, <4>1, <4>2
    <3> QED
      BY <3>2 DEF got
  <2>4. CASE n = p.m
    <3>1. got = Bound(StackOf(args), Iseq(p), 0)
      BY <1>2, <1>4, <2>4 DEF vm_callee_setup_arg
    <3> HIDE DEF got
    <3>2. Agrees(got, p, Parameters(p, args, BlockValue(b)))
      BY <3>1, <2>1, <2>4, SimpleBinds
    <3>3. ~(n < p.m) /\ ~(n > p.m)
      BY <1>1, <2>4
    <3>4. Declared(got, p, args, BlockValue(b))
      BY <3>2, <3>3, <2>2 DEF Declared
    <3> QED
      BY <3>4 DEF got
  <2> QED
    BY <2>3, <2>4
<1> QED
  BY <1>3, <1>4

\* A list without its last element.
LEMMA FrontIs ==
  ASSUME NEW S, NEW s \in Seq(S), s # <<>>
  PROVE  LET front == SubSeq(s, 1, Len(s) - 1)
         IN /\ front \in Seq(S) /\ Len(front) = Len(s) - 1
            /\ \A i \in 1 .. Len(s) - 1 : front[i] = s[i]
<1> DEFINE front == SubSeq(s, 1, Len(s) - 1)
<1>1. Len(s) \in Nat /\ Len(s) # 0 /\ \A i \in 1 .. Len(s) : s[i] \in S
  BY EmptySeq
<1>2. PICK k \in Nat : k = Len(s) - 1
  BY <1>1
<1>3. /\ front \in Seq(S)
      /\ Len(front) = IF 1 <= k THEN k - 1 + 1 ELSE 0
      /\ \A i \in 1 .. k - 1 + 1 : front[i] = s[1 + i - 1]
  <2>1. \A i \in 1 .. k : i \in 1 .. Len(s)
    BY <1>1, <1>2
  <2> QED
    BY <1>1, <1>2, <2>1, SubSeqProperties
<1> HIDE DEF front
<1>4. k - 1 + 1 = k /\ (1 <= k \/ k = 0) /\ \A i \in 1 .. k : 1 + i - 1 = i
  BY <1>2
<1>5. Len(front) = k /\ \A i \in 1 .. k : front[i] = s[i]
  BY <1>3, <1>4
<1> QED
  BY <1>2, <1>3, <1>5 DEF front

\* A splat brings at most MaxArgs more.
LEMMA DeliveredFits ==
  ASSUME IsCall(call), call.kind # "assign"
  PROVE  Len(Delivered) <= 2 * MaxArgs
<1> DEFINE args == call.args
           last == args[Len(args)]
           front == SubSeq(args, 1, Len(args) - 1)
<1>1. PICK S : args \in Seq(S)
  BY DEF IsCall, IsList
<1>2. Len(args) \in Nat /\ DOMAIN args = 1 .. Len(args) /\ \A i \in 1 .. Len(args) : args[i] \in S
  BY <1>1
<1>3. Len(args) <= MaxArgs /\ MaxArgs \in Nat
  BY BoundAssumption DEF IsCall
<1>4. CASE "SPLAT" \in call.flag
  <2>1. args # <<>> /\ Len(args) # 0
    BY <1>1, <1>4, EmptySeq DEF IsCall
  <2>2. front \in Seq(S) /\ Len(front) = Len(args) - 1
    BY <1>1, <2>1, FrontIs
  <2>3. CASE IsArray(last)
    <3>1. IsList(last[2]) /\ Len(last[2]) <= MaxArgs
      <4>1. Len(args) \in DOMAIN args
        BY <2>1, <1>2
      <4> QED
        BY <4>1, <2>3 DEF IsCall, Fits
    <3>2. PICK T : last[2] \in Seq(T)
      BY <3>1 DEF IsList
    <3>3. front \in Seq(S \cup T) /\ last[2] \in Seq(S \cup T)
      BY <2>2, <3>2
    <3>4. Len(front \o last[2]) = Len(front) + Len(last[2])
      BY <3>3, ConcatProperties
    <3>5. Delivered = front \o last[2]
      <4>1. last # nil
        BY <2>3 DEF IsArray, nil
      <4> QED
        BY <4>1, <1>4, <2>3 DEF Delivered
    <3>6. Len(last[2]) \in Nat
      BY <3>2
    <3>7. PICK x, y : x = Len(front) /\ y = Len(last[2])
      OBVIOUS
    <3>8. Len(Delivered) = x + y
      BY <3>4, <3>5, <3>7
    <3>9. x = Len(args) - 1 /\ y \in Nat /\ y <= MaxArgs
      BY <2>2, <3>1, <3>6, <3>7
    <3> HIDE DEF args
    <3> QED
      BY <1>2, <1>3, <2>1, <3>8, <3>9
  <2>4. CASE ~IsArray(last)
    <3>1. Delivered \in {args, front}
      BY <1>4, <2>4 DEF Delivered
    <3> QED
      BY <3>1, <1>2, <1>3, <2>1, <2>2
  <2> QED
    BY <2>3, <2>4
<1>5. CASE "SPLAT" \notin call.flag
  <2>1. Delivered = args
    BY <1>5 DEF Delivered
  <2> QED
    BY <2>1, <1>2, <1>3
<1> QED
  BY <1>4, <1>5

LEMMA PassedIs ==
  BlockValue(Passed) = BlockOf(call.blockarg)
BY DEF BlockValue, Passed, BlockOf

\* What is added to the outcome besides does not count.
LEMMA DeclaredWith ==
  ASSUME NEW p, NEW args, NEW taken, NEW got, Declared(got, p, args, taken),
         got.kind = "bound" => DOMAIN got = {"kind", "opt_pc", "locals"},
         NEW given, IF got.kind = "bound" THEN \E more : given = With(got, more) ELSE given = got
  PROVE  Declared(given, p, args, taken)
<1>1. \A a, e : argument_error(a, e).kind # "bound"
  BY DEF argument_error
<1>2. CASE got.kind = "bound"
  <2>1. PICK more : given = With(got, more)
    BY <1>2
  <2>2. given.kind = "bound" /\ given.opt_pc = got.opt_pc /\ given.locals = got.locals
    BY <1>2, <2>1, WithHas
  <2>3. \A e : Agrees(got, p, e) => Agrees(given, p, e)
    BY <2>2 DEF Agrees
  <2> QED
    BY <1>1, <1>2, <2>3 DEF Declared
<1>3. CASE got.kind # "bound"
  BY <1>3
<1> QED
  BY <1>2, <1>3

LEMMA CallBinds ==
  ASSUME IsCall(call), EndsWell
  PROVE  CallBindsAsDeclared
<1>1. ASSUME Ended, Reached, Body.type = "ISEQ"
      PROVE  Declared(outcome, Body.params, Arguments, BlockOf(call.blockarg))
  <2>1. /\ IF Taken.kind = "bound" THEN \E more : outcome = With(Taken, more) ELSE outcome = Taken
        /\ call.kind = "call"
    BY <1>1 DEF EndsWell, Results, FromBody, Ended
  <2>2. IsParams(Body.params) /\ Sends < Len(Asked)
    BY <1>1, BodyIs DEF IsEntry
  <2>3. PICK S : Arguments \in Seq(S)
    BY <2>1, <2>2, ArgumentsAre
  <2>4. Len(Arguments) <= 2 * MaxArgs
    <3>1. Len(Arguments) \in Nat /\ Len(Arguments) <= Len(Delivered)
      BY <2>1, <2>2, ArgumentsAre
    <3>2. Len(Delivered) <= 2 * MaxArgs
      BY <2>1, DeliveredFits
    <3>3. PICK T : Delivered \in Seq(T)
      BY <2>1, SetupDelivers
    <3>4. Len(Delivered) \in Nat /\ MaxArgs \in Nat
      BY <3>3, BoundAssumption
    <3> QED
      BY <3>1, <3>2, <3>4
  <2>5. Declared(Taken, Body.params, Arguments, BlockOf(call.blockarg))
    BY <2>2, <2>3, <2>4, CalleeBinds, PassedIs DEF Taken
  <2>6. Taken.kind = "bound" => DOMAIN Taken = {"kind", "opt_pc", "locals"}
    BY CalleeIs DEF Taken
  <2> QED
    BY <2>1, <2>5, <2>6, DeclaredWith
<1>2. ASSUME pc = "done", call.kind = "lambda"
      PROVE  Declared(outcome, call.params, Delivered, BlockOf(call.blockarg))
  <2>1. outcome = vm_callee_setup_arg(Iseq(call.params), Len(Delivered), StackOf(Delivered), Passed)
    BY <1>2 DEF EndsWell, Results, Given
  <2>2. IsParams(call.params)
    BY <1>2 DEF IsCall
  <2>3. PICK S : Delivered \in Seq(S)
    BY <1>2, SetupDelivers
  <2>4. Len(Delivered) <= 2 * MaxArgs
    BY <1>2, DeliveredFits
  <2> QED
    BY <2>1, <2>2, <2>3, <2>4, CalleeBinds, PassedIs
<1>3. CASE call.kind = "call"
  <2>1. call.kind # "lambda"
    BY <1>3
  <2> QED
    BY <1>1, <1>3, <2>1 DEF CallBindsAsDeclared, Declared
<1>4. CASE call.kind # "call"
  <2>1. ~Ended
    BY <1>4 DEF Ended
  <2> QED
    BY <1>2, <1>4, <2>1 DEF CallBindsAsDeclared, Declared
<1> QED
  BY <1>3, <1>4

-----------------------------------------------------------------------------
(* Blocks.                                                                 *)

\* What the list of arguments is cut to and filled up to.
CutTo(p, args) ==
  IF Len(args) > p.m + p.opt + p.post /\ ~p.rest
  THEN SubSeq(args, 1, p.m + p.opt + p.post) ELSE args
FilledUp(p, args) ==
  [i \in 1 .. Most(Len(CutTo(p, args)), p.m + p.post) |->
     IF i <= Len(CutTo(p, args)) THEN CutTo(p, args)[i] ELSE nil]
ValueOf(args, i) == IF i < Len(args) THEN args[i + 1] ELSE nil
CutLength(M, O, P, r, a) == IF a > M + O + P /\ r = 0 THEN M + O + P ELSE a

FilledLength(M, O, P, r, a) == Most(CutLength(M, O, P, r, a), M + P)
IsFilled(filled, args, N) ==
  /\ (\E T : filled \in Seq(T)) /\ Len(filled) = N /\ N \in Nat
  /\ \A i \in Nat : i < N => filled[i + 1] = ValueOf(args, i)

LEMMA FilledUpIs ==
  ASSUME NEW p, IsParams(p), NEW S, NEW args \in Seq(S), NEW r \in 0 .. 1, r = 0 <=> ~p.rest
  PROVE  IsFilled(FilledUp(p, args), args, FilledLength(p.m, p.opt, p.post, r, Len(args)))
<1> DEFINE cut == CutTo(p, args)
           a == Len(args)
           c == CutLength(p.m, p.opt, p.post, r, a)
           N == FilledLength(p.m, p.opt, p.post, r, a)
           high == p.m + p.opt + p.post
<1>1. a \in Nat /\ p.m \in Nat /\ p.opt \in Nat /\ p.post \in Nat /\ high \in Nat
      /\ \A i \in 1 .. a : args[i] \in S
  BY BoundAssumption DEF IsParams
<1>2. c \in Nat /\ c <= a /\ (c < a => c = high)
  BY <1>1 DEF CutLength
<1>3. Len(cut) = c /\ \A i \in 1 .. c : cut[i] = args[i]
  <2>1. CASE a > high /\ ~p.rest
    <3>1. cut = SubSeq(args, 1, high) /\ c = high
      BY <2>1 DEF CutTo, CutLength
    <3>2. \A i \in 1 .. high : args[i] \in S
      BY <1>1, <2>1
    <3>3. /\ Len(SubSeq(args, 1, high)) = IF 1 <= high THEN high - 1 + 1 ELSE 0
          /\ \A i \in 1 .. high - 1 + 1 : SubSeq(args, 1, high)[i] = args[1 + i - 1]
      BY <1>1, <3>2, SubSeqProperties
    <3> HIDE DEF cut, c, high
    <3>4. high - 1 + 1 = high /\ (~(1 <= high) => high = 0)
      BY <1>1
    <3>5. \A i \in 1 .. high : 1 + i - 1 = i
      BY <1>1
    <3> QED
      BY <3>1, <3>3, <3>4, <3>5
  <2>2. CASE ~(a > high /\ ~p.rest)
    <3>1. cut = args /\ c = a
      BY <2>2 DEF CutTo, CutLength
    <3> QED
      BY <3>1
  <2> QED
    BY <2>1, <2>2
<1>4. FilledUp(p, args) = [i \in 1 .. N |-> IF i <= c THEN cut[i] ELSE nil]
  BY <1>3 DEF FilledUp, FilledLength
<1>5. N \in Nat /\ (c < a => N = c) /\ N >= c
  BY <1>1, <1>2 DEF Most, FilledLength
<1> HIDE DEF cut, c, a, N
<1>6. \A i \in 1 .. N : FilledUp(p, args)[i] = IF i <= c THEN args[i] ELSE nil
  BY <1>3, <1>4, <1>2, <1>5
<1>7. \A i \in 1 .. N : FilledUp(p, args)[i] \in S \cup {nil}
  BY <1>1, <1>2, <1>6
<1>8. FilledUp(p, args) \in [1 .. N -> S \cup {nil}]
  <2>1. DOMAIN FilledUp(p, args) = 1 .. N
    BY <1>4
  <2>2. FilledUp(p, args) = [i \in 1 .. N |-> FilledUp(p, args)[i]]
    BY <1>4
  <2> QED
    BY <1>7, <2>2
<1>9. ASSUME NEW i \in Nat, i < N PROVE FilledUp(p, args)[i + 1] = ValueOf(args, i)
  <2>1. i + 1 \in 1 .. N /\ (i + 1 <= c <=> i < a)
    BY <1>1, <1>2, <1>5, <1>9
  <2> QED
    BY <2>1, <1>6 DEF ValueOf, a
<1>10. IsFilled(FilledUp(p, args), args, N)
  <2>1. FilledUp(p, args) \in Seq(S \cup {nil}) /\ Len(FilledUp(p, args)) = N
    BY <1>5, <1>8
  <2> QED
    BY <1>5, <1>9, <2>1 DEF IsFilled
<1> QED
  BY <1>10 DEF N, a

LEMMA LeastMost ==
  ASSUME NEW x \in Int, NEW y \in Int
  PROVE  /\ x <= y => Least(x, y) = x /\ Most(x, y) = y
         /\ y <= x => Least(x, y) = y /\ Most(x, y) = x
BY DEF Least, Most

\* The numbers of vm_yield_setup_block_args_complex.
BlockCountedOut(M, O, P, r, a, N, given, ps, os, rs) ==
  /\ N \in Nat /\ given \in Nat /\ ps \in Nat /\ os \in Nat /\ rs \in Nat
  /\ os = given /\ given <= O /\ N >= M + P /\ ps <= P
  /\ r = 1 => N - P = M + rs + os
  /\ r = 0 => N - P = M + os
  /\ rs > 0 => given = O
  /\ rs > 0 => M + os + rs + P <= a
  /\ given > 0 => M + os + rs + P <= a
  /\ ps > 0 => M + os + rs + ps <= a
  /\ ps < P => given = 0 /\ rs = 0 /\ N = M + P /\ a <= M + ps

LEMMA NothingOver ==
  ASSUME NEW M \in Nat, NEW O \in Nat, NEW P \in Nat, NEW r \in 0 .. 1, NEW a \in Nat,
         NEW ps \in Nat, ps <= P, a <= M + ps, ps > 0 => a = M + ps
  PROVE  BlockCountedOut(M, O, P, r, a, M + P, 0, ps, 0, 0)
<1>1. (M + P) - P = M /\ M + P \in Nat /\ M + 0 + 0 = M
  OBVIOUS
<1> QED
  BY <1>1 DEF BlockCountedOut

LEMMA BlockCounted ==
  ASSUME NEW M \in Nat, NEW O \in Nat, NEW P \in Nat, NEW r \in 0 .. 1, NEW a \in Nat,
         NEW N, N = FilledLength(M, O, P, r, a),
         NEW given, given = Least(O, N - M - P),
         NEW l, l = Most(a - M, 0), NEW ps, ps = Least(l, P), NEW os, os = Least(l - ps, O),
         NEW rs, rs = l - ps - os
  PROVE  BlockCountedOut(M, O, P, r, a, N, given, ps, os, rs)
<1>1. CASE a < M + P
  <2>1. N = M + P /\ N \in Nat
    <3>1. CutLength(M, O, P, r, a) = a
      BY <1>1 DEF CutLength
    <3> QED
      BY <1>1, <3>1, LeastMost DEF FilledLength
  <2>2. given = 0
    <3>1. N - M - P = 0
      BY <2>1
    <3> QED
      BY <3>1, LeastMost
  <2>3. CASE a <= M
    <3>1. l = 0
      <4>1. a - M <= 0 /\ a - M \in Int
        BY <2>3
      <4> QED
        BY <4>1, LeastMost
    <3>2. ps = 0
      BY <3>1, LeastMost
    <3>3. os = 0
      <4>1. l - ps = 0
        BY <3>1, <3>2
      <4> QED
        BY <4>1, LeastMost
    <3>4. rs = 0
      BY <3>1, <3>2, <3>3
    <3> QED
      <4>1. 0 \in Nat /\ 0 <= P /\ a <= M + 0 /\ (0 > 0 => a = M + 0)
        BY <2>3
      <4>2. BlockCountedOut(M, O, P, r, a, M + P, 0, 0, 0, 0)
        BY <4>1, NothingOver
      <4> QED
        BY <4>2, <2>1, <2>2, <3>2, <3>3, <3>4
  <2>4. CASE a > M
    <3>1. l = a - M /\ l \in Nat
      <4>1. a - M >= 0 /\ a - M \in Int
        BY <2>4
      <4> QED
        BY <4>1, LeastMost
    <3>2. ps = l
      <4>1. l <= P
        BY <1>1, <3>1
      <4> QED
        BY <3>1, <4>1, LeastMost
    <3>3. os = 0
      <4>1. l - ps = 0
        BY <3>1, <3>2
      <4> QED
        BY <4>1, LeastMost
    <3>4. rs = 0
      BY <3>1, <3>2, <3>3
    <3> QED
      <4>1. ps \in Nat /\ a = M + ps /\ ps <= P
        BY <1>1, <3>1, <3>2
      <4> QED
        <5>1. a <= M + ps /\ (ps > 0 => a = M + ps) /\ ps \in Nat /\ ps <= P
          BY <4>1
        <5>2. BlockCountedOut(M, O, P, r, a, M + P, 0, ps, 0, 0)
          BY <5>1, NothingOver
        <5> QED
          BY <5>2, <2>1, <2>2, <3>3, <3>4
  <2> QED
    BY <2>3, <2>4
<1>2. CASE a >= M + P
  <2>1. l = a - M /\ l \in Nat /\ l >= P
    <3>1. a - M >= 0 /\ a - M \in Int /\ a - M >= P
      BY <1>2
    <3> QED
      BY <3>1, LeastMost
  <2>2. ps = P
    BY <2>1, LeastMost
  <2>3. l - ps = a - M - P /\ l - ps \in Nat
    BY <1>2, <2>1, <2>2
  <2>4. CASE a > M + O + P
    <3>1. os = O
      <4>1. O <= l - ps
        BY <2>3, <2>4
      <4> QED
        BY <2>3, <4>1, LeastMost
    <3>2. rs = a - M - P - O /\ rs \in Nat
      BY <2>1, <2>2, <2>4, <3>1
    <3>3. r = 0 => N = M + O + P
      <4>1. r = 0 => CutLength(M, O, P, r, a) = M + O + P
        BY <2>4 DEF CutLength
      <4> QED
        BY <4>1, LeastMost DEF FilledLength
    <3>4. r = 1 => N = a
      <4>1. r = 1 => CutLength(M, O, P, r, a) = a
        BY DEF CutLength
      <4> QED
        BY <1>2, <4>1, LeastMost DEF FilledLength
    <3>5. N \in Nat /\ N >= M + O + P
      BY <3>3, <3>4, <2>4
    <3>6. given = O
      <4>1. N - M - P \in Nat /\ O <= N - M - P
        BY <3>5
      <4> QED
        BY <4>1, LeastMost
    <3> QED
      BY <2>2, <2>4, <3>1, <3>2, <3>3, <3>4, <3>5, <3>6 DEF BlockCountedOut
  <2>5. CASE a <= M + O + P
    <3>1. os = a - M - P
      <4>1. l - ps <= O
        BY <2>3, <2>5
      <4> QED
        BY <2>3, <4>1, LeastMost
    <3>2. rs = 0
      BY <2>1, <2>2, <3>1
    <3>3. N = a
      <4>1. CutLength(M, O, P, r, a) = a
        BY <2>5 DEF CutLength
      <4> QED
        BY <1>2, <4>1, LeastMost DEF FilledLength
    <3>4. given = a - M - P
      <4>1. N - M - P = a - M - P /\ N - M - P \in Nat /\ N - M - P <= O
        BY <1>2, <2>5, <3>3
      <4> QED
        BY <4>1, LeastMost
    <3> QED
      BY <1>2, <2>2, <2>5, <3>1, <3>2, <3>3, <3>4 DEF BlockCountedOut
  <2> QED
    BY <2>4, <2>5
<1> QED
  BY <1>1, <1>2

\* The cells of the parameters hold what they should, but for the block.
Holds(mem, M, O, P, r, start, given, args) ==
  /\ DOMAIN mem = Cells
  /\ \A i \in Nat : Mandatory(M, given, i) => mem[i] = args[i + 1]
  /\ r = 1 => mem[M + O] = Array(SubSeq(args, M + given + 1, Len(args) - P))
  /\ \A i \in Nat : Post(start, P, i) => mem[i] = args[Len(args) - P + i - start + 1]

LEMMA HeldBinds ==
  ASSUME NEW p, IsParams(p), NEW S, NEW args \in Seq(S), NEW b, NEW mem, NEW given \in Nat,
         given = Least(p.opt, Len(args) - p.m - p.post), given <= p.opt,
         NEW r \in 0 .. 1, r = 1 => p.rest, r = 0 => ~p.rest, NEW start, start = p.m + p.opt + r,
         Holds(mem, p.m, p.opt, p.post, r, start, given, args)
  PROVE  Agrees(Bound(IF Iseq(p).arg_block = -1 THEN mem
                      ELSE [mem EXCEPT ![Iseq(p).arg_block] = BlockValue(b)], Iseq(p), given),
                p, Parameters(p, args, BlockValue(b)))
<1> DEFINE n == Len(args)
           iseq == Iseq(p)
           blocked == IF iseq.arg_block = -1 THEN mem
                      ELSE [mem EXCEPT ![iseq.arg_block] = BlockValue(b)]
           got == Bound(blocked, iseq, given)
           blk == IF p.block THEN 1 ELSE 0
           expected == Parameters(p, args, BlockValue(b))
<1>1. /\ p.m \in Nat /\ p.opt \in Nat /\ p.post \in Nat /\ start \in Nat
      /\ p.rest \in BOOLEAN /\ p.block \in BOOLEAN
  BY BoundAssumption DEF IsParams
<1>2. \A i \in Nat : i < p.m + p.opt + p.post + 2 => i \in Cells
  <2>1. 0 \in Nat /\ 0 <= 2 * MaxArgs
    BY BoundAssumption
  <2> QED
    BY <2>1, OnStack
<1>3. r = IF p.rest THEN 1 ELSE 0
  BY <1>1
<1>4. /\ iseq.arg_block = (IF p.block THEN start + p.post ELSE -1)
      /\ iseq.arg_size = start + p.post + blk
      /\ iseq.local_size = start + p.post + blk + 1
  BY <1>3, IseqIs
<1>5. blk \in 0 .. 1 /\ (blk = 1 => p.block) /\ (blk = 0 => ~p.block)
  BY <1>1
<1>6. /\ expected.given = given
      /\ DOMAIN expected.at = 0 .. start + p.post + blk
      /\ \A i \in DOMAIN expected.at : expected.at[i] =
           CASE i < p.m + given -> args[i + 1]
             [] i >= p.m + given /\ i < p.m + p.opt -> nil
             [] i = p.m + p.opt /\ p.rest ->
                  Array(SubSeq(args, p.m + given + 1, n - p.post))
             [] i >= start /\ i < start + p.post -> args[n - p.post + i - start + 1]
             [] i = start + p.post /\ p.block -> BlockValue(b)
             [] OTHER -> nil
  BY <1>3, ParametersAre
<1> HIDE DEF expected, iseq, blk
<1>7. \A i \in DOMAIN expected.at : expected.at[i] =
        CASE Mandatory(p.m, given, i) -> args[i + 1]
          [] i >= p.m + given /\ i < p.m + p.opt -> nil
          [] AtRest(r, p.m + p.opt, i) -> Array(SubSeq(args, p.m + given + 1, n - p.post))
          [] Post(start, p.post, i) -> args[n - p.post + i - start + 1]
          [] AtBlock(blk, start, p.post, i) -> BlockValue(b)
          [] OTHER -> nil
  <2>1. /\ p.rest <=> r = 1
        /\ p.block <=> blk = 1
    BY <1>1, <1>3, <1>5
  <2>2. \A i \in DOMAIN expected.at :
          /\ i < p.m + given <=> Mandatory(p.m, given, i)
          /\ i = p.m + p.opt /\ p.rest <=> AtRest(r, p.m + p.opt, i)
          /\ i >= start /\ i < start + p.post <=> Post(start, p.post, i)
          /\ i = start + p.post /\ p.block <=> AtBlock(blk, start, p.post, i)
    BY <1>6, <2>1, <1>1 DEF Mandatory, AtRest, Post, AtBlock
  <2> QED
    BY <1>6, <2>2
<1>8. /\ got.kind = "bound" /\ got.opt_pc = given
      /\ DOMAIN got.locals = 0 .. start + p.post + blk
      /\ \A i \in 0 .. start + p.post + blk :
           got.locals[i] = IF i < start + p.post + blk THEN blocked[i] ELSE nil
  <2>1. iseq.local_size \in Nat /\ iseq.local_size - 1 = start + p.post + blk
    <3>1. PICK size : size = start + p.post + blk
      OBVIOUS
    <3>2. size \in Nat
      <4>1. PICK P \in Nat : P = p.post
        BY <1>1
      <4>2. start \in Nat /\ blk \in Nat
        BY <1>1, <1>5
      <4>3. size = start + P + blk
        BY <3>1, <4>1
      <4> QED
        BY <4>1, <4>2, <4>3
    <3>3. iseq.local_size = size + 1
      BY <3>1, <1>4
    <3> QED
      BY <3>1, <3>2, <3>3
  <2> HIDE DEF blocked
  <2>2. /\ got.kind = "bound" /\ got.opt_pc = given
        /\ DOMAIN got.locals = 0 .. iseq.local_size - 1
        /\ \A i \in 0 .. iseq.local_size - 1 :
             got.locals[i] = IF i < iseq.arg_size THEN blocked[i] ELSE nil
    BY <2>1, BoundIs
  <2> QED
    BY <2>1, <2>2, <1>4
<1>9. WrittenTo(blocked, mem, iseq.arg_block, BlockValue(b))
  BY Written DEF Holds
<1> HIDE DEF blocked, got
<1>10. ASSUME NEW i \in Nat, i < start + p.post + blk,
              ~(p.m + given <= i /\ i < p.m + p.opt)
       PROVE  blocked[i] = expected.at[i]
  <2>1. InOnePlace(p.m, p.opt, p.post, r, blk, start, given, i)
    <3>1. PICK M \in Nat, O \in Nat, P \in Nat : M = p.m /\ O = p.opt /\ P = p.post
      BY <1>1
    <3>2. /\ start \in Nat /\ start = M + O + r /\ given <= O /\ blk \in 0 .. 1
          /\ i < start + P + blk /\ ~(M + given <= i /\ i < M + O)
      BY <3>1, <1>1, <1>5, <1>10
    <3>3. InOnePlace(M, O, P, r, blk, start, given, i)
      BY <3>2, Placed
    <3> QED
      BY <3>1, <3>3
  <2>2. i \in Cells /\ i \in DOMAIN expected.at
    <3>1. i < p.m + p.opt + p.post + 2 /\ i \in 0 .. start + p.post + blk
      <4>1. PICK M \in Nat, O \in Nat, P \in Nat : M = p.m /\ O = p.opt /\ P = p.post
        BY <1>1
      <4>2. start \in Nat /\ start = M + O + r /\ blk \in 0 .. 1 /\ i < start + P + blk
        BY <4>1, <1>1, <1>5, <1>10
      <4>3. i < M + O + P + 2 /\ i \in 0 .. start + P + blk
        BY <4>2, InFrame
      <4> QED
        BY <4>1, <4>3
    <3> QED
      BY <1>2, <1>6, <1>10, <3>1
  <2>3. blocked[i] = IF AtBlock(blk, start, p.post, i) THEN BlockValue(b) ELSE mem[i]
    <3>1. i = iseq.arg_block <=> blk = 1 /\ i = start + p.post
      <4>1. CASE blk = 1
        BY <4>1, <1>4, <1>5
      <4>2. CASE blk = 0
        <5>1. iseq.arg_block = -1
          BY <4>2, <1>4, <1>5
        <5> QED
          BY <4>2, <5>1
      <4> QED
        BY <4>1, <4>2, <1>5
    <3> QED
      BY <3>1, <1>9, <2>2 DEF WrittenTo, AtBlock
  <2>4. expected.at[i] =
          CASE Mandatory(p.m, given, i) -> args[i + 1]
            [] i >= p.m + given /\ i < p.m + p.opt -> nil
            [] AtRest(r, p.m + p.opt, i) -> Array(SubSeq(args, p.m + given + 1, n - p.post))
            [] Post(start, p.post, i) -> args[n - p.post + i - start + 1]
            [] AtBlock(blk, start, p.post, i) -> BlockValue(b)
            [] OTHER -> nil
    BY <1>7, <2>2
  <2>5. CASE Mandatory(p.m, given, i)
    <3>1. mem[i] = args[i + 1]
      BY <2>5, <1>10 DEF Holds
    <3> QED
      BY <2>1, <2>3, <2>4, <2>5, <3>1 DEF InOnePlace
  <2>6. CASE AtRest(r, p.m + p.opt, i)
    <3>1. mem[i] = Array(SubSeq(args, p.m + given + 1, n - p.post))
      BY <2>6 DEF Holds, AtRest
    <3> QED
      BY <2>1, <2>3, <2>4, <2>6, <3>1 DEF InOnePlace
  <2>7. CASE Post(start, p.post, i)
    <3>1. mem[i] = args[n - p.post + i - start + 1]
      BY <2>7, <1>10 DEF Holds
    <3> QED
      BY <2>1, <2>3, <2>4, <2>7, <3>1 DEF InOnePlace
  <2>8. CASE AtBlock(blk, start, p.post, i)
    BY <2>1, <2>3, <2>4, <2>8 DEF InOnePlace
  <2> QED
    BY <2>1, <2>5, <2>6, <2>7, <2>8 DEF InOnePlace
<1>11. Agrees(got, p, expected)
  <2>1. DOMAIN got.locals = DOMAIN expected.at
    BY <1>6, <1>8
  <2>2. ASSUME NEW i \in DOMAIN expected.at, i \notin p.m + given .. p.m + p.opt - 1
        PROVE  got.locals[i] = expected.at[i]
    <3>1. i \in 0 .. start + p.post + blk /\ i \in Nat
      BY <1>6, <2>2
    <3>2. ~(p.m + given <= i /\ i < p.m + p.opt)
      BY SMTT(30), <1>1, <2>2, <3>1
    <3>3. CASE i < start + p.post + blk
      BY <3>1, <3>2, <3>3, <1>8, <1>10
    <3>4. CASE ~(i < start + p.post + blk)
      <4>1. got.locals[i] = nil
        BY <3>1, <3>4, <1>8
      <4>2. i >= start + p.post + blk
        BY <3>1, <3>4, <1>1, <1>5
      <4>3. InNoPlace(p.m, p.opt, p.post, r, blk, start, given, i)
        BY <1>1, <1>5, <3>1, <4>2, NotPlaced
      <4>4. expected.at[i] = nil
        BY <1>7, <2>2, <4>3 DEF InNoPlace
      <4> QED
        BY <4>1, <4>4
    <3> QED
      BY <3>3, <3>4
  <2> QED
    BY <1>6, <1>8, <2>1, <2>2 DEF Agrees
<1> QED
  BY <1>11 DEF got, blocked, iseq, expected

\* The arguments on the stack, filled up to the mandatory parameters.
PaddedAs(mem, args, M) ==
  /\ DOMAIN mem = Cells
  /\ \A i \in Cells : i < Len(args) \/ i < M => mem[i] = ValueOf(args, i)

\* Cells that have been copied within the stack.
CopiedTo(new, mem, to, from, n) ==
  /\ DOMAIN new = Cells
  /\ \A i \in Cells : new[i] = IF Post(to, n, i) THEN mem[from + i - to] ELSE mem[i]

LEMMA Copied ==
  ASSUME NEW mem, NEW to \in Nat, NEW from, NEW n \in Nat
  PROVE  CopiedTo(Copy(mem, to, mem, from, n), mem, to, from, n)
<1>1. \A i \in Cells : i \in to .. to + n - 1 <=> Post(to, n, i)
  BY DEF Cells, Post
<1>2. DOMAIN Copy(mem, to, mem, from, n) = Cells
  BY DEF Copy
<1>3. \A i \in Cells : Copy(mem, to, mem, from, n)[i] =
                         IF i \in to .. to + n - 1 THEN mem[from + i - to] ELSE mem[i]
  BY CellsMoved
<1> QED
  BY <1>1, <1>2, <1>3 DEF CopiedTo

\* What vm_yield_setup_block_args_complex makes of the cells.
ComplexMade(got, p, a, padded, r, start, ps, os, rs) ==
  /\ got.opt_pc = os
  /\ \E posted, written :
       /\ CopiedTo(posted, padded, start, IF r = 0 THEN p.m + os ELSE p.m + rs + os, ps)
       /\ WrittenTo(written, posted, IF r = 0 THEN -1 ELSE p.m + p.opt,
                    ArrayOf(padded, p.m + p.opt, rs))
       /\ FilledTo(got.mem, written, start + ps, start + p.post)

LEMMA ComplexIs ==
  ASSUME NEW p, IsParams(p), p.post > 0 \/ p.opt > 0, NEW a \in Nat, NEW padded,
         DOMAIN padded = Cells,
         NEW r \in 0 .. 1, r = 1 => p.rest, r = 0 => ~p.rest, NEW start, start = p.m + p.opt + r,
         NEW l, l = Most(a - p.m, 0), NEW ps, ps = Least(l, p.post),
         NEW os, os = Least(l - ps, p.opt), NEW rs, rs = l - ps - os, ps \in Nat
  PROVE  ComplexMade(vm_yield_setup_block_args_complex(Iseq(p), a, padded),
                     p, a, padded, r, start, ps, os, rs)
<1> DEFINE got == vm_yield_setup_block_args_complex(Iseq(p), a, padded)
           from == IF r = 0 THEN p.m + os ELSE p.m + rs + os
           at == IF r = 0 THEN -1 ELSE p.m + p.opt
           posted == Copy(padded, start, padded, from, ps)
           array == ArrayOf(padded, p.m + p.opt, rs)
           written == IF at = -1 THEN posted ELSE [posted EXCEPT ![at] = array]
<1>1. p.m \in Nat /\ p.opt \in Nat /\ p.post \in Nat
  BY BoundAssumption DEF IsParams
<1>2. start \in Nat /\ p.m + p.opt # -1
  BY <1>1
<1>3. /\ Iseq(p).argc = p.m /\ Iseq(p).arg_post_len = p.post /\ Iseq(p).arg_post_start = start
      /\ Iseq(p).arg_rest = at
      /\ Iseq(p).arg_opts = IF p.opt = 0 THEN 0 ELSE p.opt + 1
  <2>1. r = IF p.rest THEN 1 ELSE 0
    BY DEF IsParams
  <2>2. Iseq(p).arg_rest = IF p.rest THEN p.m + p.opt ELSE -1
    BY IseqIs
  <2>3. Iseq(p).arg_rest = at
    <3>1. CASE p.rest
      BY <2>1, <2>2, <3>1
    <3>2. CASE ~p.rest
      BY <2>1, <2>2, <3>2
    <3> QED
      BY <3>1, <3>2
  <2> QED
    BY <2>1, <2>3, IseqIs
<1>4. Most(Iseq(p).arg_opts - 1, 0) = p.opt
  BY <1>1, <1>3 DEF Most
<1>5. CASE r = 0
  <2>1. at = -1 /\ from = p.m + os /\ written = posted
    BY <1>5
  <2>2. got = [mem |-> FillNil(posted, start + ps, start + p.post), opt_pc |-> os]
    BY <2>1, <1>3, <1>4 DEF vm_yield_setup_block_args_complex
  <2> HIDE DEF got, posted, written
  <2>3. got.opt_pc = os /\ got.mem = FillNil(written, start + ps, start + p.post)
    BY <2>1, <2>2
  <2> QED
    <3>1. CopiedTo(posted, padded, start, from, ps)
      BY <1>2, Copied DEF posted
    <3>2. WrittenTo(written, posted, at, array)
      <4>1. DOMAIN posted = Cells
        BY <3>1 DEF CopiedTo
      <4> QED
        BY <4>1, Written DEF written
    <3>3. FilledTo(got.mem, written, start + ps, start + p.post)
      BY <2>3, Filled
    <3> HIDE DEF from, at, array
    <3>4. \E c, w : /\ CopiedTo(c, padded, start, from, ps) /\ WrittenTo(w, c, at, array)
                    /\ FilledTo(got.mem, w, start + ps, start + p.post)
      BY <3>1, <3>2, <3>3
    <3> QED
      BY <2>3, <3>4 DEF from, at, array, got, ComplexMade
<1>6. CASE r = 1
  <2>1. at = p.m + p.opt /\ at # -1 /\ from = p.m + rs + os
    BY <1>2, <1>6
  <2>2. got = [mem |-> FillNil(written, start + ps, start + p.post), opt_pc |-> os]
    BY <2>1, <1>3, <1>4 DEF vm_yield_setup_block_args_complex
  <2> HIDE DEF got, posted, written
  <2>3. got.opt_pc = os /\ got.mem = FillNil(written, start + ps, start + p.post)
    BY <2>2
  <2> QED
    <3>1. CopiedTo(posted, padded, start, from, ps)
      BY <1>2, Copied DEF posted
    <3>2. WrittenTo(written, posted, at, array)
      <4>1. DOMAIN posted = Cells
        BY <3>1 DEF CopiedTo
      <4> QED
        BY <4>1, Written DEF written
    <3>3. FilledTo(got.mem, written, start + ps, start + p.post)
      BY <2>3, Filled
    <3> HIDE DEF from, at, array
    <3>4. \E c, w : /\ CopiedTo(c, padded, start, from, ps) /\ WrittenTo(w, c, at, array)
                    /\ FilledTo(got.mem, w, start + ps, start + p.post)
      BY <3>1, <3>2, <3>3
    <3> QED
      BY <2>3, <3>4 DEF from, at, array, got, ComplexMade
<1> QED
  BY <1>5, <1>6

AllCells(n) == \A i \in Nat : i < n => i \in Cells

\* The cells it leaves are those of the parameters.
LEMMA CellsHold ==
  ASSUME NEW M \in Nat, NEW O \in Nat, NEW P \in Nat, NEW r \in 0 .. 1, NEW a \in Nat,
         NEW N, NEW given, NEW ps, NEW os, NEW rs,
         BlockCountedOut(M, O, P, r, a, N, given, ps, os, rs),
         NEW start \in Nat, start = M + O + r,
         NEW args, Len(args) = a, NEW filled, IsFilled(filled, args, N),
         NEW padded, PaddedAs(padded, args, M), NEW posted, NEW written, NEW mem,
         NEW from, from = IF r = 0 THEN M + os ELSE M + rs + os,
         CopiedTo(posted, padded, start, from, ps),
         WrittenTo(written, posted, IF r = 0 THEN -1 ELSE M + O, ArrayOf(padded, M + O, rs)),
         FilledTo(mem, written, start + ps, start + P),
         AllCells(a), AllCells(M + O + P + 2)
  PROVE  Holds(mem, M, O, P, r, start, given, filled)
<1>1. /\ N \in Nat /\ given \in Nat /\ ps \in Nat /\ os \in Nat /\ rs \in Nat /\ os = given
      /\ given <= O /\ N >= M + P /\ ps <= P
  BY DEF BlockCountedOut
<1>2. from = N - P /\ from \in Nat /\ from >= M + os
  <2>1. CASE r = 0
    BY <1>1, <2>1 DEF BlockCountedOut
  <2>2. CASE r = 1
    BY <1>1, <2>2 DEF BlockCountedOut
  <2> QED
    BY <2>1, <2>2
<1>3. ASSUME NEW i \in Nat, i < N, i < a \/ i < M PROVE padded[i] = filled[i + 1]
  <2>1. i \in Cells
    <3>1. i < a \/ i < M + O + P + 2
      BY <1>3
    <3> QED
      BY <3>1 DEF AllCells
  <2> QED
    BY <1>3, <2>1 DEF PaddedAs, IsFilled
<1>4. ASSUME NEW i \in Cells PROVE
        /\ posted[i] = IF Post(start, ps, i) THEN padded[from + i - start] ELSE padded[i]
        /\ written[i] = IF AtRest(r, M + O, i) THEN ArrayOf(padded, M + O, rs) ELSE posted[i]
        /\ mem[i] = IF start + ps <= i /\ i < start + P THEN nil ELSE written[i]
  <2>1. posted[i] = IF Post(start, ps, i) THEN padded[from + i - start] ELSE padded[i]
    BY DEF CopiedTo
  <2>2. written[i] = IF i = (IF r = 0 THEN -1 ELSE M + O) THEN ArrayOf(padded, M + O, rs)
                     ELSE posted[i]
    BY DEF WrittenTo
  <2>3. i = (IF r = 0 THEN -1 ELSE M + O) <=> AtRest(r, M + O, i)
    <3>1. i \in Nat
      BY DEF Cells
    <3> QED
      BY <3>1 DEF AtRest
  <2>4. mem[i] = IF i \in start + ps .. start + P - 1 THEN nil ELSE written[i]
    BY DEF FilledTo
  <2>5. i \in start + ps .. start + P - 1 <=> start + ps <= i /\ i < start + P
    <3>1. i \in Nat
      BY DEF Cells
    <3> QED
      BY SMTT(30), <3>1, <1>1
  <2> QED
    BY <2>1, <2>2, <2>3, <2>4, <2>5
<1>5. ASSUME NEW i \in Nat, Mandatory(M, given, i) PROVE mem[i] = filled[i + 1]
  <2>1. i < M + given /\ i < start /\ i < N /\ i < M + O
    BY SMTT(30), <1>1, <1>2, <1>5 DEF Mandatory
  <2>2. i < a \/ i < M
    BY <2>1, <1>1, <1>5 DEF BlockCountedOut
  <2>3. i \in Cells
    <3>1. i < M + O + P + 2
      BY <2>1
    <3> QED
      BY <3>1 DEF AllCells
  <2>4. ~Post(start, ps, i) /\ ~AtRest(r, M + O, i) /\ ~(start + ps <= i)
    BY <2>1, <1>1 DEF Post, AtRest
  <2>5. mem[i] = padded[i]
    BY <2>3, <2>4, <1>4
  <2> QED
    BY <2>1, <2>2, <2>5, <1>3
<1>6. ASSUME r = 1 PROVE mem[M + O] = Array(SubSeq(filled, M + given + 1, Len(filled) - P))
  <2>1. mem[M + O] = ArrayOf(padded, M + O, rs)
    <3>1. M + O \in Nat /\ M + O < M + O + P + 2 /\ ~(start + ps <= M + O) /\ AtRest(r, M + O, M + O)
      BY <1>1, <1>6 DEF AtRest
    <3>2. M + O \in Cells
      BY <3>1 DEF AllCells
    <3> QED
      BY <3>1, <3>2, <1>4
  <2>2. Len(filled) - P = M + given + rs /\ Len(filled) = N
    BY <1>1, <1>6 DEF BlockCountedOut, IsFilled
  <2>3. ArrayOf(padded, M + O, rs) = ArrayOf(padded, M + given, rs)
    <3>1. CASE rs > 0
      BY <3>1 DEF BlockCountedOut
    <3>2. CASE rs = 0
      <4>1. \A x : ArrayOf(padded, x, 0) = Array([i \in {} |-> padded[x + i - 1]])
        BY DEF ArrayOf
      <4>2. \A x : [i \in {} |-> padded[x + i - 1]] = [i \in {} |-> nil]
        OBVIOUS
      <4> QED
        BY <3>2, <4>1, <4>2
    <3> QED
      BY <3>1, <3>2, <1>1
  <2>4. ASSUME NEW i \in M + given .. M + given + rs - 1 PROVE padded[i] = filled[i + 1]
    <3>1. i \in Nat /\ rs > 0 /\ i < M + given + rs
      BY <1>1, <2>4
    <3>2. M + os + rs + P <= a
      BY <3>1 DEF BlockCountedOut
    <3>3. i < a /\ i < N
      BY SMTT(30), <3>1, <3>2, <1>1, <2>2
    <3> QED
      BY <3>1, <3>3, <1>3
  <2>5. PICK T : filled \in Seq(T)
    BY DEF IsFilled
  <2>6. M + given \in Nat /\ M + given + rs <= Len(filled)
    BY <1>1, <2>2
  <2>7. ArrayOf(padded, M + given, rs) = Array(SubSeq(filled, M + given + 1, M + given + rs))
    <3>1. PICK first : first = M + given
      OBVIOUS
    <3>2. first \in Nat /\ first + rs <= Len(filled)
      BY <3>1, <2>6
    <3>3. \A i \in first .. first + rs - 1 : padded[i] = filled[i + 1]
      BY <3>1, <2>4
    <3>4. ArrayOf(padded, first, rs) = Array(SubSeq(filled, first + 1, first + rs))
      BY SMTT(30), <3>2, <3>3, <1>1, <2>5, ArrayIs
    <3> QED
      BY <3>1, <3>4
  <2> QED
    BY <2>1, <2>2, <2>3, <2>7
<1>7. ASSUME NEW i \in Nat, Post(start, P, i)
      PROVE  mem[i] = filled[Len(filled) - P + i - start + 1]
  <2>1. PICK j \in Nat : j < P /\ i = start + j
    <3>1. i - start \in Nat /\ i - start < P /\ i = start + (i - start)
      BY <1>7 DEF Post
    <3> QED
      BY <3>1
  <2>2. Len(filled) - P + i - start + 1 = (from + j) + 1 /\ from + j \in Nat /\ from + j < N
        /\ from + i - start = from + j
    <3>1. Len(filled) = N
      BY DEF IsFilled
    <3>2. from = N - P /\ N \in Nat /\ from \in Nat
      BY <1>1, <1>2
    <3>3. N - P + i - start + 1 = (from + j) + 1 /\ from + i - start = from + j
      BY SMTT(30), <2>1, <3>2
    <3>4. from + j \in Nat /\ from + j < N
      <4>1. PICK d \in Nat : d = N - P
        BY <3>2
      <4>2. N = d + P /\ from = d
        BY <4>1, <3>2
      <4> QED
        BY SMTT(30), <4>2, <2>1
    <3> QED
      BY <3>1, <3>3, <3>4
  <2>3. i \in Cells /\ ~AtRest(r, M + O, i)
    <3>1. i < M + O + P + 2 /\ i >= start
      BY <2>1
    <3>2. ~AtRest(r, M + O, i)
      BY <3>1 DEF AtRest
    <3> QED
      BY <3>1, <3>2 DEF AllCells
  <2>4. CASE j < ps
    <3>1. Post(start, ps, i) /\ ~(start + ps <= i)
      BY <2>1, <2>4, <1>1 DEF Post
    <3>2. mem[i] = padded[from + j]
      BY <3>1, <2>2, <2>3, <1>4
    <3>3. from + j < a
      <4>1. ps > 0 /\ M + os + rs + ps <= a
        BY <2>1, <2>4, <1>1 DEF BlockCountedOut
      <4>2. from <= M + os + rs
        BY <1>1
      <4> QED
        BY <4>1, <4>2, <2>4, <1>1, <1>2
    <3> QED
      BY <3>2, <3>3, <2>2, <1>3
  <2>5. CASE j >= ps
    <3>1. start + ps <= i /\ i < start + P
      BY <2>1, <2>5, <1>1
    <3>2. mem[i] = nil
      BY <3>1, <2>3, <1>4
    <3>3. ps < P
      BY <2>1, <2>5, <1>1
    <3>4. N = M + P /\ a <= M + ps
      BY <3>3 DEF BlockCountedOut
    <3>5. ~(from + j < a)
      BY <3>4, <2>1, <2>5, <1>1, <1>2
    <3>6. filled[(from + j) + 1] = ValueOf(args, from + j)
      BY <2>2 DEF IsFilled
    <3> QED
      BY <3>2, <3>5, <3>6, <2>2 DEF ValueOf
  <2> QED
    BY <2>1, <2>4, <2>5, <1>1
<1>8. DOMAIN mem = Cells
  BY DEF FilledTo
<1> QED
  BY <1>5, <1>6, <1>7, <1>8 DEF Holds

LEMMA ComplexHolds ==
  ASSUME NEW p, IsParams(p), p.post > 0 \/ p.opt > 0,
         NEW S, NEW args \in Seq(S), Len(args) <= 2 * MaxArgs,
         NEW padded, PaddedAs(padded, args, p.m),
         NEW r \in 0 .. 1, r = 1 => p.rest, r = 0 => ~p.rest
  PROVE  LET got == vm_yield_setup_block_args_complex(Iseq(p), Len(args), padded)
             filled == FilledUp(p, args)
             given == Least(p.opt, Len(filled) - p.m - p.post)
         IN /\ got.opt_pc = given /\ given \in Nat /\ given <= p.opt
            /\ Holds(got.mem, p.m, p.opt, p.post, r, p.m + p.opt + r, given, filled)
<1> DEFINE M == p.m
           O == p.opt
           P == p.post
           a == Len(args)
           got == vm_yield_setup_block_args_complex(Iseq(p), a, padded)
           filled == FilledUp(p, args)
           N == FilledLength(M, O, P, r, a)
           given == Least(O, Len(filled) - M - P)
           start == M + O + r
           l == Most(a - M, 0)
           ps == Least(l, P)
           os == Least(l - ps, O)
           rs == l - ps - os
<1>1. /\ M \in Nat /\ O \in Nat /\ P \in Nat /\ a \in Nat
      /\ \A i \in Nat : i < a \/ i < M + O + P + 2 => i \in Cells
  BY OnStack
<1>2. AllCells(a) /\ AllCells(M + O + P + 2)
  BY <1>1 DEF AllCells
<1>3. IsFilled(filled, args, N)
  <2>1. r = 0 <=> ~p.rest
    OBVIOUS
  <2> QED
    BY <2>1, FilledUpIs
<1>4. BlockCountedOut(M, O, P, r, a, N, given, ps, os, rs)
  <2>1. given = Least(O, N - M - P)
    BY <1>3 DEF IsFilled
  <2> HIDE DEF M, O, P, a, N, given, ps, os, rs, l
  <2>2. l = Most(a - M, 0) /\ ps = Least(l, P) /\ os = Least(l - ps, O) /\ rs = l - ps - os
        /\ N = FilledLength(M, O, P, r, a)
    BY DEF l, ps, os, rs, N
  <2> QED
    BY <1>1, <2>1, <2>2, BlockCounted
<1>5. given \in Nat /\ given <= O /\ given = os /\ ps \in Nat
  <2> HIDE DEF M, O, P, a, N, given, ps, os, rs
  <2> QED
    BY <1>4 DEF BlockCountedOut
<1>6. ComplexMade(got, p, a, padded, r, start, ps, os, rs)
  <2>1. DOMAIN padded = Cells
    BY DEF PaddedAs
  <2> HIDE DEF a, start, l, ps, os, rs
  <2>2. l = Most(a - p.m, 0) /\ ps = Least(l, p.post) /\ os = Least(l - ps, p.opt)
        /\ rs = l - ps - os /\ start = p.m + p.opt + r
    BY DEF l, ps, os, rs, start
  <2> QED
    BY <1>1, <1>5, <2>1, <2>2, ComplexIs
<1>7. start \in Nat
  BY <1>1
<1> HIDE DEF M, O, P, a, N, given, ps, os, rs, l, start, got, filled
<1>8. got.opt_pc = given
  BY <1>5, <1>6 DEF ComplexMade
<1>9. Holds(got.mem, M, O, P, r, start, given, filled)
  <2> DEFINE from == IF r = 0 THEN M + os ELSE M + rs + os
             at == IF r = 0 THEN -1 ELSE M + O
  <2>1. PICK posted, written :
          /\ CopiedTo(posted, padded, start, from, ps)
          /\ WrittenTo(written, posted, at, ArrayOf(padded, M + O, rs))
          /\ FilledTo(got.mem, written, start + ps, start + P)
    BY <1>6 DEF ComplexMade, M, O, P
  <2>2. PaddedAs(padded, args, M) /\ Len(args) = a /\ start = M + O + r
    BY DEF M, a, start, O
  <2> QED
    BY <1>1, <1>2, <1>3, <1>4, <1>7, <2>1, <2>2, CellsHold
<1> QED
  BY <1>5, <1>8, <1>9 DEF M, O, P, a, given, start, got, filled

\* No optional and no post parameters: the mandatory ones, and the rest.
LEMMA NothingGiven ==
  ASSUME NEW p, IsParams(p), p.opt = 0, p.post = 0, NEW S, NEW args \in Seq(S),
         Len(args) <= 2 * MaxArgs, NEW padded, PaddedAs(padded, args, p.m),
         NEW r \in 0 .. 1, r = 1 => p.rest, r = 0 => ~p.rest
  PROVE  LET filled == FilledUp(p, args)
             N == Len(filled)
         IN /\ Least(p.opt, N - p.m - p.post) = 0
            /\ IsFilled(filled, args, N) /\ N >= p.m
            /\ r = 1 => N = Most(Len(args), p.m)
            /\ \A i \in Nat : i < p.m => i \in Cells /\ padded[i] = filled[i + 1]
<1> DEFINE filled == FilledUp(p, args)
           N == FilledLength(p.m, 0, 0, r, Len(args))
<1>1. /\ p.m \in Nat /\ Len(args) \in Nat
      /\ \A i \in Nat : i < Len(args) \/ i < p.m + p.opt + p.post + 2 => i \in Cells
  BY OnStack
<1>2. IsFilled(filled, args, N)
  <2>1. r = 0 <=> ~p.rest
    OBVIOUS
  <2> QED
    BY <2>1, FilledUpIs
<1>3. N \in Nat /\ N >= p.m /\ (r = 1 => N = Most(Len(args), p.m))
  <2>1. CASE r = 1
    <3>1. CutLength(p.m, 0, 0, r, Len(args)) = Len(args)
      BY <2>1 DEF CutLength
    <3> QED
      BY <1>1, <3>1, <2>1 DEF FilledLength, Most
  <2>2. CASE r = 0
    <3>1. CutLength(p.m, 0, 0, r, Len(args)) \in Nat
      BY <1>1 DEF CutLength
    <3> QED
      BY <1>1, <3>1, <2>2 DEF FilledLength, Most
  <2> QED
    BY <2>1, <2>2
<1> HIDE DEF N, filled
<1>4. Len(filled) = N
  BY <1>2 DEF IsFilled
<1>5. Least(0, N - p.m - 0) = 0
  <2>1. N - p.m - 0 \in Nat
    BY <1>1, <1>3
  <2> QED
    BY <2>1, LeastMost
<1>6. ASSUME NEW i \in Nat, i < p.m PROVE i \in Cells /\ padded[i] = filled[i + 1]
  <2>1. i < N /\ i < p.m + 0 + 0 + 2
    BY <1>1, <1>3, <1>6
  <2>2. i \in Cells
    BY <2>1, <1>1
  <2>3. padded[i] = ValueOf(args, i)
    BY <2>2, <1>6 DEF PaddedAs
  <2> QED
    BY <2>1, <2>2, <2>3, <1>2 DEF IsFilled
<1> QED
  BY <1>2, <1>3, <1>4, <1>5, <1>6 DEF filled

LEMMA PlainHolds ==
  ASSUME NEW p, IsParams(p), p.opt = 0, p.post = 0, ~p.rest, NEW S, NEW args \in Seq(S),
         Len(args) <= 2 * MaxArgs, NEW padded, PaddedAs(padded, args, p.m)
  PROVE  Holds(padded, p.m, p.opt, p.post, 0, p.m + p.opt + 0, 0, FilledUp(p, args))
<1>1. p.m \in Nat
  BY OnStack
<1>2. \A i \in Nat : i < p.m => padded[i] = FilledUp(p, args)[i + 1]
  <2>1. 0 \in 0 .. 1 /\ (0 = 1 => p.rest) /\ (0 = 0 => ~p.rest)
    OBVIOUS
  <2> QED
    BY <2>1, NothingGiven
<1>3. \A i \in Nat : (Mandatory(p.m, 0, i) <=> i < p.m) /\ ~Post(p.m + p.opt + 0, p.post, i)
  BY <1>1 DEF Mandatory, Post
<1>4. DOMAIN padded = Cells
  BY DEF PaddedAs
<1> QED
  BY <1>2, <1>3, <1>4 DEF Holds

LEMMA RestHolds ==
  ASSUME NEW p, IsParams(p), p.opt = 0, p.post = 0, p.rest, NEW S, NEW args \in Seq(S),
         Len(args) <= 2 * MaxArgs, NEW padded, PaddedAs(padded, args, p.m), NEW mem,
         mem = IF Len(args) < p.m
               THEN [FillNil(padded, Len(args), p.m) EXCEPT ![p.m] = Array(<<>>)]
               ELSE [padded EXCEPT ![p.m] = ArrayOf(padded, p.m, Len(args) - p.m)]
  PROVE  Holds(mem, p.m, p.opt, p.post, 1, p.m + p.opt + 1, 0, FilledUp(p, args))
<1> DEFINE filled == FilledUp(p, args)
           a == Len(args)
           M == p.m
<1>1. /\ M \in Nat /\ a \in Nat
      /\ \A i \in Nat : i < a \/ i < p.m + p.opt + p.post + 2 => i \in Cells
  BY OnStack
<1>2. /\ IsFilled(filled, args, Len(filled)) /\ Len(filled) = Most(a, M)
      /\ \A i \in Nat : i < M => i \in Cells /\ padded[i] = filled[i + 1]
  <2>1. 1 \in 0 .. 1 /\ (1 = 1 => p.rest) /\ (1 = 0 => ~p.rest)
    OBVIOUS
  <2> QED
    BY <2>1, NothingGiven
<1>3. M \in Cells
  <2>1. M < p.m + 0 + 0 + 2
    BY <1>1
  <2> QED
    BY <2>1, <1>1
<1> HIDE DEF filled
<1>4. PICK T : filled \in Seq(T)
  BY <1>2 DEF IsFilled
<1>5. DOMAIN padded = Cells
  BY DEF PaddedAs
<1>6. /\ DOMAIN mem = Cells
      /\ \A i \in Nat : i < M => mem[i] = filled[i + 1]
      /\ mem[M] = Array(SubSeq(filled, M + 0 + 1, Len(filled) - 0))
  <2>1. CASE a < M
    <3>1. mem = [FillNil(padded, a, M) EXCEPT ![M] = Array(<<>>)]
      BY <2>1
    <3>2. FilledTo(FillNil(padded, a, M), padded, a, M)
      BY Filled
    <3>3. DOMAIN mem = Cells /\ mem[M] = Array(<<>>)
          /\ \A i \in Cells : i # M => mem[i] = FillNil(padded, a, M)[i]
      BY <1>3, <3>1, <3>2 DEF FilledTo
    <3>4. ASSUME NEW i \in Nat, i < M PROVE mem[i] = filled[i + 1]
      <4>1. i \in Cells /\ i # M /\ padded[i] = filled[i + 1]
        BY <1>1, <1>2, <3>4
      <4>2. mem[i] = IF i \in a .. M - 1 THEN nil ELSE padded[i]
        BY <4>1, <3>2, <3>3 DEF FilledTo
      <4>3. i \in a .. M - 1 => padded[i] = nil
        <5>1. padded[i] = ValueOf(args, i)
          BY <4>1, <3>4 DEF PaddedAs
        <5>2. i \in a .. M - 1 => ~(i < a)
          BY <1>1
        <5> QED
          BY <5>1, <5>2 DEF ValueOf
      <4> QED
        BY <4>1, <4>2, <4>3
    <3>5. SubSeq(filled, M + 0 + 1, Len(filled) - 0) = <<>>
      <4>1. Len(filled) = M
        BY <1>1, <1>2, <2>1 DEF Most
      <4>2. M + 0 + 1 > Len(filled) - 0
        BY <1>1, <4>1
      <4>3. \A i \in M + 0 + 1 .. Len(filled) - 0 : filled[i] \in T
        BY <1>1, <4>1
      <4>4. /\ SubSeq(filled, M + 0 + 1, Len(filled) - 0) \in Seq(T)
            /\ Len(SubSeq(filled, M + 0 + 1, Len(filled) - 0)) = 0
        BY <1>1, <4>1, <4>2, <4>3, SubSeqProperties
      <4> QED
        BY <4>4, EmptySeq
    <3> QED
      BY <3>3, <3>4, <3>5
  <2>2. CASE a >= M
    <3>1. mem = [padded EXCEPT ![M] = ArrayOf(padded, M, a - M)]
      <4>1. ~(a < M)
        BY <1>1, <2>2
      <4> QED
        BY <4>1
    <3>2. DOMAIN mem = Cells /\ mem[M] = ArrayOf(padded, M, a - M)
          /\ \A i \in Cells : i # M => mem[i] = padded[i]
      BY <1>3, <1>5, <3>1
    <3>3. ASSUME NEW i \in Nat, i < M PROVE mem[i] = filled[i + 1]
      <4>1. i \in Cells /\ i # M /\ padded[i] = filled[i + 1]
        BY <1>1, <1>2, <3>3
      <4> QED
        BY <4>1, <3>2
    <3>4. ArrayOf(padded, M, a - M) = Array(SubSeq(filled, M + 1, M + (a - M)))
      <4>1. a - M \in Nat /\ Len(filled) = a /\ M + (a - M) <= Len(filled)
        BY <1>1, <1>2, <2>2 DEF Most
      <4>2. ASSUME NEW i \in M .. M + (a - M) - 1 PROVE padded[i] = filled[i + 1]
        <5>1. i \in Nat /\ i < a
          BY <1>1, <4>2
        <5>2. i \in Cells
          BY <5>1, <1>1
        <5> QED
          BY <5>1, <5>2, <4>1, <1>2 DEF PaddedAs, IsFilled
      <4> DEFINE k == a - M
      <4>3. k \in Nat /\ M + k <= Len(filled) /\ M \in Nat
            /\ \A i \in M .. M + k - 1 : padded[i] = filled[i + 1]
        BY <1>1, <4>1, <4>2
      <4> HIDE DEF k, M
      <4>4. ArrayOf(padded, M, k) = Array(SubSeq(filled, M + 1, M + k))
        BY <1>4, <4>3, ArrayIs
      <4> QED
        BY <4>4 DEF k
    <3>5. M + (a - M) = Len(filled) - 0 /\ M + 1 = M + 0 + 1
      BY <1>1, <1>2, <2>2 DEF Most
    <3> QED
      BY <3>2, <3>3, <3>4, <3>5
  <2> QED
    BY <1>1, <2>1, <2>2
<1>7. \A i \in Nat : (Mandatory(M, 0, i) <=> i < M) /\ ~Post(p.m + p.opt + 1, p.post, i)
  BY <1>1 DEF Mandatory, Post
<1>8. p.m + p.opt = M
  BY <1>1
<1> QED
  BY <1>6, <1>7, <1>8 DEF Holds, filled

\* The arguments after one array has been taken apart, on the stack.
LEMMA PaddedIs ==
  ASSUME NEW S, NEW args \in Seq(S), NEW M \in Nat,
         NEW argv, \A i \in Cells : i < Len(args) => argv[i] = args[i + 1]
  PROVE  PaddedAs(FillNil(argv, Len(args), M), args, M)
<1> DEFINE a == Len(args)
           padded == FillNil(argv, a, M)
<1>1. FilledTo(padded, argv, a, M)
  BY Filled
<1> HIDE DEF padded
<1>2. ASSUME NEW i \in Cells, i < a \/ i < M PROVE padded[i] = ValueOf(args, i)
  <2>1. i \in Nat /\ a \in Nat
    BY DEF Cells
  <2>2. CASE i < a
    <3>1. i \notin a .. M - 1
      BY <2>1, <2>2
    <3> QED
      BY <3>1, <2>2, <1>1 DEF FilledTo, ValueOf
  <2>3. CASE ~(i < a)
    <3>1. padded[i] = IF i \in a .. M - 1 THEN nil ELSE argv[i]
      BY <1>1 DEF FilledTo
    <3>2. i \in a .. M - 1
      BY <2>1, <2>3, <1>2
    <3> QED
      BY <3>1, <3>2, <2>3 DEF ValueOf
  <2> QED
    BY <2>2, <2>3
<1> QED
  BY <1>1, <1>2 DEF PaddedAs, FilledTo, padded

IsAlone(p) == p.m = 1 /\ p.opt = 0 /\ p.post = 0 /\ ~p.rest /\ ~p.comma
TakenApart(p, list) ==
  IF Len(list) = 1 /\ IsArray(list[1]) /\ ~IsAlone(p) /\ p.m + p.post > 0 THEN list[1][2] ELSE list

\* vm_yield_setup_block_args binds what is left when the list has been taken apart,
\* cut and filled up.
LEMMA BlockIs ==
  ASSUME NEW p, IsParams(p), NEW S, NEW list \in Seq(S), Len(list) <= 2 * MaxArgs,
         Len(list) = 1 => Fits(list[1]), NEW b
  PROVE  Agrees(vm_yield_setup_block_args(Iseq(p), Len(list), StackOf(list), b), p,
                Parameters(p, FilledUp(p, TakenApart(p, list)), BlockValue(b)))
<1> DEFINE args == TakenApart(p, list)
           filled == FilledUp(p, args)
           iseq == Iseq(p)
           orig == StackOf(list)
           elements == orig[0][2]
           spread == Spreads(iseq, Len(list), orig)
           argc == IF spread THEN Len(elements) ELSE Len(list)
           argv == IF spread
                   THEN [i \in Cells |-> IF i < argc THEN elements[i + 1] ELSE orig[i]]
                   ELSE orig
           r == iseq.arg_rest
           padded == FillNil(argv, argc, iseq.argc)
           rested == IF argc < r
                     THEN [FillNil(padded, argc, r) EXCEPT ![r] = Array(<<>>)]
                     ELSE [padded EXCEPT ![r] = ArrayOf(padded, r, argc - r)]
           set == CASE r = -1 /\ iseq.arg_opts = 0 -> [mem |-> padded, opt_pc |-> 0]
                    [] iseq.arg_post_len > 0 \/ iseq.arg_opts > 0 ->
                         vm_yield_setup_block_args_complex(iseq, argc, padded)
                    [] OTHER -> [mem |-> rested, opt_pc |-> 0]
           blocked == IF iseq.arg_block = -1 THEN set.mem
                      ELSE [set.mem EXCEPT ![iseq.arg_block] = BlockValue(b)]
           got == vm_yield_setup_block_args(iseq, Len(list), orig, b)
           expected == Parameters(p, filled, BlockValue(b))
           rst == IF p.rest THEN 1 ELSE 0
           given == Least(p.opt, Len(filled) - p.m - p.post)
<1>1. got = Bound(blocked, iseq, set.opt_pc)
  BY DEF vm_yield_setup_block_args
<1>2. /\ p.m \in Nat /\ p.opt \in Nat /\ p.post \in Nat /\ p.rest \in BOOLEAN /\ Len(list) \in Nat
      /\ p.post > 0 => p.rest \/ p.opt > 0
  BY OnStack
<1>3. \A i \in Nat : i < Len(list) \/ i < p.m + p.opt + p.post + 2 => i \in Cells
  BY OnStack
<1>4. /\ iseq.argc = p.m /\ iseq.arg_post_len = p.post
      /\ iseq.arg_opts = (IF p.opt = 0 THEN 0 ELSE p.opt + 1)
      /\ r = (IF p.rest THEN p.m + p.opt ELSE -1)
  BY IseqIs
<1>5. iseq.alone <=> IsAlone(p)
  <2>1. iseq.alone <=> p.opt = 0 /\ ~p.rest /\ p.post = 0 /\ p.m = 1 /\ ~p.comma
    BY IseqIs
  <2> QED
    BY <2>1 DEF IsAlone
<1>6. Len(list) > 0 => orig[0] = list[1]
  <2>1. 0 \in Nat /\ 0 \in Cells
    BY <1>2, <1>3
  <2> QED
    BY <2>1 DEF StackOf
<1> HIDE DEF iseq, orig
<1>7. spread <=> Len(list) = 1 /\ IsArray(list[1]) /\ ~IsAlone(p) /\ p.m + p.post > 0
  <2>1. Len(list) = 1 => orig[0] = list[1]
    BY <1>2, <1>6
  <2> QED
    BY <2>1, <1>4, <1>5 DEF Spreads
<1>8. argc = Len(args) /\ (\E T : args \in Seq(T)) /\ Len(args) <= 2 * MaxArgs
      /\ \A i \in Cells : i < Len(args) => argv[i] = args[i + 1]
  <2>1. CASE spread
    <3>1. args = list[1][2] /\ args = elements /\ IsArray(list[1]) /\ Len(list) = 1
      <4> HIDE DEF spread
      <4>1. Len(list) = 1 /\ IsArray(list[1]) /\ ~IsAlone(p) /\ p.m + p.post > 0
        BY <2>1, <1>7
      <4>2. orig[0] = list[1]
        BY <4>1, <1>6
      <4>3. args = list[1][2]
        BY <4>1 DEF TakenApart
      <4> QED
        BY <4>1, <4>2, <4>3
    <3>2. IsList(args) /\ Len(args) <= MaxArgs
      BY <3>1 DEF Fits
    <3>3. PICK T : args \in Seq(T)
      BY <3>2 DEF IsList
    <3>4. Len(args) <= 2 * MaxArgs
      <4>1. Len(args) \in Nat /\ MaxArgs \in Nat
        BY <3>3, BoundAssumption
      <4> QED
        BY <3>2, <4>1
    <3> HIDE DEF args, elements, spread
    <3>5. argc = Len(args)
      BY <2>1, <3>1
    <3> HIDE DEF argc
    <3>6. \A i \in Cells : i < Len(args) => argv[i] = args[i + 1]
      BY <2>1, <3>1, <3>5
    <3> QED
      BY <3>3, <3>4, <3>5, <3>6
  <2>2. CASE ~spread
    <3>1. args = list
      BY <2>2, <1>7 DEF TakenApart
    <3>2. argc = Len(list) /\ argv = orig
      BY <2>2
    <3> QED
      BY <3>1, <3>2 DEF orig, StackOf
  <2> QED
    BY <2>1, <2>2
<1>9. PICK T : args \in Seq(T)
  BY <1>8
<1> HIDE DEF args, argc, argv, elements, spread
<1>10. PaddedAs(padded, args, p.m)
  BY <1>2, <1>4, <1>8, <1>9, PaddedIs
<1> HIDE DEF padded
<1>11. rst \in 0 .. 1 /\ (rst = 1 => p.rest) /\ (rst = 0 => ~p.rest)
  BY <1>2
<1>12. /\ set.opt_pc = given /\ given \in Nat /\ given <= p.opt
       /\ Holds(set.mem, p.m, p.opt, p.post, rst, p.m + p.opt + rst, given, filled)
  <2>1. CASE ~p.rest /\ p.opt = 0
    <3>1. p.post = 0
      BY <1>2, <2>1
    <3>2. r = -1 /\ iseq.arg_opts = 0 /\ rst = 0
      BY <1>4, <2>1
    <3>3. set = [mem |-> padded, opt_pc |-> 0]
      BY <3>1, <3>2, <1>4
    <3>4. given = 0
      BY <1>8, <1>9, <1>10, <1>11, <2>1, <3>1, NothingGiven
    <3>5. Holds(padded, p.m, p.opt, p.post, 0, p.m + p.opt + 0, 0, filled)
      BY <1>8, <1>9, <1>10, <2>1, <3>1, PlainHolds
    <3> HIDE DEF set, given, filled, rst
    <3> QED
      BY <3>2, <3>3, <3>4, <3>5, <1>2
  <2>2. CASE p.post > 0 \/ p.opt > 0
    <3>1. set = vm_yield_setup_block_args_complex(iseq, argc, padded)
      <4>1. iseq.arg_post_len > 0 \/ iseq.arg_opts > 0
        BY <1>2, <1>4, <2>2
      <4>2. ~(r = -1 /\ iseq.arg_opts = 0)
        <5>1. p.opt > 0 => iseq.arg_opts # 0
          BY <1>2, <1>4
        <5>2. p.rest => r # -1
          BY <1>2, <1>4
        <5> QED
          BY <5>1, <5>2, <1>2, <2>2
      <4> QED
        BY <4>1, <4>2
    <3> HIDE DEF set, rst
    <3> QED
      BY <1>8, <1>9, <1>10, <1>11, <2>2, <3>1, ComplexHolds DEF iseq
  <2>3. CASE p.rest /\ p.post = 0 /\ p.opt = 0
    <3>1. r = p.m /\ r # -1 /\ iseq.arg_opts = 0 /\ iseq.arg_post_len = 0 /\ rst = 1
      BY <1>2, <1>4, <2>3
    <3>2. set = [mem |-> rested, opt_pc |-> 0]
      BY <3>1
    <3>3. given = 0
      BY <1>8, <1>9, <1>10, <1>11, <2>3, NothingGiven
    <3>4. rested = IF Len(args) < p.m
                   THEN [FillNil(padded, Len(args), p.m) EXCEPT ![p.m] = Array(<<>>)]
                   ELSE [padded EXCEPT ![p.m] = ArrayOf(padded, p.m, Len(args) - p.m)]
      BY <3>1, <1>8
    <3> HIDE DEF rested, set, given, filled, rst
    <3>5. Holds(rested, p.m, p.opt, p.post, 1, p.m + p.opt + 1, 0, filled)
      BY <1>8, <1>9, <1>10, <2>3, <3>4, RestHolds DEF filled
    <3> QED
      BY <3>1, <3>2, <3>3, <3>5, <1>2
  <2>4. p.opt = 0 \/ p.opt > 0
    BY <1>2
  <2>5. p.post = 0 \/ p.post > 0
    BY <1>2
  <2> QED
    BY <2>1, <2>2, <2>3, <2>4, <2>5
<1>13. \E F : filled \in Seq(F)
  <2>1. rst = 0 <=> ~p.rest
    BY <1>11
  <2> QED
    BY <2>1, <1>9, <1>11, FilledUpIs DEF IsFilled
<1>14. PICK F : filled \in Seq(F)
  BY <1>13
<1> HIDE DEF set, filled, rst
<1>15. Agrees(Bound(blocked, iseq, given), p, expected)
  <2> DEFINE start == p.m + p.opt + rst
             mem == set.mem
  <2>1. given = Least(p.opt, Len(filled) - p.m - p.post) /\ start = p.m + p.opt + rst
    OBVIOUS
  <2>2. Holds(mem, p.m, p.opt, p.post, rst, start, given, filled)
    BY <1>12
  <2>3. blocked = IF Iseq(p).arg_block = -1 THEN mem
                  ELSE [mem EXCEPT ![Iseq(p).arg_block] = BlockValue(b)]
    BY DEF iseq
  <2> HIDE DEF mem, start, given
  <2> QED
    BY <1>11, <1>12, <1>14, <2>1, <2>2, <2>3, HeldBinds DEF iseq
<1> HIDE DEF blocked, given
<1>16. Agrees(got, p, expected)
  BY <1>1, <1>12, <1>15
<1> QED
  BY <1>16 DEF iseq, orig, filled, args

\* The one argument of a block can be taken apart.
LEMMA OneFits ==
  ASSUME IsCall(call), call.kind # "assign", Len(Delivered) = 1
  PROVE  Fits(Delivered[1])
<1> DEFINE args == call.args
           last == args[Len(args)]
           front == SubSeq(args, 1, Len(args) - 1)
<1>1. PICK S : args \in Seq(S)
  BY DEF IsCall, IsList
<1>2. Len(args) \in Nat /\ DOMAIN args = 1 .. Len(args) /\ \A i \in 1 .. Len(args) : args[i] \in S
  BY <1>1
<1>3. \A i \in 1 .. Len(args) : Fits(args[i])
  BY <1>2 DEF IsCall
<1>4. CASE Delivered = args
  <2>1. 1 \in 1 .. Len(args)
    BY <1>2, <1>4
  <2> QED
    BY <2>1, <1>3, <1>4
<1>5. CASE Delivered # args
  <2>1. "SPLAT" \in call.flag
    BY <1>5 DEF Delivered
  <2>2. args # <<>> /\ Len(args) # 0 /\ Len(args) \in 1 .. Len(args)
    <3>1. args # <<>>
      BY <2>1 DEF IsCall
    <3> QED
      BY <3>1, <1>1, <1>2, EmptySeq
  <2>3. /\ front \in Seq(S) /\ Len(front) = Len(args) - 1
        /\ \A i \in 1 .. Len(args) - 1 : front[i] = args[i]
    BY <1>1, <2>2, FrontIs
  <2>4. CASE Delivered = front
    <3>1. 1 \in 1 .. Len(args) - 1 /\ 1 \in 1 .. Len(args)
      BY <1>2, <2>2, <2>3, <2>4
    <3>2. front[1] = args[1]
      BY <3>1, <2>3
    <3> QED
      BY <3>1, <3>2, <1>3, <2>4
  <2>5. CASE Delivered # front
    <3>1. IsArray(last) /\ Delivered = front \o last[2]
      <4>1. Delivered = CASE last = nil -> front
                          [] IsArray(last) -> front \o last[2]
                          [] OTHER -> args
        BY <2>1 DEF Delivered
      <4>2. last = nil => ~IsArray(last)
        BY DEF IsArray, nil
      <4> HIDE DEF front, last, args
      <4>3. last # nil
        BY <4>1, <4>2, <2>5
      <4>4. IsArray(last)
        BY <4>1, <4>2, <4>3, <1>5
      <4> QED
        BY <4>1, <4>3, <4>4
    <3>2. /\ IsList(last[2])
          /\ \A j \in DOMAIN last[2] : Fits(last[2][j])
      BY <1>2, <2>2, <3>1 DEF IsCall, Fits
    <3>3. PICK T : last[2] \in Seq(T)
      BY <3>2 DEF IsList
    <3>4. front \in Seq(S \cup T) /\ last[2] \in Seq(S \cup T)
      BY <2>3, <3>3
    <3>5. /\ Len(Delivered) = Len(front) + Len(last[2])
          /\ \A i \in 1 .. Len(front) + Len(last[2]) : Delivered[i] =
               IF i <= Len(front) THEN front[i] ELSE last[2][i - Len(front)]
      BY <3>1, <3>4, ConcatProperties
    <3>6. Len(front) \in Nat /\ Len(last[2]) \in Nat /\ DOMAIN last[2] = 1 .. Len(last[2])
      BY <3>4
    <3> HIDE DEF front, last, args
    <3>7. CASE Len(front) = 0
      <4>1. Len(last[2]) = 1
        BY <3>5, <3>6, <3>7
      <4>2. Delivered[1] = last[2][1]
        <5>1. 1 \in 1 .. Len(front) + Len(last[2]) /\ ~(1 <= Len(front)) /\ 1 - Len(front) = 1
          BY <3>7, <4>1
        <5> QED
          BY <5>1, <3>5
      <4> QED
        BY <4>1, <4>2, <3>2, <3>6
    <3>8. CASE Len(front) # 0
      <4>1. 1 \in 1 .. Len(front) + Len(last[2]) /\ 1 <= Len(front) /\ 1 \in 1 .. Len(args) - 1
            /\ 1 \in 1 .. Len(args)
        BY <3>6, <3>8, <2>3, <1>2
      <4>2. Delivered[1] = front[1] /\ front[1] = args[1]
        BY <4>1, <3>5, <2>3
      <4> QED
        BY <4>1, <4>2, <1>3
    <3> QED
      BY <3>7, <3>8
  <2> QED
    BY <2>4, <2>5
<1> QED
  BY <1>4, <1>5

LEMMA BlockBinds ==
  ASSUME IsCall(call), EndsWell
  PROVE  BlockBindsCutAndFilled
<1> SUFFICES ASSUME pc = "done", call.kind = "yield"
             PROVE  Agrees(outcome, call.params,
                           Parameters(call.params, FilledUp(call.params, TakenApart(call.params, Delivered)),
                                      BlockOf(call.blockarg)))
  BY DEF BlockBindsCutAndFilled, FilledUp, CutTo, TakenApart, IsAlone
<1>1. outcome = vm_yield_setup_block_args(Iseq(call.params), Len(Delivered), StackOf(Delivered), Passed)
  BY DEF EndsWell, Results, Given
<1>2. IsParams(call.params) /\ call.kind # "assign"
  BY DEF IsCall
<1>3. PICK S : Delivered \in Seq(S)
  BY <1>2, SetupDelivers
<1>4. Len(Delivered) <= 2 * MaxArgs /\ (Len(Delivered) = 1 => Fits(Delivered[1]))
  BY <1>2, DeliveredFits, OneFits
<1> QED
  BY <1>1, <1>2, <1>3, <1>4, BlockIs, PassedIs

-----------------------------------------------------------------------------
(* What the outcome has in it.                                             *)

\* A method or a lambda gets every argument exactly once, in the parameter the
\* declaration gives it, whatever the splat made of the stack, or raises with the
\* number it expects (vm_callee_setup_arg, vm_callee_setup_arg_complex).
THEOREM CallsBindAsDeclared == Spec => []CallBindsAsDeclared
<1>1. IInv /\ EndsWell => CallBindsAsDeclared
  BY CallBinds DEF IInv
<1> QED
  BY <1>1, InitCalls, NextCalls, PTL DEF Spec

\* A block gets what a method would get from the list that has been taken apart,
\* cut and filled up with nils (vm_yield_setup_block_args and its complex case).
THEOREM BlocksBindCutAndFilled == Spec => []BlockBindsCutAndFilled
<1>1. IInv /\ EndsWell => BlockBindsCutAndFilled
  BY BlockBinds DEF IInv
<1> QED
  BY <1>1, InitCalls, NextCalls, PTL DEF Spec

\* A C function gets all the arguments in the form its arity asks for, or raises; a
\* block written in C gets the first one, or all (call_cfunc, vm_yield_with_cfunc).
THEOREM CCodeIsGivenArguments == Spec => []CCodeGetsArguments
<1>1. IInv /\ EndsWell => CCodeGetsArguments
  BY CGetsArguments DEF IInv
<1> QED
  BY <1>1, InitCalls, NextCalls, PTL DEF Spec

\* Popping what expandarray pushed gives each variable of a multiple assignment its
\* element, and the splat the others (vm_expandarray).
THEOREM AssignmentsTakeApart == Spec => []AssignmentTakesApart
<1>1. IInv /\ EndsWell => AssignmentTakesApart
  BY TakesApart DEF IInv
<1> QED
  BY <1>1, InitCalls, NextCalls, PTL DEF Spec

-----------------------------------------------------------------------------
(* The dispatch descends.                                                  *)

\* What the dispatch has still to go through: the classes above the entry at hand, and the
\* arguments that send may take.
ClassesLeft ==
  CASE pc = "done" -> 0
    [] pc = "start" /\ me = None -> 1
    [] pc = "normal" -> Depth - me.klass + 2
    [] OTHER -> Depth + 2
StepsLeft == num * (Depth + 3) + ClassesLeft

\* Each step of vm_call_method leaves less to go through, for any arguments and any entries:
\* an entry that only changes the visibility climbs, and a send that starts again from the
\* receiver's class has taken an argument.
DispatchDescends == [][vm_call_method => StepsLeft' \in 0 .. StepsLeft - 1]_vars

\* The class of an entry that is found, that is to be judged, or that may be used.
LEMMA KlassFound ==
  ASSUME IsCall(call), NEW klass \in Nat \ {0}, NEW m, m # "send"
  PROVE  LET e == rb_method_entry(call.methods, klass, m)
         IN e = None \/ e.klass \in klass .. Depth
<1> DEFINE found == {j \in klass .. Depth : call.methods[j] # None}
           d == LowestOf(found)
<1>1. CASE m # "foo" \/ found = {}
  <2>1. m = "foo" => rb_method_entry(call.methods, klass, "foo") = None
    BY <1>1, EntryIs
  <2>2. m # "foo" => rb_method_entry(call.methods, klass, m) = None
    BY EntryIs
  <2> QED
    BY <2>1, <2>2
<1>2. CASE m = "foo" /\ found # {}
  <2>1. found \in SUBSET (1 .. Depth)
    BY DepthAssumption
  <2>2. d \in found
    BY <2>1, <1>2, LowestIs
  <2>3. rb_method_entry(call.methods, klass, m) = Of(call.methods[d], d)
    BY <1>2, EntryIs
  <2> HIDE DEF d
  <2>4. d \in klass .. Depth /\ d \in 1 .. Depth /\ call.methods[d] # None
    BY <2>1, <2>2
  <2>5. IsEntry(call.methods[d])
    BY <2>4 DEF IsCall
  <2>6. Of(call.methods[d], d).klass = d
    BY <2>5, FieldsOf
  <2> QED
    BY <2>3, <2>4, <2>6
<1> QED
  BY <1>1, <1>2

LEMMA KlassIs ==
  ASSUME IsCall(call)
  PROVE  /\ Starts /\ me # None => me.klass \in 1 .. Depth
         /\ Goes => me.klass \in 1 .. Depth
<1>1. me = Of(Send, Depth) => me.klass \in 1 .. Depth
  <2>1. Of(Send, Depth).klass = Depth
    BY FieldsOfSend
  <2> QED
    BY <2>1, DepthAssumption
<1>2. ASSUME NEW c \in Having PROVE Of(call.methods[c], c).klass \in 1 .. Depth
  <2>1. IsEntry(call.methods[c]) /\ c \in 1 .. Depth
    BY HavingIs
  <2>2. Of(call.methods[c], c).klass = c
    BY <2>1, FieldsOf
  <2> QED
    BY <2>1, <2>2
<1>3. Having # {} => Of(Judged, LowestOf(Having)).klass \in 1 .. Depth
  <2>1. Having # {} => LowestOf(Having) \in Having /\ Judged = call.methods[LowestOf(Having)]
    BY HavingIs
  <2> QED
    BY <2>1, <1>2
<1>4. Starts /\ me # None =>
        me = Of(Send, Depth) \/ (Having # {} /\ me = Of(Judged, LowestOf(Having)))
  BY DEF Starts
<1>5. Goes => me = Of(Send, Depth) \/ \E c \in Having : me = Of(call.methods[c], c)
  BY DEF Goes
<1> QED
  BY <1>1, <1>2, <1>3, <1>4, <1>5

\* A step that keeps the arguments and leaves fewer classes, and one that takes an argument.
LEMMA LessLeft ==
  ASSUME NEW n \in Nat, NEW height \in Nat, NEW h \in Nat, NEW g \in Nat
  PROVE  /\ g < h => n * height + g \in 0 .. n * height + h - 1
         /\ n > 0 /\ g < height => (n - 1) * height + g \in 0 .. n * height + h - 1
<1>1. PICK p \in Nat : p = n * height
  OBVIOUS
<1>2. n > 0 => (n - 1) * height = p - height /\ (n - 1) * height \in Nat
  <2> SUFFICES ASSUME n > 0 PROVE (n - 1) * height = p - height /\ (n - 1) * height \in Nat
    OBVIOUS
  <2>1. PICK m \in Nat : m = n - 1
    OBVIOUS
  <2>2. n = m + 1 /\ m * height \in Nat
    BY <2>1
  <2>3. (m + 1) * height = m * height + height
    OBVIOUS
  <2>4. p = m * height + height
    BY <1>1, <2>2, <2>3
  <2> QED
    BY <2>1, <2>2, <2>4
<1>3. g < h => p + g \in 0 .. p + h - 1
  OBVIOUS
<1>4. n > 0 /\ g < height => (p - height) + g \in 0 .. p + h - 1
  <2> SUFFICES ASSUME n > 0, g < height PROVE (p - height) + g \in 0 .. p + h - 1
    OBVIOUS
  <2>1. p - height \in Nat
    BY <1>2
  <2> QED
    BY <2>1
<1> QED
  BY <1>1, <1>2, <1>3, <1>4

\* What is left while the dispatch is at work.
LEMMA LeftAtWork ==
  ASSUME IInv, pc \in {"start", "normal"}
  PROVE  /\ num \in Nat /\ ClassesLeft \in 1 .. Depth + 2
         /\ pc = "normal" => me.klass \in 1 .. Depth /\ ClassesLeft = Depth - me.klass + 2
         /\ pc = "start" /\ me # None => me.klass \in 1 .. Depth /\ ClassesLeft = Depth + 2
<1>1. IsCall(call) /\ num \in Nat
  <2>1. IsCall(call) /\ \E k \in 0 .. Len(Asked) : Loop(k)
    BY DEF IInv
  <2> QED
    BY <2>1, LoopIs
<1>2. pc = "normal" => me.klass \in 1 .. Depth
  BY <1>1, KlassIs DEF IInv
<1>3. pc = "start" /\ me # None => me.klass \in 1 .. Depth
  BY <1>1, KlassIs DEF IInv
<1>4. pc = "normal" => ClassesLeft = Depth - me.klass + 2
  BY DEF ClassesLeft
<1>5. pc = "start" => ClassesLeft = IF me = None THEN 1 ELSE Depth + 2
  BY DEF ClassesLeft
<1> QED
  BY <1>1, <1>2, <1>3, <1>4, <1>5, DepthAssumption

\* The loop of vm_call_method cannot go on for ever: each of its steps ends it, climbs to a
\* class nearer to the root, or starts again with one argument less.
THEOREM DispatchGoesDown == Spec => DispatchDescends
<1> DEFINE Less == StepsLeft' \in 0 .. StepsLeft - 1
<1>1. ASSUME IInv, vm_call_method PROVE Less
  <2>1. pc \in {"start", "normal"}
    BY <1>1 DEF vm_call_method, NoMethod, Refuse, Accept, vm_setup_method, vm_call_cfunc, Attribute,
       CallMissing, vm_call_bmethod, CallProc, Zsuper, OptimizedSend, Dispatch
  <2>2. /\ IsCall(call) /\ num \in Nat /\ ClassesLeft \in 1 .. Depth + 2
        /\ pc = "normal" => me.klass \in 1 .. Depth /\ ClassesLeft = Depth - me.klass + 2
        /\ pc = "start" /\ me # None => me.klass \in 1 .. Depth /\ ClassesLeft = Depth + 2
    BY <1>1, <2>1, LeftAtWork DEF IInv
  <2>3. Depth \in Nat \ {0} /\ Depth + 3 \in Nat /\ ClassesLeft \in Nat
    BY <2>2, DepthAssumption
  <2>4. ASSUME num' = num, ClassesLeft' \in 0 .. ClassesLeft - 1 PROVE Less
    <3>1. PICK n \in Nat, h \in Nat, g \in Nat, height \in Nat :
            n = num /\ h = ClassesLeft /\ g = ClassesLeft' /\ height = Depth + 3
      BY <2>2, <2>3, <2>4
    <3>2. g < h
      BY <3>1, <2>4
    <3>3. n * height + g \in 0 .. n * height + h - 1
      BY <3>2, LessLeft
    <3>4. StepsLeft = n * height + h /\ StepsLeft' = n * height + g
      BY <3>1, <2>4 DEF StepsLeft
    <3> QED
      BY <3>3, <3>4
  <2>5. ASSUME num' = num, pc' = "done" PROVE Less
    <3>1. ClassesLeft' = 0
      BY <2>5 DEF ClassesLeft
    <3> QED
      BY <3>1, <2>2, <2>3, <2>4, <2>5
  <2>6. CASE \/ NoMethod \/ Refuse \/ vm_setup_method \/ vm_call_cfunc \/ Attribute
             \/ CallMissing \/ vm_call_bmethod \/ CallProc
    <3>1. num' = num /\ pc' = "done"
      BY <2>6 DEF NoMethod, Refuse, vm_method_missing, vm_setup_method, vm_call_cfunc, Attribute,
         CallMissing, vm_call_bmethod, CallProc, Dispatch, Finish, registers
    <3> QED
      BY <3>1, <2>5
  <2>7. CASE Accept
    <3>1. pc = "start" /\ me # None /\ pc' = "normal" /\ num' = num /\ me' = me
      BY <2>7 DEF Accept, registers
    <3>2. ClassesLeft' = Depth - me.klass + 2
      BY <3>1 DEF ClassesLeft
    <3> QED
      BY <3>1, <3>2, <2>2, <2>3, <2>4
  <2>8. CASE Zsuper
    <3>1. /\ pc = "normal" /\ me.type = "ZSUPER" /\ num' = num
          /\ me' = rb_method_entry(call.methods, me.klass + 1, id)
          /\ pc' = IF me' = None THEN "start" ELSE "normal"
      BY <2>8 DEF Zsuper
    <3>2. id # "send"
      <4>1. id = "foo"
        BY <3>1, <1>1, FieldsOfSend DEF IInv, Goes
      <4> QED
        BY <4>1
    <3>3. PICK c \in 1 .. Depth : c = me.klass /\ c + 1 \in Nat \ {0} /\ ClassesLeft = Depth - c + 2
      BY <3>1, <2>2, <2>3
    <3>4. me' = None \/ me'.klass \in c + 1 .. Depth
      BY <3>1, <3>2, <3>3, <2>2, KlassFound
    <3>5. CASE me' = None
      <4>1. ClassesLeft' = 1
        BY <3>1, <3>5 DEF ClassesLeft
      <4>2. ClassesLeft' \in 0 .. ClassesLeft - 1
        BY <4>1, <3>3, <2>3
      <4> QED
        BY <4>2, <3>1, <2>4
    <3>6. CASE me' # None
      <4>1. ClassesLeft' = Depth - me'.klass + 2
        BY <3>1, <3>6 DEF ClassesLeft
      <4>2. PICK e \in c + 1 .. Depth : e = me'.klass
        BY <3>4, <3>6
      <4>3. ClassesLeft' \in 0 .. ClassesLeft - 1
        BY <4>1, <4>2, <3>3, <2>3
      <4> QED
        BY <4>3, <3>1, <2>4
    <3> QED
      BY <3>5, <3>6
  <2>9. CASE OptimizedSend
    <3>1. CASE num = 0 \/ Top(num)[1][1] # "name"
      BY <3>1, <2>9, <2>5 DEF OptimizedSend, Finish, registers
    <3>2. CASE num # 0 /\ Top(num)[1][1] = "name"
      <4>1. num' = num - 1 /\ pc' = "start"
        BY <3>2, <2>9 DEF OptimizedSend
      <4>2. ClassesLeft' = IF me' = None THEN 1 ELSE Depth + 2
        BY <4>1 DEF ClassesLeft
      <4>3. PICK n \in Nat, h \in Nat, g \in Nat, height \in Nat :
              n = num /\ h = ClassesLeft /\ g = ClassesLeft' /\ height = Depth + 3
        BY <4>2, <2>2, <2>3
      <4>4. n > 0 /\ g < height
        BY <4>2, <4>3, <3>2, <2>3
      <4>5. (n - 1) * height + g \in 0 .. n * height + h - 1
        BY <4>4, LessLeft
      <4>6. StepsLeft = n * height + h /\ StepsLeft' = (n - 1) * height + g
        BY <4>1, <4>3 DEF StepsLeft
      <4> QED
        BY <4>5, <4>6
    <3> QED
      BY <3>1, <3>2
  <2> QED
    BY <1>1, <2>6, <2>7, <2>8, <2>9 DEF vm_call_method
<1> HIDE DEF Less
<1>2. IInv /\ EndsWell /\ [Next]_vars => [vm_call_method => Less]_vars
  BY <1>1
<1>3. Spec => [][vm_call_method => Less]_vars
  BY <1>2, InitCalls, NextCalls, PTL DEF Spec
<1> QED
  BY <1>3 DEF DispatchDescends, Less
=============================================================================
