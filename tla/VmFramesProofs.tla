---------------------------- MODULE VmFramesProofs ----------------------------
(***************************************************************************)
(* Proofs about VmFrames, for any number of threads, frames and Procs and  *)
(* any instruction sequences: no pointer outlives what it points to, $~ is *)
(* that of the activation, and break, return, retry and super go where     *)
(* they are written to.                                                    *)
(***************************************************************************)
EXTENDS VmFrames, SumTheorems, SequenceTheorems

Level == CHOOSE level \in [DOMAIN Iseqs -> 0 .. 3] : Nested(level)

LEMMA LevelIs == Level \in [DOMAIN Iseqs -> 0 .. 3] /\ Nested(Level)
  BY NestingAssumption DEF Level

-----------------------------------------------------------------------------
(* The variables.  Each place has a level, how many blocks it is in its    *)
(* method, and a home, the variables of the method: they are given by      *)
(* functions lev and home.  Everything here is about any stacks, Procs and *)
(* memory, those of a state or those on the way to the next one.           *)

Blocks == [iseq : DOMAIN Iseqs, dfp : Places, lfp : Places, made : BOOLEAN, lambda : BOOLEAN]
Memory == [prev : Places \cup {None}, block : Blocks \cup {None},
           svar : {"nil", "match"}, heap : BOOLEAN]
FrameTypes == {"TOP", "METHOD", "BLOCK", "LAMBDA", "CLASS", "CFUNC"}
Frames == [type : FrameTypes, iseq : DOMAIN Iseqs \cup {None},
           site : DOMAIN Iseqs \cup {None, "plain"}, dfp : Places, lfp : Places, me : BOOLEAN]

Heap(mem) == {d \in Places : mem[d].heap}
Used(stacks, mem) == PlacesOf(stacks) \cup Heap(mem)

\* The places of G hang below each other, within G.
Leveled(mem, lev, home, G) ==
  \A d \in G :
    /\ lev[d] \in 0 .. 3 /\ home[d] \in Places
    /\ lev[d] = 0 => mem[d].prev = None /\ home[d] = d
    /\ lev[d] # 0 => /\ mem[d].prev \in G
                     /\ lev[mem[d].prev] = lev[d] - 1 /\ home[mem[d].prev] = home[d]

\* Only methods have blocks, and those of methods in the heap are Procs.
BlockFits(lev, home, b) == b.lfp = home[b.dfp] /\ Level[b.iseq] = lev[b.dfp] + 1
PlaceFits(ps, mem, lev, home, d) ==
  mem[d].block # None =>
    /\ lev[d] = 0 /\ BlockFits(lev, home, mem[d].block)
    /\ mem[d].heap \/ mem[d].block.made => mem[d].block.made /\ mem[d].block \in ps

ProcFits(mem, lev, home, p) == p.made /\ mem[p.dfp].heap /\ BlockFits(lev, home, p)

\* Further down a stack than frame k.
IsBelow(s, k, d) == \E j \in 1 .. k - 1 : s[j].dfp = d
AtCallBelow(s, k, d) == \E j \in 1 .. k - 1 : s[j].dfp = d /\ s[j].site # None

FrameFits(s, k, mem, lev, home) ==
  /\ s[k].lfp = home[s[k].dfp]
  /\ IF s[k].type = "CFUNC" THEN s[k].iseq = None /\ lev[s[k].dfp] = 0
     ELSE s[k].iseq \in DOMAIN Iseqs /\ lev[s[k].dfp] = Level[s[k].iseq]
  /\ lev[s[k].dfp] # 0 => mem[mem[s[k].dfp].prev].heap \/ IsBelow(s, k, mem[s[k].dfp].prev)
  /\ mem[s[k].dfp].block # None /\ ~mem[s[k].dfp].block.made =>
       AtCallBelow(s, k, mem[s[k].dfp].block.dfp)

Distinct(stacks) ==
  \A t, u \in Threads : \A j \in 1 .. Len(stacks[t]), k \in 1 .. Len(stacks[u]) :
    stacks[t][j].dfp = stacks[u][k].dfp => t = u /\ j = k

Typed(stacks, ps, mem) ==
  stacks \in [Threads -> Seq(Frames)] /\ ps \subseteq Blocks /\ mem \in [Places -> Memory]

Shaped(stacks, ps, mem, lev, home) ==
  /\ Typed(stacks, ps, mem) /\ Distinct(stacks)
  /\ lev \in [Places -> 0 .. 3] /\ home \in [Places -> Places]
  /\ Leveled(mem, lev, home, Used(stacks, mem))
  /\ Leveled(mem, lev, home, Heap(mem))
  /\ \A d \in Used(stacks, mem) : PlaceFits(ps, mem, lev, home, d)
  /\ \A p \in ps : ProcFits(mem, lev, home, p)
  /\ \A t \in Threads : \A k \in 1 .. Len(stacks[t]) : FrameFits(stacks[t], k, mem, lev, home)

\* Up from places of G are places of G, and all that these hang below.
LEMMA ChainIs ==
  ASSUME NEW mem, NEW lev, NEW home, NEW G \in SUBSET Places, Leveled(mem, lev, home, G),
         NEW ds \in SUBSET G
  PROVE  /\ ds \subseteq ChainIn(mem, ds) /\ ChainIn(mem, ds) \subseteq G
         /\ Leveled(mem, lev, home, ChainIn(mem, ds))
<1> DEFINE a == Up(mem, ds)
           b == Up(mem, a)
           c == Up(mem, b)
<1>1. ASSUME NEW s \in SUBSET G
      PROVE  /\ s \subseteq Up(mem, s) /\ Up(mem, s) \subseteq G
             /\ \A d \in s : lev[d] # 0 => mem[d].prev \in Up(mem, s)
             /\ \A d \in Up(mem, s) : d \in s \/ \E e \in s : lev[e] # 0 /\ d = mem[e].prev
  BY PlacesAssumption DEF Up, Leveled
<1>2. /\ ds \subseteq a /\ a \subseteq b /\ b \subseteq c /\ c \subseteq G
      /\ \A d \in ds : lev[d] # 0 => mem[d].prev \in a
      /\ \A d \in a : lev[d] # 0 => mem[d].prev \in b
      /\ \A d \in b : lev[d] # 0 => mem[d].prev \in c
      /\ \A d \in a : d \in ds \/ \E e \in ds : lev[e] # 0 /\ d = mem[e].prev
      /\ \A d \in b : d \in a \/ \E e \in a : lev[e] # 0 /\ d = mem[e].prev
      /\ \A d \in c : d \in b \/ \E e \in b : lev[e] # 0 /\ d = mem[e].prev
  BY <1>1
<1>3. ChainIn(mem, ds) = c
  BY DEF ChainIn
<1> HIDE DEF a, b, c
<1>4. \A d \in G : lev[d] \in 0 .. 3 /\ (lev[d] # 0 => lev[mem[d].prev] = lev[d] - 1)
  BY DEF Leveled
<1>5. \A d \in a : d \in ds \/ lev[d] <= 2
  BY <1>2, <1>4
<1>6. \A d \in b : d \in a \/ lev[d] <= 1
  BY <1>2, <1>4, <1>5
<1>7. \A d \in c : d \in b \/ lev[d] = 0
  BY <1>2, <1>4, <1>6
<1>8. \A d \in c : lev[d] # 0 => mem[d].prev \in c
  BY <1>2, <1>7
<1> QED
  BY <1>2, <1>3, <1>8 DEF Leveled

\* Homes are among them.
LEMMA HomeIn ==
  ASSUME NEW mem, NEW lev, NEW home, NEW G, Leveled(mem, lev, home, G), NEW d \in G
  PROVE  home[d] \in G /\ lev[home[d]] = 0 /\ home[home[d]] = home[d]
<1> DEFINE up(e) == mem[e].prev
<1>1. ASSUME NEW e \in G, lev[e] = 0 PROVE home[e] = e
  BY <1>1 DEF Leveled
<1>2. ASSUME NEW e \in G, lev[e] # 0
      PROVE  up(e) \in G /\ lev[up(e)] = lev[e] - 1 /\ home[up(e)] = home[e]
  BY <1>2 DEF Leveled
<1>3. \A e \in G : lev[e] \in 0 .. 3
  BY DEF Leveled
<1> HIDE DEF up
<1>4. \A e \in G : lev[e] = 0 => home[e] \in G /\ lev[home[e]] = 0 /\ home[home[e]] = home[e]
  BY <1>1
<1>5. \A e \in G : lev[e] = 1 => home[e] \in G /\ lev[home[e]] = 0 /\ home[home[e]] = home[e]
  BY <1>2, <1>4
<1>6. \A e \in G : lev[e] = 2 => home[e] \in G /\ lev[home[e]] = 0 /\ home[home[e]] = home[e]
  BY <1>2, <1>5
<1>7. \A e \in G : lev[e] = 3 => home[e] \in G /\ lev[home[e]] = 0 /\ home[home[e]] = home[e]
  BY <1>2, <1>6
<1> QED
  BY <1>3, <1>4, <1>5, <1>6, <1>7

-----------------------------------------------------------------------------
(* What a step does to the memory.                                         *)

\* The places of the frames of a stack are used.
LEMMA FramePlaces ==
  ASSUME NEW stacks, NEW ps, NEW mem, Typed(stacks, ps, mem),
         NEW t \in Threads, NEW k \in 1 .. Len(stacks[t])
  PROVE  /\ stacks[t] \in Seq(Frames) /\ Len(stacks[t]) \in Nat
         /\ stacks[t][k] \in Frames /\ stacks[t][k].dfp \in Places
         /\ stacks[t][k].dfp \in PlacesOf(stacks) /\ stacks[t][k].dfp \in Used(stacks, mem)
<1>1. stacks[t] \in Seq(Frames)
  BY DEF Typed
<1>2. stacks[t][k] \in Frames /\ Len(stacks[t]) \in Nat
  BY <1>1
<1>3. stacks[t][k].dfp \in Places
  BY <1>2 DEF Frames
<1> QED
  BY <1>1, <1>2, <1>3 DEF PlacesOf, Used

LEMMA UsedPlaces ==
  ASSUME NEW stacks, NEW ps, NEW mem, Typed(stacks, ps, mem)
  PROVE  Used(stacks, mem) \subseteq Places /\ PlacesOf(stacks) \subseteq Places
  BY FramePlaces DEF PlacesOf, Used, Heap

\* What nothing reaches is emptied.
LEMMA EmptyKeeps ==
  ASSUME NEW stacks, NEW more, NEW ps, NEW mem, NEW lev, NEW home,
         Shaped(stacks, more, mem, lev, home), ps \subseteq more,
         NEW live, live = PlacesOf(stacks) \cup Reached(stacks, ps, mem),
         \A d \in live : mem[d].block \in more => mem[d].block \in ps,
         NEW after, after = [d \in Places |-> IF d \in live THEN mem[d] ELSE Nothing]
  PROVE  /\ Shaped(stacks, ps, after, lev, home)
         /\ Used(stacks, after) = live /\ live \subseteq Used(stacks, mem)
<1> DEFINE starts == PlacesOf(stacks) \cup {p.dfp : p \in ps}
           C == ChainIn(mem, starts)
<1>1. /\ Typed(stacks, more, mem) /\ Distinct(stacks)
      /\ lev \in [Places -> 0 .. 3] /\ home \in [Places -> Places]
      /\ Leveled(mem, lev, home, Used(stacks, mem))
      /\ Leveled(mem, lev, home, Heap(mem))
      /\ \A d \in Used(stacks, mem) : PlaceFits(more, mem, lev, home, d)
      /\ \A p \in more : ProcFits(mem, lev, home, p)
      /\ \A t \in Threads : \A k \in 1 .. Len(stacks[t]) : FrameFits(stacks[t], k, mem, lev, home)
  BY DEF Shaped
<1>2. Used(stacks, mem) \subseteq Places /\ \A p \in more : p.dfp \in Places
  BY <1>1, UsedPlaces DEF Typed, Blocks
<1>3. starts \in SUBSET Used(stacks, mem)
  BY <1>1, <1>2 DEF ProcFits, Used, Heap
<1>4. starts \subseteq C /\ C \subseteq Used(stacks, mem) /\ Leveled(mem, lev, home, C)
  BY <1>1, <1>2, <1>3, ChainIs
<1>5. live = C
  BY <1>2, <1>4 DEF Reached, Used, Heap
<1> HIDE DEF C
<1>6. \A d \in C : after[d] = mem[d]
  BY <1>2, <1>4, <1>5
<1>7. \A d \in Places \ C : after[d] = Nothing
  BY <1>5
<1>8. Heap(after) = C \cap Heap(mem)
  <2>1. ~Nothing.heap
    BY DEF Nothing
  <2> QED
    BY <1>2, <1>4, <1>6, <1>7, <2>1 DEF Heap
<1>9. Used(stacks, after) = C
  BY <1>2, <1>4, <1>8 DEF Used
<1>10. Typed(stacks, ps, after)
  <2>1. Nothing \in Memory
    BY DEF Nothing, Memory
  <2>2. \A d \in Places : after[d] \in Memory
    BY <1>1, <1>6, <1>7, <2>1 DEF Typed
  <2>3. after \in [Places -> Memory]
    BY <2>2
  <2> QED
    BY <1>1, <2>3 DEF Typed
<1>11. Leveled(after, lev, home, C)
  BY <1>4, <1>6 DEF Leveled
<1>12. Leveled(after, lev, home, C \cap Heap(mem))
  BY <1>1, <1>4, <1>6 DEF Leveled
<1>13. ASSUME NEW d \in C PROVE PlaceFits(ps, after, lev, home, d)
  <2>1. PlaceFits(more, mem, lev, home, d) /\ (mem[d].block \in more => mem[d].block \in ps)
    BY <1>1, <1>4, <1>5
  <2> QED
    BY <1>6, <2>1 DEF PlaceFits
<1>14. ASSUME NEW p \in ps PROVE ProcFits(after, lev, home, p)
  <2>1. p.dfp \in C /\ ProcFits(mem, lev, home, p)
    BY <1>1, <1>4
  <2> QED
    BY <1>6, <2>1 DEF ProcFits
<1>15. ASSUME NEW t \in Threads, NEW k \in 1 .. Len(stacks[t])
       PROVE  FrameFits(stacks[t], k, after, lev, home)
  <2>1. PICK d : d = stacks[t][k].dfp
    OBVIOUS
  <2>2. d \in C /\ after[d] = mem[d] /\ FrameFits(stacks[t], k, mem, lev, home)
    BY <1>1, <1>4, <1>6, <2>1, FramePlaces
  <2>3. lev[d] # 0 => after[mem[d].prev] = mem[mem[d].prev]
    BY <1>4, <1>6, <2>2 DEF Leveled
  <2> QED
    BY <2>1, <2>2, <2>3 DEF FrameFits
<1>16. Shaped(stacks, ps, after, lev, home)
  BY <1>1, <1>8, <1>9, <1>10, <1>11, <1>12, <1>13, <1>14, <1>15 DEF Shaped
<1> QED
  BY <1>4, <1>5, <1>9, <1>16

\* Frames are popped: the rest of a stack, where the last frame may be at another call.
IsCut(b, s) ==
  /\ b \in Seq(Frames) /\ Len(b) <= Len(s)
  /\ \A k \in 1 .. Len(b) :
       /\ b[k].dfp = s[k].dfp /\ b[k].lfp = s[k].lfp
       /\ b[k].type = s[k].type /\ b[k].iseq = s[k].iseq
       /\ k < Len(b) => b[k].site = s[k].site

LEMMA CutKeeps ==
  ASSUME NEW stacks, NEW ps, NEW mem, NEW lev, NEW home, Shaped(stacks, ps, mem, lev, home),
         NEW t \in Threads, NEW b, IsCut(b, stacks[t])
  PROVE  /\ Shaped([stacks EXCEPT ![t] = b], ps, mem, lev, home)
         /\ PlacesOf([stacks EXCEPT ![t] = b]) \subseteq PlacesOf(stacks)
<1>1. /\ Typed(stacks, ps, mem) /\ Distinct(stacks)
      /\ lev \in [Places -> 0 .. 3] /\ home \in [Places -> Places]
      /\ Leveled(mem, lev, home, Used(stacks, mem))
      /\ Leveled(mem, lev, home, Heap(mem))
      /\ \A d \in Used(stacks, mem) : PlaceFits(ps, mem, lev, home, d)
      /\ \A p \in ps : ProcFits(mem, lev, home, p)
      /\ \A u \in Threads : \A k \in 1 .. Len(stacks[u]) : FrameFits(stacks[u], k, mem, lev, home)
  BY DEF Shaped
<1>2. PICK cut : cut = [stacks EXCEPT ![t] = b]
  OBVIOUS
<1>3. /\ cut[t] = b /\ \A u \in Threads \ {t} : cut[u] = stacks[u]
      /\ cut \in [Threads -> Seq(Frames)]
      /\ Len(b) \in Nat /\ Len(stacks[t]) \in Nat /\ Len(b) <= Len(stacks[t])
  BY <1>1, <1>2 DEF Typed, IsCut
<1>4. \A u \in Threads : \A k \in 1 .. Len(cut[u]) :
        /\ k \in 1 .. Len(stacks[u])
        /\ cut[u][k].dfp = stacks[u][k].dfp /\ cut[u][k].lfp = stacks[u][k].lfp
        /\ cut[u][k].type = stacks[u][k].type /\ cut[u][k].iseq = stacks[u][k].iseq
        /\ \A j \in 1 .. k - 1 : /\ cut[u][j].dfp = stacks[u][j].dfp
                                 /\ cut[u][j].site = stacks[u][j].site
  <2>1. ASSUME NEW u \in Threads, u # t, NEW k \in 1 .. Len(cut[u])
        PROVE  cut[u] = stacks[u]
    BY <1>3, <2>1
  <2>2. ASSUME NEW k \in 1 .. Len(b)
        PROVE  /\ k \in 1 .. Len(stacks[t])
               /\ \A j \in 1 .. k - 1 : j \in 1 .. Len(b) /\ j < Len(b)
    BY <1>3
  <2> QED
    BY SMTT(30), <1>3, <2>1, <2>2 DEF IsCut
<1>5. PlacesOf(cut) \subseteq PlacesOf(stacks)
  BY <1>4 DEF PlacesOf
<1>6. Used(cut, mem) \subseteq Used(stacks, mem)
  BY <1>5 DEF Used
<1>7. Typed(cut, ps, mem)
  BY <1>1, <1>3 DEF Typed
<1>8. Distinct(cut)
  BY <1>1, <1>4 DEF Distinct
<1>9. ASSUME NEW u \in Threads, NEW k \in 1 .. Len(cut[u])
      PROVE  FrameFits(cut[u], k, mem, lev, home)
  <2>1. FrameFits(stacks[u], k, mem, lev, home)
    BY <1>1, <1>4, <1>9
  <2>2. \A d : /\ IsBelow(stacks[u], k, d) => IsBelow(cut[u], k, d)
               /\ AtCallBelow(stacks[u], k, d) => AtCallBelow(cut[u], k, d)
    BY <1>4, <1>9 DEF IsBelow, AtCallBelow
  <2> QED
    BY <1>4, <1>9, <2>1, <2>2 DEF FrameFits
<1>10. Leveled(mem, lev, home, Used(cut, mem))
  <2>1. ASSUME NEW d \in Used(cut, mem), lev[d] # 0 PROVE mem[d].prev \in Used(cut, mem)
    <3>1. CASE d \in Heap(mem)
      BY <1>1, <2>1, <3>1 DEF Leveled, Used
    <3>2. CASE d \in PlacesOf(cut)
      <4>1. PICK u \in Threads : \E k \in 1 .. Len(cut[u]) : d = cut[u][k].dfp
        BY <3>2 DEF PlacesOf
      <4>2. PICK k \in 1 .. Len(cut[u]) : d = cut[u][k].dfp
        BY <4>1
      <4>3. mem[mem[d].prev].heap \/ IsBelow(cut[u], k, mem[d].prev)
        BY <1>9, <2>1, <4>2 DEF FrameFits
      <4>4. \A j \in 1 .. k - 1 : cut[u][j].dfp \in PlacesOf(cut)
        <5>1. Len(cut[u]) \in Nat
          BY <1>3
        <5> QED
          BY <4>2, <5>1 DEF PlacesOf
      <4>5. mem[d].prev \in Places
        BY <1>1, <1>6, <2>1, UsedPlaces DEF Leveled
      <4> QED
        BY <4>3, <4>4, <4>5 DEF IsBelow, Used, Heap
    <3> QED
      BY <3>1, <3>2 DEF Used
  <2> QED
    BY <1>1, <1>6, <2>1 DEF Leveled
<1>11. Shaped(cut, ps, mem, lev, home)
  BY <1>1, <1>6, <1>7, <1>8, <1>9, <1>10 DEF Shaped
<1> QED
  BY <1>2, <1>5, <1>11

\* A frame is pushed, with variables in a place that nothing uses: a method's, with its
\* block, or a block's, below those it was written in.
FreshMethod(stacks, ps, mem, lev, home, t, v) ==
  /\ v.prev = None
  /\ v.block # None =>
       /\ BlockFits(lev, home, v.block)
       /\ v.block.dfp \in Used(stacks, mem)
       /\ IF v.block.made THEN v.block \in ps
          ELSE \E j \in 1 .. Len(stacks[t]) :
                 stacks[t][j].dfp = v.block.dfp /\ stacks[t][j].site # None
FreshBlock(stacks, mem, t, v) ==
  /\ v.block = None /\ v.prev \in Places
  /\ mem[v.prev].heap \/ \E j \in 1 .. Len(stacks[t]) : stacks[t][j].dfp = v.prev

Pushes(stacks, ps, mem, lev, home, t, d, vars1, n, frame, after, mem2) ==
  /\ Shaped(stacks, ps, mem, lev, home)
  /\ t \in Threads /\ d \in Places /\ d \notin Used(stacks, mem)
  /\ vars1 \in Memory /\ ~vars1.heap
  /\ \/ FreshMethod(stacks, ps, mem, lev, home, t, vars1)
     \/ FreshBlock(stacks, mem, t, vars1)
  /\ n \in 0 .. 3 /\ n = IF vars1.prev = None THEN 0 ELSE lev[vars1.prev] + 1
  /\ frame \in Frames /\ frame.dfp = d
  /\ frame.lfp = IF vars1.prev = None THEN d ELSE home[vars1.prev]
  /\ IF frame.type = "CFUNC" THEN frame.iseq = None /\ n = 0
     ELSE frame.iseq \in DOMAIN Iseqs /\ n = Level[frame.iseq]
  /\ after = [stacks EXCEPT ![t] = Append(stacks[t], frame)]
  /\ mem2 = [mem EXCEPT ![d] = vars1]

LEMMA PushKeeps ==
  ASSUME NEW stacks, NEW ps, NEW mem, NEW lev, NEW home, NEW t, NEW d, NEW vars1, NEW n,
         NEW frame, NEW after, NEW mem2,
         Pushes(stacks, ps, mem, lev, home, t, d, vars1, n, frame, after, mem2)
  PROVE  /\ \E lev2, home2 : Shaped(after, ps, mem2, lev2, home2)
         /\ Used(after, mem2) = Used(stacks, mem) \cup {d}
<1>0. /\ Shaped(stacks, ps, mem, lev, home)
      /\ t \in Threads /\ d \in Places /\ d \notin Used(stacks, mem)
      /\ vars1 \in Memory /\ ~vars1.heap
      /\ \/ FreshMethod(stacks, ps, mem, lev, home, t, vars1)
         \/ FreshBlock(stacks, mem, t, vars1)
      /\ n \in 0 .. 3 /\ n = IF vars1.prev = None THEN 0 ELSE lev[vars1.prev] + 1
      /\ frame \in Frames /\ frame.dfp = d
      /\ frame.lfp = IF vars1.prev = None THEN d ELSE home[vars1.prev]
      /\ IF frame.type = "CFUNC" THEN frame.iseq = None /\ n = 0
         ELSE frame.iseq \in DOMAIN Iseqs /\ n = Level[frame.iseq]
  BY DEF Pushes
<1> USE <1>0
<1> DEFINE h == frame.lfp
           lev2 == [lev EXCEPT ![d] = n]
           home2 == [home EXCEPT ![d] = h]
           pushed == Append(stacks[t], frame)
<1>1. /\ Typed(stacks, ps, mem) /\ Distinct(stacks)
      /\ lev \in [Places -> 0 .. 3] /\ home \in [Places -> Places]
      /\ Leveled(mem, lev, home, Used(stacks, mem))
      /\ Leveled(mem, lev, home, Heap(mem))
      /\ \A e \in Used(stacks, mem) : PlaceFits(ps, mem, lev, home, e)
      /\ \A p \in ps : ProcFits(mem, lev, home, p)
      /\ \A u \in Threads : \A k \in 1 .. Len(stacks[u]) : FrameFits(stacks[u], k, mem, lev, home)
  BY DEF Shaped
<1>2. after = [stacks EXCEPT ![t] = pushed] /\ mem2 = [mem EXCEPT ![d] = vars1]
  BY DEF Pushes
<1>3. /\ pushed \in Seq(Frames) /\ Len(stacks[t]) \in Nat /\ Len(pushed) = Len(stacks[t]) + 1
      /\ \A k \in 1 .. Len(stacks[t]) : pushed[k] = stacks[t][k]
      /\ pushed[Len(stacks[t]) + 1] = frame
  BY <1>1 DEF Typed
<1> HIDE DEF pushed
<1>4. /\ after[t] = pushed /\ \A u \in Threads \ {t} : after[u] = stacks[u]
      /\ after \in [Threads -> Seq(Frames)]
  BY <1>1, <1>2, <1>3 DEF Typed
<1>5. /\ mem2[d] = vars1 /\ \A e \in Places \ {d} : mem2[e] = mem[e]
      /\ mem2 \in [Places -> Memory]
  BY <1>1, <1>2 DEF Typed
<1>6. /\ lev2 \in [Places -> 0 .. 3] /\ home2 \in [Places -> Places]
      /\ lev2[d] = n /\ home2[d] = h
      /\ \A e \in Places \ {d} : lev2[e] = lev[e] /\ home2[e] = home[e]
  BY <1>1 DEF Frames
<1> HIDE DEF lev2, home2, h
\* The frames as they are now.
<1>7. \A u \in Threads : \A k \in 1 .. Len(after[u]) :
        \/ u = t /\ k = Len(stacks[t]) + 1 /\ after[u][k] = frame
        \/ /\ k \in 1 .. Len(stacks[u]) /\ after[u][k] = stacks[u][k]
           /\ \A j \in 1 .. k - 1 : after[u][j] = stacks[u][j]
  <2>1. \A k \in 1 .. Len(stacks[t]) + 1 : k = Len(stacks[t]) + 1 \/ k \in 1 .. Len(stacks[t])
    BY <1>3
  <2>2. \A k \in 1 .. Len(stacks[t]) : \A j \in 1 .. k - 1 : j \in 1 .. Len(stacks[t])
    BY <1>3
  <2>3. \A u \in Threads \ {t} : after[u] = stacks[u]
    BY <1>4
  <2>4. \A k \in 1 .. Len(after[t]) :
          \/ k = Len(stacks[t]) + 1 /\ after[t][k] = frame
          \/ /\ k \in 1 .. Len(stacks[t]) /\ after[t][k] = stacks[t][k]
             /\ \A j \in 1 .. k - 1 : after[t][j] = stacks[t][j]
    BY <1>3, <1>4, <2>1, <2>2
  <2> QED
    BY <2>3, <2>4
<1>8. PlacesOf(after) = PlacesOf(stacks) \cup {d}
  <2>1. PlacesOf(after) \subseteq PlacesOf(stacks) \cup {d}
    BY <1>7 DEF PlacesOf
  <2>2. d \in PlacesOf(after)
    <3>1. Len(stacks[t]) + 1 \in 1 .. Len(after[t]) /\ after[t][Len(stacks[t]) + 1].dfp = d
      BY <1>3, <1>4
    <3> QED
      BY <3>1 DEF PlacesOf
  <2>3. PlacesOf(stacks) \subseteq PlacesOf(after)
    <3>1. ASSUME NEW u \in Threads, NEW k \in 1 .. Len(stacks[u])
          PROVE  k \in 1 .. Len(after[u]) /\ after[u][k] = stacks[u][k]
      <4>1. CASE u = t
        BY <1>3, <1>4, <4>1
      <4>2. CASE u # t
        BY <1>4, <4>2
      <4> QED
        BY <4>1, <4>2
    <3> QED
      BY <3>1 DEF PlacesOf
  <2> QED
    BY <2>1, <2>2, <2>3
<1>9. Heap(mem2) = Heap(mem)
  BY <1>5 DEF Heap, Used
<1>10. Used(after, mem2) = Used(stacks, mem) \cup {d}
  BY <1>8, <1>9 DEF Used
<1>11. Used(stacks, mem) \subseteq Places /\ Heap(mem) \subseteq Used(stacks, mem)
  BY <1>1, UsedPlaces DEF Used
<1>12. \A e \in Used(stacks, mem) :
         mem2[e] = mem[e] /\ lev2[e] = lev[e] /\ home2[e] = home[e]
  BY <1>5, <1>6, <1>11
<1>13. vars1.prev # None => vars1.prev \in Used(stacks, mem)
  BY FramePlaces, <1>1 DEF FreshMethod, FreshBlock, Used, Heap
<1>14. Leveled(mem2, lev2, home2, Used(after, mem2))
  <2>1. ASSUME NEW e \in Used(stacks, mem), lev[e] # 0
        PROVE  /\ mem[e].prev \in Used(stacks, mem)
               /\ lev2[mem[e].prev] = lev[mem[e].prev] /\ home2[mem[e].prev] = home[mem[e].prev]
    BY <1>1, <1>12, <2>1 DEF Leveled
  <2>2. Leveled(mem2, lev2, home2, Used(stacks, mem))
    BY <1>1, <1>12, <2>1 DEF Leveled
  <2>3. CASE vars1.prev = None
    <3>1. lev2[d] = 0 /\ mem2[d].prev = None /\ home2[d] = d
      BY <1>5, <1>6, <2>3 DEF h
    <3> QED
      BY <1>6, <1>10, <2>2, <3>1 DEF Leveled
  <2>4. CASE vars1.prev # None
    <3>1. PICK e : e = vars1.prev
      OBVIOUS
    <3>2. /\ mem2[d].prev = e /\ e \in Used(stacks, mem)
          /\ lev2[d] = lev2[e] + 1 /\ home2[d] = home2[e] /\ lev2[e] \in 0 .. 3
      BY <1>1, <1>5, <1>6, <1>12, <1>13, <2>4, <3>1 DEF Leveled, h
    <3>3. lev2[d] # 0 /\ lev2[e] = lev2[d] - 1
      BY <3>2
    <3>4. lev2[d] \in 0 .. 3 /\ home2[d] \in Places /\ Used(stacks, mem) \subseteq Used(after, mem2)
      BY <1>6, <1>10
    <3>5. \A x \in Used(after, mem2) : x = d \/ x \in Used(stacks, mem)
      BY <1>10
    <3> QED
      BY <2>2, <3>2, <3>3, <3>4, <3>5 DEF Leveled
  <2> QED
    BY <2>3, <2>4
<1>15. Leveled(mem2, lev2, home2, Heap(mem2))
  <2>1. ASSUME NEW e \in Heap(mem), lev[e] # 0
        PROVE  /\ mem[e].prev \in Used(stacks, mem)
               /\ lev2[mem[e].prev] = lev[mem[e].prev] /\ home2[mem[e].prev] = home[mem[e].prev]
    BY <1>1, <1>11, <1>12, <2>1 DEF Leveled
  <2> QED
    BY <1>1, <1>9, <1>11, <1>12, <2>1 DEF Leveled
\* The blocks were written in places that are used.
<1>16. \A p \in ps : p.dfp \in Used(stacks, mem)
  BY <1>1 DEF ProcFits, Typed, Blocks, Used, Heap
<1>17. \A b : b.dfp \in Used(stacks, mem) /\ BlockFits(lev, home, b) => BlockFits(lev2, home2, b)
  BY <1>12 DEF BlockFits
<1>18. \A p \in ps : ProcFits(mem2, lev2, home2, p)
  BY <1>1, <1>12, <1>16, <1>17 DEF ProcFits
<1>19. ASSUME NEW u \in Threads, NEW k \in 1 .. Len(after[u])
       PROVE  /\ FrameFits(after[u], k, mem2, lev2, home2)
              /\ PlaceFits(ps, mem2, lev2, home2, after[u][k].dfp)
  <2>1. CASE u = t /\ k = Len(stacks[t]) + 1 /\ after[u][k] = frame
    <3>1. /\ \A j \in 1 .. Len(stacks[t]) : j \in 1 .. k - 1 /\ after[u][j] = stacks[t][j]
      BY <1>3, <1>4, <2>1
    <3>2. /\ \A e : (\E j \in 1 .. Len(stacks[t]) : stacks[t][j].dfp = e) => IsBelow(after[u], k, e)
          /\ \A e : (\E j \in 1 .. Len(stacks[t]) : stacks[t][j].dfp = e /\ stacks[t][j].site # None)
                      => AtCallBelow(after[u], k, e)
      BY <3>1 DEF IsBelow, AtCallBelow
    <3>3. CASE FreshMethod(stacks, ps, mem, lev, home, t, vars1)
      <4>1. vars1.prev = None /\ n = 0
        BY <3>3 DEF FreshMethod
      <4>2. vars1.block # None =>
              /\ BlockFits(lev2, home2, vars1.block)
              /\ IF vars1.block.made THEN vars1.block \in ps
                 ELSE AtCallBelow(after[u], k, vars1.block.dfp)
        BY <1>17, <3>2, <3>3 DEF FreshMethod
      <4> QED
        BY <1>5, <1>6, <2>1, <4>1, <4>2 DEF FrameFits, PlaceFits, h
    <3>4. CASE FreshBlock(stacks, mem, t, vars1)
      <4>1. vars1.prev # None /\ mem2[vars1.prev] = mem[vars1.prev] /\ vars1.block = None
        BY <1>12, <1>13, <3>4, PlacesAssumption DEF FreshBlock
      <4>2. mem2[vars1.prev].heap \/ IsBelow(after[u], k, vars1.prev)
        BY <3>2, <3>4, <4>1 DEF FreshBlock
      <4> QED
        BY <1>5, <1>6, <2>1, <4>1, <4>2 DEF FrameFits, PlaceFits, h
    <3> QED
      BY <3>3, <3>4
  <2>2. CASE /\ k \in 1 .. Len(stacks[u]) /\ after[u][k] = stacks[u][k]
             /\ \A j \in 1 .. k - 1 : after[u][j] = stacks[u][j]
    <3>1. PICK e : e = stacks[u][k].dfp
      OBVIOUS
    <3>2. /\ e \in Used(stacks, mem) /\ FrameFits(stacks[u], k, mem, lev, home)
          /\ PlaceFits(ps, mem, lev, home, e)
          /\ mem2[e] = mem[e] /\ lev2[e] = lev[e] /\ home2[e] = home[e]
      BY <1>1, <1>12, <2>2, <3>1, FramePlaces
    <3>3. lev[e] # 0 => mem2[mem[e].prev] = mem[mem[e].prev]
      BY <1>1, <1>12, <3>2 DEF Leveled
    <3>4. \A x : /\ IsBelow(stacks[u], k, x) => IsBelow(after[u], k, x)
                 /\ AtCallBelow(stacks[u], k, x) => AtCallBelow(after[u], k, x)
      BY <2>2 DEF IsBelow, AtCallBelow
    <3>5. FrameFits(after[u], k, mem2, lev2, home2)
      BY <2>2, <3>1, <3>2, <3>3, <3>4 DEF FrameFits
    <3>6. mem[e].block # None => mem[e].block.dfp \in Used(stacks, mem)
      <4>1. CASE mem[e].block # None /\ mem[e].block.made
        BY <1>16, <3>2, <4>1 DEF PlaceFits
      <4>2. CASE mem[e].block # None /\ ~mem[e].block.made
        <5>1. AtCallBelow(stacks[u], k, mem[e].block.dfp)
          BY <3>1, <3>2, <4>2 DEF FrameFits
        <5>2. Len(stacks[u]) \in Nat /\ \A j \in 1 .. k - 1 : j \in 1 .. Len(stacks[u])
          BY <1>1, <2>2 DEF Typed
        <5> QED
          BY <1>1, <5>1, <5>2, FramePlaces DEF AtCallBelow
      <4> QED
        BY <4>1, <4>2
    <3>7. PlaceFits(ps, mem2, lev2, home2, e)
      BY <1>17, <3>2, <3>6 DEF PlaceFits
    <3> QED
      BY <2>2, <3>1, <3>5, <3>7
  <2> QED
    BY <1>7, <1>19, <2>1, <2>2
<1>20. ASSUME NEW e \in Used(after, mem2) PROVE PlaceFits(ps, mem2, lev2, home2, e)
  <2>1. CASE e \in PlacesOf(after)
    BY <1>19, <2>1 DEF PlacesOf
  <2>2. CASE e \in Heap(mem)
    <3>1. /\ PlaceFits(ps, mem, lev, home, e) /\ mem[e].heap
          /\ mem2[e] = mem[e] /\ lev2[e] = lev[e] /\ home2[e] = home[e]
      BY <1>1, <1>11, <1>12, <2>2 DEF Heap
    <3> QED
      BY <1>16, <1>17, <3>1 DEF PlaceFits
  <2> QED
    BY <1>9, <1>20, <2>1, <2>2 DEF Used
<1>21. Distinct(after)
  <2>1. \A u \in Threads : \A k \in 1 .. Len(stacks[u]) : stacks[u][k].dfp # d
    BY <1>1, FramePlaces
  <2>2. \A u \in Threads : \A k \in 1 .. Len(after[u]) :
          \/ u = t /\ k = Len(stacks[t]) + 1 /\ after[u][k].dfp = d
          \/ k \in 1 .. Len(stacks[u]) /\ after[u][k].dfp = stacks[u][k].dfp
    BY <1>7
  <2> SUFFICES ASSUME NEW u \in Threads, NEW v \in Threads,
                      NEW j \in 1 .. Len(after[u]), NEW k \in 1 .. Len(after[v]),
                      after[u][j].dfp = after[v][k].dfp
               PROVE  u = v /\ j = k
    BY DEF Distinct
  <2>3. CASE after[u][j].dfp = d
    <3>1. ~(j \in 1 .. Len(stacks[u]) /\ after[u][j].dfp = stacks[u][j].dfp)
      BY <2>1, <2>3
    <3>2. ~(k \in 1 .. Len(stacks[v]) /\ after[v][k].dfp = stacks[v][k].dfp)
      BY <2>1, <2>3
    <3>3. u = t /\ j = Len(stacks[t]) + 1
      BY <2>2, <3>1
    <3>4. v = t /\ k = Len(stacks[t]) + 1
      BY <2>2, <3>2
    <3> QED
      BY <3>3, <3>4
  <2>4. CASE after[u][j].dfp # d
    <3>1. j \in 1 .. Len(stacks[u]) /\ k \in 1 .. Len(stacks[v])
      BY <2>2, <2>4
    <3>2. stacks[u][j].dfp = stacks[v][k].dfp
      BY <2>2, <2>4
    <3> QED
      BY <1>1, <3>1, <3>2 DEF Distinct
  <2> QED
    BY <2>3, <2>4
<1>22. Typed(after, ps, mem2)
  BY <1>1, <1>4, <1>5 DEF Typed
<1>23. Shaped(after, ps, mem2, lev2, home2)
  BY <1>6, <1>14, <1>15, <1>18, <1>19, <1>20, <1>21, <1>22 DEF Shaped
<1> QED
  BY <1>2, <1>10, <1>23 DEF pushed

\* What a method keeps in $~ is of no matter to the pointers.
Noted(mem, d, value) == [mem EXCEPT ![d].svar = value]

LEMMA SpecialKeeps ==
  ASSUME NEW stacks, NEW ps, NEW mem, NEW lev, NEW home, Shaped(stacks, ps, mem, lev, home),
         NEW d \in Places, NEW value \in {"nil", "match"}
  PROVE  /\ Shaped(stacks, ps, Noted(mem, d, value), lev, home)
         /\ Used(stacks, Noted(mem, d, value)) = Used(stacks, mem)
<1>1. /\ Typed(stacks, ps, mem) /\ Distinct(stacks)
      /\ lev \in [Places -> 0 .. 3] /\ home \in [Places -> Places]
      /\ Leveled(mem, lev, home, Used(stacks, mem))
      /\ Leveled(mem, lev, home, Heap(mem))
      /\ \A e \in Used(stacks, mem) : PlaceFits(ps, mem, lev, home, e)
      /\ \A p \in ps : ProcFits(mem, lev, home, p)
      /\ \A t \in Threads : \A k \in 1 .. Len(stacks[t]) : FrameFits(stacks[t], k, mem, lev, home)
  BY DEF Shaped
<1>2. PICK after : after = Noted(mem, d, value)
  OBVIOUS
<1>3. after \in [Places -> Memory]
  <2>1. mem[d] \in Memory
    BY <1>1 DEF Typed
  <2>2. \A m \in Memory : [m EXCEPT !.svar = value] \in Memory
    BY DEF Memory
  <2>3. [mem[d] EXCEPT !.svar = value] \in Memory
    BY <2>1, <2>2
  <2> QED
    BY <1>1, <1>2, <2>3 DEF Typed, Noted
<1>4. \A e \in Places : /\ after[e].prev = mem[e].prev /\ after[e].block = mem[e].block
                        /\ after[e].heap = mem[e].heap
  <2>1. \A e \in Places : after[e] = IF e = d THEN [mem[d] EXCEPT !.svar = value] ELSE mem[e]
    BY <1>1, <1>2 DEF Typed, Noted
  <2>2. mem[d] \in Memory
    BY <1>1 DEF Typed
  <2>3. /\ [mem[d] EXCEPT !.svar = value].prev = mem[d].prev
        /\ [mem[d] EXCEPT !.svar = value].block = mem[d].block
        /\ [mem[d] EXCEPT !.svar = value].heap = mem[d].heap
    BY <2>2 DEF Memory
  <2> QED
    BY <2>1, <2>3
<1>5. Heap(after) = Heap(mem)
  BY <1>4 DEF Heap
<1>6. Used(after, after) = Used(after, mem) /\ Used(stacks, after) = Used(stacks, mem)
  BY <1>5 DEF Used
<1>7. Used(stacks, mem) \subseteq Places /\ Heap(mem) \subseteq Places
  BY <1>1, UsedPlaces DEF Heap
<1>8. Leveled(after, lev, home, Used(stacks, after)) /\ Leveled(after, lev, home, Heap(after))
  BY <1>1, <1>4, <1>5, <1>6, <1>7 DEF Leveled
<1>9. \A e \in Used(stacks, after) : PlaceFits(ps, after, lev, home, e)
  BY <1>1, <1>4, <1>6, <1>7 DEF PlaceFits
<1>10. \A p \in ps : ProcFits(after, lev, home, p)
  <2>1. \A p \in ps : p.dfp \in Places
    BY <1>1 DEF Typed, Blocks
  <2> QED
    BY <1>1, <1>4, <2>1 DEF ProcFits
<1>11. ASSUME NEW t \in Threads, NEW k \in 1 .. Len(stacks[t])
       PROVE  FrameFits(stacks[t], k, after, lev, home)
  <2>1. PICK e : e = stacks[t][k].dfp
    OBVIOUS
  <2>2. e \in Places /\ e \in Used(stacks, mem) /\ FrameFits(stacks[t], k, mem, lev, home)
    BY <1>1, <2>1, FramePlaces
  <2>3. lev[e] # 0 => mem[e].prev \in Places
    BY <1>1, <1>7, <2>2 DEF Leveled
  <2> QED
    BY <1>4, <2>1, <2>2, <2>3 DEF FrameFits
<1>12. Typed(stacks, ps, after)
  BY <1>1, <1>3 DEF Typed
<1>13. Shaped(stacks, ps, after, lev, home)
  BY <1>1, <1>8, <1>9, <1>10, <1>11, <1>12 DEF Shaped
<1> QED
  BY <1>2, <1>6, <1>13

-----------------------------------------------------------------------------
(* The pointers of a frame.                                                *)

\* The variables of its method are in the heap, or those of a frame not above it.
LEMMA HomeFrame ==
  ASSUME NEW stacks, NEW ps, NEW mem, NEW lev, NEW home, Shaped(stacks, ps, mem, lev, home),
         NEW t \in Threads, NEW k \in 1 .. Len(stacks[t])
  PROVE  \/ mem[stacks[t][k].lfp].heap
         \/ \E i \in 1 .. k : stacks[t][i].dfp = stacks[t][k].lfp
<1>1. PICK s : s = stacks[t]
  OBVIOUS
<1> DEFINE Reaches(d, j) == mem[home[d]].heap \/ \E i \in 1 .. j : s[i].dfp = home[d]
<1>2. /\ Typed(stacks, ps, mem) /\ Len(s) \in Nat
      /\ Leveled(mem, lev, home, Used(stacks, mem)) /\ Leveled(mem, lev, home, Heap(mem))
      /\ \A j \in 1 .. Len(s) : /\ FrameFits(s, j, mem, lev, home)
                                /\ s[j].dfp \in Used(stacks, mem) /\ s[j].dfp \in Places
  BY <1>1, FramePlaces DEF Shaped
<1>3. \A d \in Heap(mem) : mem[home[d]].heap
  BY <1>2, HomeIn DEF Heap
<1>4. ASSUME NEW j \in 1 .. Len(s), lev[s[j].dfp] = 0 PROVE Reaches(s[j].dfp, j)
  BY <1>2, <1>4 DEF Leveled
<1>5. ASSUME NEW j \in 1 .. Len(s), lev[s[j].dfp] # 0
      PROVE  \/ mem[home[s[j].dfp]].heap
             \/ \E i \in 1 .. j - 1 : /\ lev[s[i].dfp] = lev[s[j].dfp] - 1
                                      /\ home[s[i].dfp] = home[s[j].dfp]
  <2>1. PICK d, e : d = s[j].dfp /\ e = mem[d].prev
    OBVIOUS
  <2>2. /\ e \in Used(stacks, mem) /\ lev[e] = lev[d] - 1 /\ home[e] = home[d]
        /\ mem[e].heap \/ IsBelow(s, j, e)
    BY <1>2, <1>5, <2>1 DEF Leveled, FrameFits
  <2>3. CASE mem[e].heap
    <3>1. e \in Heap(mem)
      BY <1>2, <2>2, <2>3, UsedPlaces DEF Heap
    <3> QED
      BY <1>3, <2>1, <2>2, <3>1
  <2> QED
    BY <2>1, <2>2, <2>3 DEF IsBelow
<1>6. ASSUME NEW n \in 0 .. 2,
             \A j \in 1 .. Len(s) : lev[s[j].dfp] = n => Reaches(s[j].dfp, j),
             NEW j \in 1 .. Len(s), lev[s[j].dfp] = n + 1
      PROVE  Reaches(s[j].dfp, j)
  <2>1. CASE ~mem[home[s[j].dfp]].heap
    <3>1. PICK i \in 1 .. j - 1 : lev[s[i].dfp] = n /\ home[s[i].dfp] = home[s[j].dfp]
      BY SMTT(30), <1>5, <1>6, <2>1
    <3>2. i \in 1 .. Len(s) /\ \A x \in 1 .. i : x \in 1 .. j
      BY <1>2, <3>1
    <3> QED
      BY <1>6, <3>1, <3>2
  <2> QED
    BY <2>1
<1> HIDE DEF Reaches
<1>7. \A j \in 1 .. Len(s) : lev[s[j].dfp] = 0 => Reaches(s[j].dfp, j)
  BY <1>4
<1>8. \A j \in 1 .. Len(s) : lev[s[j].dfp] = 1 => Reaches(s[j].dfp, j)
  BY <1>6, <1>7
<1>9. \A j \in 1 .. Len(s) : lev[s[j].dfp] = 2 => Reaches(s[j].dfp, j)
  BY <1>6, <1>8
<1>10. \A j \in 1 .. Len(s) : lev[s[j].dfp] = 3 => Reaches(s[j].dfp, j)
  BY <1>6, <1>9
<1>11. lev[s[k].dfp] \in 0 .. 3 /\ s[k].lfp = home[s[k].dfp] /\ k \in 1 .. Len(s)
  BY <1>1, <1>2 DEF Leveled, FrameFits
<1>12. Reaches(s[k].dfp, k)
  BY <1>7, <1>8, <1>9, <1>10, <1>11
<1> QED
  BY <1>1, <1>11, <1>12 DEF Reaches

\* The block of its method is a Proc, or part of a frame further down at a call.
LEMMA BlockOf ==
  ASSUME NEW stacks, NEW ps, NEW mem, NEW lev, NEW home, Shaped(stacks, ps, mem, lev, home),
         NEW t \in Threads, NEW k \in 1 .. Len(stacks[t])
  PROVE  /\ stacks[t][k].lfp \in Used(stacks, mem) /\ stacks[t][k].lfp \in Places
         /\ lev[stacks[t][k].lfp] = 0
         /\ mem[stacks[t][k].lfp].block # None =>
              /\ mem[stacks[t][k].lfp].block \in Blocks
              /\ BlockFits(lev, home, mem[stacks[t][k].lfp].block)
              /\ IF mem[stacks[t][k].lfp].block.made
                 THEN /\ mem[stacks[t][k].lfp].block \in ps
                      /\ mem[mem[stacks[t][k].lfp].block.dfp].heap
                 ELSE AtCallBelow(stacks[t], k, mem[stacks[t][k].lfp].block.dfp)
<1>1. PICK s, h, b : s = stacks[t] /\ h = s[k].lfp /\ b = mem[h].block
  OBVIOUS
<1>2. /\ Typed(stacks, ps, mem) /\ Len(s) \in Nat
      /\ Leveled(mem, lev, home, Used(stacks, mem))
      /\ \A p \in ps : ProcFits(mem, lev, home, p)
      /\ \A j \in 1 .. Len(s) : FrameFits(s, j, mem, lev, home)
      /\ s[k].dfp \in Used(stacks, mem)
  BY <1>1, FramePlaces DEF Shaped
<1>3. h = home[s[k].dfp]
  BY <1>1, <1>2 DEF FrameFits
<1>4. h \in Used(stacks, mem) /\ lev[h] = 0 /\ h \in Places
  BY <1>2, <1>3, HomeIn, UsedPlaces
<1>5. PlaceFits(ps, mem, lev, home, h)
  BY <1>4 DEF Shaped
<1>6. ASSUME b # None PROVE b \in Blocks /\ BlockFits(lev, home, b)
  <2>1. mem[h] \in Memory
    BY <1>2, <1>4 DEF Typed
  <2>2. b \in Blocks
    BY <1>1, <1>6, <2>1 DEF Memory
  <2> QED
    BY <1>1, <1>5, <1>6, <2>2 DEF PlaceFits
<1>7. ASSUME b # None, b.made PROVE b \in ps /\ mem[b.dfp].heap
  BY <1>1, <1>2, <1>5, <1>7 DEF PlaceFits, ProcFits
<1>8. ASSUME b # None, ~b.made PROVE AtCallBelow(s, k, b.dfp)
  <2>1. ~mem[h].heap
    BY <1>1, <1>5, <1>8 DEF PlaceFits
  <2>2. PICK i \in 1 .. k : s[i].dfp = h
    BY <1>1, <2>1, HomeFrame
  <2>3. i \in 1 .. Len(s) /\ \A j \in 1 .. i - 1 : j \in 1 .. k - 1
    BY <1>1, <1>2, <2>2
  <2>4. AtCallBelow(s, i, b.dfp)
    BY <1>1, <1>2, <1>8, <2>2, <2>3 DEF FrameFits
  <2> QED
    BY <2>3, <2>4 DEF AtCallBelow
<1> QED
  BY <1>1, <1>4, <1>6, <1>7, <1>8

\* The blocks of methods were written in places that are used.
LEMMA BlockPlaces ==
  ASSUME NEW stacks, NEW ps, NEW mem, NEW lev, NEW home, Shaped(stacks, ps, mem, lev, home),
         NEW d \in Used(stacks, mem), mem[d].block # None
  PROVE  /\ mem[d].block \in Blocks /\ BlockFits(lev, home, mem[d].block)
         /\ mem[d].block.dfp \in Used(stacks, mem)
         /\ mem[d].block.lfp \in Used(stacks, mem) /\ lev[mem[d].block.lfp] = 0
<1>1. /\ Typed(stacks, ps, mem) /\ Leveled(mem, lev, home, Used(stacks, mem))
      /\ \A p \in ps : ProcFits(mem, lev, home, p)
      /\ PlaceFits(ps, mem, lev, home, d)
  BY DEF Shaped
<1>2. PICK b : b = mem[d].block
  OBVIOUS
<1>3. b \in Blocks /\ b.dfp \in Places
  <2>1. mem[d] \in Memory
    BY <1>1, UsedPlaces DEF Typed
  <2> QED
    BY <1>2, <2>1 DEF Memory, Blocks
<1>4. BlockFits(lev, home, b)
  BY <1>1, <1>2 DEF PlaceFits
<1>5. b.dfp \in Used(stacks, mem)
  <2>1. CASE b.made
    <3>1. b \in ps
      BY <1>1, <1>2, <2>1 DEF PlaceFits
    <3> QED
      BY <1>1, <1>3, <3>1 DEF ProcFits, Used, Heap
  <2>2. CASE ~b.made
    <3>1. ~mem[d].heap
      BY <1>1, <1>2, <2>2 DEF PlaceFits
    <3>2. PICK t \in Threads : \E k \in 1 .. Len(stacks[t]) : d = stacks[t][k].dfp
      BY <3>1 DEF Used, Heap, PlacesOf
    <3>3. PICK k \in 1 .. Len(stacks[t]) : d = stacks[t][k].dfp
      BY <3>2
    <3>4. FrameFits(stacks[t], k, mem, lev, home)
      BY DEF Shaped
    <3>5. PICK j \in 1 .. k - 1 : stacks[t][j].dfp = b.dfp
      BY <1>2, <2>2, <3>3, <3>4 DEF FrameFits, AtCallBelow
    <3>6. j \in 1 .. Len(stacks[t])
      <4>1. Len(stacks[t]) \in Nat
        BY <1>1, FramePlaces
      <4> QED
        BY <3>5, <4>1
    <3> QED
      BY <1>1, <3>5, <3>6, FramePlaces
  <2> QED
    BY <2>1, <2>2
<1>6. b.lfp = home[b.dfp]
  BY <1>4 DEF BlockFits
<1>7. b.lfp \in Used(stacks, mem) /\ lev[b.lfp] = 0
  BY <1>1, <1>5, <1>6, HomeIn
<1> QED
  BY <1>2, <1>3, <1>4, <1>5, <1>7

-----------------------------------------------------------------------------
(* Code.  Each place is of an instruction sequence, that of the frame whose *)
(* variables it was made for, given by a function code: what a place hangs  *)
(* below is of the code around its own.                                     *)

WrittenIn(code, b) == TypeOf(b.iseq) = "BLOCK" /\ Iseqs[b.iseq].parent = code[b.dfp]

PlaceCoded(mem, code, d) ==
  /\ mem[d].prev = None => code[d] = None \/ TypeOf(code[d]) \notin {"BLOCK", "RESCUE"}
  /\ mem[d].prev # None => /\ code[d] # None /\ TypeOf(code[d]) \in {"BLOCK", "RESCUE"}
                           /\ Iseqs[code[d]].parent = code[mem[d].prev]
  /\ mem[d].block # None => WrittenIn(code, mem[d].block)

KindFits(f) ==
  IF f.type = "CFUNC" THEN f.iseq = None /\ f.site \in {None, "plain"}
  ELSE /\ f.iseq \in DOMAIN Iseqs
       /\ \/ TypeOf(f.iseq) = IF f.type = "LAMBDA" THEN "BLOCK" ELSE f.type
          \/ f.type = "BLOCK" /\ TypeOf(f.iseq) = "RESCUE"

\* What a frame hangs below is never further up.
HangsBack(s, k, mem) == \A j \in k + 1 .. Len(s) : s[j].dfp \notin ChainIn(mem, {s[k].dfp})

\* A class body runs right above the code around it, and a rescue clause also hangs
\* below that.
FrameCoded(s, k, mem, code) ==
  /\ s[k].iseq = code[s[k].dfp] /\ KindFits(s[k])
  /\ HangsBack(s, k, mem)
  /\ s[k].iseq # None =>
       /\ TypeOf(s[k].iseq) \in {"CLASS", "RESCUE"} =>
            k > 1 /\ s[k - 1].iseq = Iseqs[s[k].iseq].parent
       /\ TypeOf(s[k].iseq) = "RESCUE" => s[k - 1].dfp = mem[s[k].dfp].prev

Coded(stacks, ps, mem, code) ==
  /\ code \in [Places -> DOMAIN Iseqs \cup {None}]
  /\ \A d \in Used(stacks, mem) : PlaceCoded(mem, code, d)
  /\ \A p \in ps : WrittenIn(code, p)
  /\ \A t \in Threads : \A k \in 1 .. Len(stacks[t]) : FrameCoded(stacks[t], k, mem, code)

Codes == \E code : Coded(frames, procs, vars_at, code)

\* What a step leaves of it: free places are emptied.
\* Places hang below the same ones when these still hang below what they did.
SameBelow(mem, after, G) ==
  \A d \in G : mem[d].prev \in G \cup {None} /\ after[d].prev = mem[d].prev

SameChains(mem, after, G) == \A d \in G : ChainIn(after, {d}) = ChainIn(mem, {d})

LEMMA ChainSame ==
  ASSUME NEW mem, NEW after, NEW G, SameBelow(mem, after, G)
  PROVE  SameChains(mem, after, G)
<1> SUFFICES ASSUME NEW d \in G PROVE ChainIn(after, {d}) = ChainIn(mem, {d})
  BY DEF SameChains
<1>1. ASSUME NEW s \in SUBSET G PROVE Up(after, s) = Up(mem, s) /\ Up(mem, s) \in SUBSET G
  BY DEF Up, SameBelow
<1>2. {d} \in SUBSET G
  OBVIOUS
<1> QED
  BY <1>1, <1>2 DEF ChainIn

LEMMA BecomesCoded ==
  ASSUME NEW stacks, NEW more, NEW ps, NEW mem, NEW lev, NEW home,
         Shaped(stacks, more, mem, lev, home), ps \subseteq more,
         \A d \in PlacesOf(stacks) \cup Reached(stacks, ps, mem) :
           mem[d].block \in more => mem[d].block \in ps,
         NEW code, Coded(stacks, more, mem, code), Becomes(stacks, ps, mem)
  PROVE  Codes'
<1>1. PICK live, after : /\ live = PlacesOf(stacks) \cup Reached(stacks, ps, mem)
                         /\ after = [d \in Places |-> IF d \in live THEN mem[d] ELSE Nothing]
  OBVIOUS
<1>2. frames' = stacks /\ procs' = ps /\ vars_at' = after
  BY <1>1 DEF Becomes
<1>3. Used(stacks, after) = live /\ live \subseteq Used(stacks, mem)
  BY <1>1, EmptyKeeps
<1>4. Typed(stacks, more, mem) /\ Used(stacks, mem) \subseteq Places
  BY UsedPlaces DEF Shaped
<1>5. \A d \in live : after[d] = mem[d]
  BY <1>1, <1>3, <1>4
<1>6. ASSUME NEW d \in Used(stacks, after) PROVE PlaceCoded(after, code, d)
  <2>1. PlaceCoded(mem, code, d) /\ after[d] = mem[d]
    BY <1>3, <1>5 DEF Coded
  <2> QED
    BY <2>1 DEF PlaceCoded
<1>7. ASSUME NEW t \in Threads, NEW k \in 1 .. Len(stacks[t])
      PROVE  FrameCoded(stacks[t], k, after, code)
  <2>1. stacks[t][k].dfp \in live
    BY <1>1, <1>4, FramePlaces
  <2>2. FrameCoded(stacks[t], k, mem, code) /\ after[stacks[t][k].dfp] = mem[stacks[t][k].dfp]
    BY <1>5, <2>1 DEF Coded
  <2>3. Shaped(stacks, ps, after, lev, home)
    BY SMTT(30), <1>1, EmptyKeeps
  <2>4. SameBelow(after, mem, live)
    BY <1>3, <1>5, <2>3 DEF Shaped, Leveled, SameBelow
  <2>5. ChainIn(mem, {stacks[t][k].dfp}) = ChainIn(after, {stacks[t][k].dfp})
    BY <2>1, <2>4, ChainSame DEF SameChains
  <2> QED
    BY <2>2, <2>5 DEF FrameCoded, HangsBack
<1>8. Coded(stacks, ps, after, code)
  BY <1>6, <1>7 DEF Coded
<1> QED
  BY <1>2, <1>8 DEF Codes

\* Variables and blocks are changed, but not what code they are of.
SameCode(mem, after) ==
  \A d \in Places : /\ after[d].prev = mem[d].prev
                    /\ after[d].block # None => /\ mem[d].block # None
                                                /\ after[d].block.iseq = mem[d].block.iseq
                                                /\ after[d].block.dfp = mem[d].block.dfp

LEMMA SameCoded ==
  ASSUME NEW stacks, NEW ps, NEW mem, Typed(stacks, ps, mem),
         NEW code, Coded(stacks, ps, mem, code),
         NEW more, \A p \in more : WrittenIn(code, p),
         NEW after, SameCode(mem, after), Used(stacks, after) = Used(stacks, mem)
  PROVE  Coded(stacks, more, after, code)
<1>1. ASSUME NEW d \in Used(stacks, mem) PROVE PlaceCoded(after, code, d)
  <2>1. d \in Places /\ PlaceCoded(mem, code, d)
    BY UsedPlaces DEF Coded
  <2> QED
    BY <2>1 DEF PlaceCoded, WrittenIn, SameCode
<1>2. ASSUME NEW t \in Threads, NEW k \in 1 .. Len(stacks[t])
      PROVE  FrameCoded(stacks[t], k, after, code)
  <2>1. stacks[t][k].dfp \in Places /\ FrameCoded(stacks[t], k, mem, code)
    BY FramePlaces DEF Coded
  <2>2. after[stacks[t][k].dfp].prev = mem[stacks[t][k].dfp].prev
    BY <2>1 DEF SameCode
  <2>3. SameBelow(mem, after, Places)
    BY DEF Typed, Memory, SameCode, SameBelow
  <2>4. ChainIn(after, {stacks[t][k].dfp}) = ChainIn(mem, {stacks[t][k].dfp})
    BY <2>1, <2>3, ChainSame DEF SameChains
  <2> QED
    BY <2>1, <2>2, <2>4 DEF FrameCoded, HangsBack
<1> QED
  BY <1>1, <1>2 DEF Coded

\* Frames are popped.  A C function's frame is at no call with a block in it.
EndsWell(b) ==
  Len(b) # 0 /\ b[Len(b)].type = "CFUNC" => b[Len(b)].site \in {None, "plain"}

LEMMA CutCoded ==
  ASSUME NEW stacks, NEW ps, NEW mem, NEW lev, NEW home, Shaped(stacks, ps, mem, lev, home),
         NEW code, Coded(stacks, ps, mem, code),
         NEW t \in Threads, NEW b, IsCut(b, stacks[t]), EndsWell(b),
         NEW cut, cut = [stacks EXCEPT ![t] = b]
  PROVE  Coded(cut, ps, mem, code)
<1>1. /\ Typed(stacks, ps, mem)
      /\ PlacesOf(cut) \subseteq PlacesOf(stacks) /\ Used(cut, mem) \subseteq Used(stacks, mem)
  <2>1. PlacesOf(cut) \subseteq PlacesOf(stacks)
    BY CutKeeps
  <2>2. Typed(stacks, ps, mem)
    BY DEF Shaped
  <2> QED
    BY <2>1, <2>2 DEF Used
<1>2. /\ cut[t] = b /\ \A u \in Threads \ {t} : cut[u] = stacks[u]
      /\ Len(b) \in Nat /\ Len(stacks[t]) \in Nat /\ Len(b) <= Len(stacks[t])
  BY <1>1 DEF Typed, IsCut
<1>3. ASSUME NEW u \in Threads, u # t, NEW k \in 1 .. Len(cut[u])
      PROVE  FrameCoded(cut[u], k, mem, code)
  BY <1>2, <1>3 DEF Coded
<1>4. ASSUME NEW k \in 1 .. Len(b) PROVE FrameCoded(b, k, mem, code)
  <2>1. k \in 1 .. Len(stacks[t]) /\ FrameCoded(stacks[t], k, mem, code)
    BY <1>2 DEF Coded
  <2>2. \A j \in 1 .. Len(b) :
          /\ b[j].dfp = stacks[t][j].dfp /\ b[j].type = stacks[t][j].type
          /\ b[j].iseq = stacks[t][j].iseq /\ (j < Len(b) => b[j].site = stacks[t][j].site)
    BY DEF IsCut
  <2>3. KindFits(b[k])
    <3>1. b[k].type = "CFUNC" => b[k].site \in {None, "plain"}
      <4>1. CASE k = Len(b)
        BY <4>1, <1>2 DEF EndsWell
      <4>2. CASE k < Len(b)
        BY <2>1, <2>2, <4>2 DEF FrameCoded, KindFits
      <4> QED
        BY <1>2, <4>1, <4>2
    <3> QED
      BY <2>1, <2>2, <3>1 DEF FrameCoded, KindFits
  <2>4. HangsBack(b, k, mem)
    <3>1. \A j \in k + 1 .. Len(b) : j \in 1 .. Len(b) /\ j \in k + 1 .. Len(stacks[t])
      BY <1>2
    <3> QED
      BY <2>1, <2>2, <3>1 DEF FrameCoded, HangsBack
  <2>5. k > 1 => k - 1 \in 1 .. Len(b)
    BY <1>2
  <2> QED
    BY <2>1, <2>2, <2>3, <2>4, <2>5 DEF FrameCoded
<1> QED
  BY <1>1, <1>2, <1>3, <1>4 DEF Coded

\* A frame is pushed, in a place that nothing uses.
FitsOnTop(stacks, mem, code, t, f, v) ==
  /\ KindFits(f)
  /\ v.prev = None => f.iseq = None \/ TypeOf(f.iseq) \notin {"BLOCK", "RESCUE"}
  /\ v.prev # None => /\ v.prev \in Used(stacks, mem)
                      /\ f.iseq # None /\ TypeOf(f.iseq) \in {"BLOCK", "RESCUE"}
                      /\ Iseqs[f.iseq].parent = code[v.prev]
  /\ v.block # None => WrittenIn(code, v.block) /\ v.block.dfp \in Used(stacks, mem)
  /\ f.iseq # None =>
       /\ TypeOf(f.iseq) \in {"CLASS", "RESCUE"} =>
            /\ Len(stacks[t]) > 0
            /\ stacks[t][Len(stacks[t])].iseq = Iseqs[f.iseq].parent
       /\ TypeOf(f.iseq) = "RESCUE" => stacks[t][Len(stacks[t])].dfp = v.prev

LEMMA PushCoded ==
  ASSUME NEW stacks, NEW ps, NEW mem, NEW lev, NEW home, Shaped(stacks, ps, mem, lev, home),
         NEW code, Coded(stacks, ps, mem, code),
         NEW t \in Threads, NEW d \in Places, d \notin Used(stacks, mem),
         NEW f \in Frames, f.dfp = d, NEW v, FitsOnTop(stacks, mem, code, t, f, v),
         NEW after, after = [stacks EXCEPT ![t] = Append(stacks[t], f)],
         NEW mem2, mem2 = [mem EXCEPT ![d] = v],
         Used(after, mem2) = Used(stacks, mem) \cup {d}
  PROVE  \E code2 : Coded(after, ps, mem2, code2)
<1>1. PICK code2 : code2 = [code EXCEPT ![d] = f.iseq]
  OBVIOUS
<1>2. PICK U : U = Used(stacks, mem)
  OBVIOUS
<1>3. /\ Typed(stacks, ps, mem) /\ Leveled(mem, lev, home, U) /\ U \subseteq Places
      /\ \A p \in ps : ProcFits(mem, lev, home, p)
      /\ code \in [Places -> DOMAIN Iseqs \cup {None}]
  BY <1>2, UsedPlaces DEF Shaped, Coded
<1>4. code2 \in [Places -> DOMAIN Iseqs \cup {None}]
  <2>1. f.iseq \in DOMAIN Iseqs \cup {None}
    BY DEF Frames
  <2> QED
    BY <1>1, <1>3, <2>1
<1>5. code2[d] = f.iseq /\ \A e \in U : code2[e] = code[e] /\ mem2[e] = mem[e] /\ e # d
  <2>1. mem \in [Places -> Memory]
    BY <1>3 DEF Typed
  <2> QED
    BY <1>1, <1>2, <1>3, <2>1
<1>6. mem2[d] = v
  BY <1>3 DEF Typed
<1>7. \A e \in U : mem[e].prev = None \/ mem[e].prev \in U
  BY <1>3 DEF Leveled
<1>8. \A e \in U : mem[e].block # None => mem[e].block.dfp \in U
  BY <1>2, BlockPlaces
<1>9. ASSUME NEW e \in U PROVE PlaceCoded(mem2, code2, e)
  <2>1. PlaceCoded(mem, code, e)
    BY <1>2 DEF Coded
  <2> QED
    BY <1>5, <1>7, <1>8, <2>1 DEF PlaceCoded, WrittenIn
<1>10. PlaceCoded(mem2, code2, d)
  BY <1>2, <1>5, <1>6 DEF PlaceCoded, WrittenIn, FitsOnTop
<1>11. ASSUME NEW p \in ps PROVE WrittenIn(code2, p)
  <2>1. p.dfp \in U
    BY <1>2, <1>3 DEF ProcFits, Used, Heap, Typed, Blocks
  <2> QED
    BY <1>5, <2>1 DEF Coded, WrittenIn
<1>12. \A u \in Threads : \A k \in 1 .. Len(stacks[u]) : stacks[u][k].dfp \in U
  BY <1>2, <1>3, FramePlaces
<1>20. SameChains(mem, mem2, U)
  <2>1. SameBelow(mem, mem2, U)
    BY <1>5, <1>7 DEF SameBelow
  <2> QED
    BY <2>1, ChainSame
<1>13. ASSUME NEW u \in Threads, u # t, NEW k \in 1 .. Len(after[u])
       PROVE  FrameCoded(after[u], k, mem2, code2)
  <2>1. after[u] = stacks[u]
    BY <1>3, <1>13 DEF Typed
  <2>2. FrameCoded(stacks[u], k, mem, code) /\ stacks[u][k].dfp \in U
    BY <1>12, <1>13, <2>1 DEF Coded
  <2> QED
    BY ZenonT(60), <1>5, <1>20, <2>1, <2>2 DEF FrameCoded, HangsBack, SameChains
<1>14. PICK s, b : s = stacks[t] /\ b = after[t]
  OBVIOUS
<1>15. /\ s \in Seq(Frames) /\ Len(s) \in Nat /\ Len(b) = Len(s) + 1 /\ b[Len(b)] = f
       /\ \A k \in 1 .. Len(s) : b[k] = s[k]
  BY <1>3, <1>14 DEF Typed
<1>16. ASSUME NEW k \in 1 .. Len(s) PROVE FrameCoded(b, k, mem2, code2)
  <2>1. FrameCoded(s, k, mem, code) /\ s[k].dfp \in U
    BY <1>12, <1>14 DEF Coded
  <2>2. mem2[s[k].dfp] = mem[s[k].dfp] /\ code2[s[k].dfp] = code[s[k].dfp]
    BY <1>5, <2>1
  <2>3. HangsBack(b, k, mem2)
    <3>1. ChainIn(mem2, {s[k].dfp}) = ChainIn(mem, {s[k].dfp})
      BY <1>20, <2>1 DEF SameChains
    <3>2. ChainIn(mem, {s[k].dfp}) \subseteq U
      BY <1>3, <2>1, ChainIs
    <3>3. \A j \in k + 1 .. Len(s) : s[j].dfp \notin ChainIn(mem, {s[k].dfp})
      BY <2>1 DEF FrameCoded, HangsBack
    <3>4. \A j \in k + 1 .. Len(b) : (j = Len(b) /\ b[j] = f) \/ (j \in k + 1 .. Len(s) /\ b[j] = s[j])
      BY <1>15
    <3>5. d \notin U /\ b[k] = s[k]
      BY <1>2, <1>15
    <3> QED
      BY <3>1, <3>2, <3>3, <3>4, <3>5 DEF HangsBack
  <2>4. k > 1 => k - 1 \in 1 .. Len(s)
    BY <1>15
  <2> QED
    BY <1>15, <2>1, <2>2, <2>3, <2>4 DEF FrameCoded
<1>17. FrameCoded(b, Len(b), mem2, code2)
  <2>1. HangsBack(b, Len(b), mem2)
    BY <1>15 DEF HangsBack
  <2>2. \A j \in Len(b) .. Len(b) : b[j] = f
    BY <1>15
  <2>3. Len(b) - 1 = Len(s) /\ (Len(s) > 0 => b[Len(s)] = s[Len(s)])
    BY <1>15
  <2> QED
    BY <1>5, <1>6, <1>14, <1>15, <2>1, <2>2, <2>3 DEF FrameCoded, FitsOnTop
<1>18. \A u \in Threads : \A k \in 1 .. Len(after[u]) : FrameCoded(after[u], k, mem2, code2)
  <2>1. \A k \in 1 .. Len(b) : k \in 1 .. Len(s) \/ k = Len(b)
    BY <1>15
  <2> QED
    BY <1>13, <1>14, <1>16, <1>17, <2>1
<1>19. \A e \in Used(after, mem2) : PlaceCoded(mem2, code2, e)
  BY <1>2, <1>9, <1>10
<1> QED
  BY <1>4, <1>11, <1>18, <1>19 DEF Coded

-----------------------------------------------------------------------------
(* The state: all pointers are good, and $~ is in its place.               *)

Pointers == \E lev, home : Shaped(frames, procs, vars_at, lev, home)

Specials ==
  /\ written \in [Threads \cup Places -> {"nil", "match"}]
  /\ local \in [Threads -> [lfp : Places \cup {None}, svar : {"nil", "match"}]]
  /\ \A d \in Used(frames, vars_at) : vars_at[d].svar = written[d]
  /\ \A d \in Places \ Used(frames, vars_at) : written[d] = "nil"
  /\ \A t \in Threads : /\ local[t].svar = written[t]
                        /\ frames[t] = <<>> => local[t] = NoLocal
  /\ local[Main] = NoLocal

IInv == Pointers /\ Codes /\ Specials

\* The places of frames that are pushed have no match, the others what they had.
KeepsSpecials(stacks, mem) ==
  /\ \A d \in Used(stacks, mem) :
       mem[d].svar = IF d \in Used(frames, vars_at) THEN vars_at[d].svar ELSE "nil"
  /\ frames[Main] = <<>> => stacks[Main] = <<>>

LEMMA BecomesKeeps ==
  ASSUME Specials, NEW stacks, NEW more, NEW ps, NEW mem,
         NEW lev, NEW home, Shaped(stacks, more, mem, lev, home), ps \subseteq more,
         NEW code, Coded(stacks, more, mem, code),
         \A d \in PlacesOf(stacks) \cup Reached(stacks, ps, mem) :
           mem[d].block \in more => mem[d].block \in ps,
         KeepsSpecials(stacks, mem), Becomes(stacks, ps, mem)
  PROVE  IInv'
<1>1. PICK live, after : /\ live = PlacesOf(stacks) \cup Reached(stacks, ps, mem)
                         /\ after = [d \in Places |-> IF d \in live THEN mem[d] ELSE Nothing]
  OBVIOUS
<1>2. PICK ended : ended = {t \in Threads : stacks[t] = <<>>}
  OBVIOUS
<1>3. /\ frames' = stacks /\ procs' = ps /\ vars_at' = after
      /\ written' = [o \in Threads \cup Places |->
                       IF o \in ended \cup (Places \ live) THEN "nil" ELSE written[o]]
      /\ local' = [t \in Threads |->
                     IF stacks[t] = <<>> THEN NoLocal
                     ELSE IF frames[t] # <<>> THEN local[t]
                     ELSE [lfp |-> stacks[t][1].lfp, svar |-> "nil"]]
  BY <1>1, <1>2 DEF Becomes
<1>4. /\ Shaped(stacks, ps, after, lev, home)
      /\ Used(stacks, after) = live /\ live \subseteq Used(stacks, mem)
  BY <1>1, EmptyKeeps
<1>5. Pointers'
  BY <1>3, <1>4 DEF Pointers
<1>6. live \subseteq Places
  BY <1>4, UsedPlaces DEF Shaped
<1>7. written' \in [Threads \cup Places -> {"nil", "match"}]
  BY <1>3 DEF Specials
<1>8. ASSUME NEW t \in Threads
      PROVE  /\ local'[t] \in [lfp : Places \cup {None}, svar : {"nil", "match"}]
             /\ local'[t].svar = written'[t]
             /\ stacks[t] = <<>> => local'[t] = NoLocal
             /\ t = Main => local'[t] = NoLocal
  <2>1. written'[t] = IF stacks[t] = <<>> THEN "nil" ELSE written[t]
    BY <1>2, <1>3, PlacesAssumption
  <2>2. CASE stacks[t] = <<>>
    BY <1>3, <2>1, <2>2 DEF NoLocal
  <2>3. CASE stacks[t] # <<>> /\ frames[t] # <<>>
    BY <1>3, <2>1, <2>3 DEF Specials
  <2>4. CASE stacks[t] # <<>> /\ frames[t] = <<>>
    <3>1. written[t] = "nil"
      BY <2>4 DEF Specials, NoLocal
    <3>2. stacks[t][1].lfp \in Places
      <4>1. stacks[t] \in Seq(Frames)
        BY DEF Shaped, Typed
      <4>2. 1 \in 1 .. Len(stacks[t])
        BY <2>4, <4>1
      <4>3. stacks[t][1] \in Frames
        BY <4>1, <4>2
      <4> QED
        BY <4>3 DEF Frames
    <3>3. local'[t] = [lfp |-> stacks[t][1].lfp, svar |-> "nil"]
      BY <1>3, <2>4
    <3>4. t # Main
      BY <2>4 DEF KeepsSpecials
    <3> QED
      BY <2>1, <2>4, <3>1, <3>2, <3>3, <3>4
  <2> QED
    BY <2>2, <2>3, <2>4
<1>9. local' \in [Threads -> [lfp : Places \cup {None}, svar : {"nil", "match"}]]
  BY <1>3, <1>8
<1>10. ASSUME NEW d \in Used(frames', vars_at')
       PROVE  vars_at'[d].svar = written'[d]
  <2>1. d \in live /\ d \in Places /\ d \in Used(stacks, mem)
    BY <1>3, <1>4, <1>6, <1>10
  <2>2. vars_at'[d].svar = mem[d].svar
    BY <1>1, <1>3, <2>1
  <2>3. written'[d] = written[d]
    BY <1>2, <1>3, <2>1, PlacesAssumption
  <2>4. written[d] = IF d \in Used(frames, vars_at) THEN vars_at[d].svar ELSE "nil"
    BY <2>1 DEF Specials
  <2> QED
    BY <2>1, <2>2, <2>3, <2>4 DEF KeepsSpecials
<1>11. ASSUME NEW d \in Places \ Used(frames', vars_at')
       PROVE  written'[d] = "nil"
  BY <1>3, <1>4, <1>11
<1>12. Main \in Threads
  BY FramesAssumption
<1>13. Specials'
  BY <1>3, <1>7, <1>8, <1>9, <1>10, <1>11, <1>12 DEF Specials
<1>14. Codes'
  BY BecomesCoded
<1> QED
  BY <1>5, <1>13, <1>14 DEF IInv

-----------------------------------------------------------------------------
(* Pushing and popping.                                                    *)

\* The running frame comes to a call, or frames are popped.
LEMMA AtIsCut ==
  ASSUME NEW s \in Seq(Frames), s # <<>>, NEW site \in DOMAIN Iseqs \cup {None, "plain"},
         NEW b, b = [s EXCEPT ![Len(s)].site = site]
  PROVE  /\ IsCut(b, s) /\ Len(b) = Len(s) /\ b[Len(s)].site = site
<1>1. Len(s) \in 1 .. Len(s)
  BY DEF Frames
<1>2. s[Len(s)] \in Frames
  BY <1>1
<1>3. \A f \in Frames : LET g == [f EXCEPT !.site = site]
                        IN /\ g \in Frames /\ g.dfp = f.dfp /\ g.lfp = f.lfp
                           /\ g.type = f.type /\ g.iseq = f.iseq /\ g.site = site
  BY DEF Frames
<1>4. PICK g : g = [s[Len(s)] EXCEPT !.site = site]
  OBVIOUS
<1>5. b = [s EXCEPT ![Len(s)] = g] /\ g \in Frames
  BY <1>2, <1>3, <1>4
<1>6. /\ b \in Seq(Frames) /\ Len(b) = Len(s) /\ b[Len(s)] = g
      /\ \A k \in 1 .. Len(s) : k # Len(s) => b[k] = s[k]
  BY <1>1, <1>5
<1>7. /\ g.dfp = s[Len(s)].dfp /\ g.lfp = s[Len(s)].lfp
      /\ g.type = s[Len(s)].type /\ g.iseq = s[Len(s)].iseq /\ g.site = site
  BY <1>2, <1>3, <1>4
<1> QED
  BY <1>1, <1>6, <1>7 DEF IsCut

Cut(s, n) == [k \in 1 .. n |-> IF k = n THEN [s[k] EXCEPT !.site = None] ELSE s[k]]

LEMMA BackIsCut ==
  ASSUME NEW s \in Seq(Frames), NEW n \in Int, n <= Len(s)
  PROVE  IsCut(Cut(s, n), s) /\ EndsWell(Cut(s, n)) /\ (n >= 0 => Len(Cut(s, n)) = n)
<1>1. \A f \in Frames : LET g == [f EXCEPT !.site = None]
                        IN /\ g \in Frames /\ g.dfp = f.dfp /\ g.lfp = f.lfp
                           /\ g.type = f.type /\ g.iseq = f.iseq /\ g.site = None
  BY DEF Frames
<1>2. ASSUME NEW m \in 0 .. Len(s)
      PROVE  IsCut(Cut(s, m), s) /\ EndsWell(Cut(s, m)) /\ Len(Cut(s, m)) = m
  <2>1. PICK b : b = Cut(s, m)
    OBVIOUS
  <2>2. \A k \in 1 .. m : s[k] \in Frames /\ b[k] = IF k = m THEN [s[k] EXCEPT !.site = None] ELSE s[k]
    BY <2>1 DEF Cut
  <2>3. ASSUME NEW k \in 1 .. m
        PROVE  /\ b[k] \in Frames
               /\ b[k].dfp = s[k].dfp /\ b[k].lfp = s[k].lfp
               /\ b[k].type = s[k].type /\ b[k].iseq = s[k].iseq
               /\ k < m => b[k].site = s[k].site
               /\ k = m => b[k].site = None
    <3>1. PICK f : f = s[k]
      OBVIOUS
    <3>2. f \in Frames /\ b[k] = (IF k = m THEN [f EXCEPT !.site = None] ELSE f)
      BY <2>2, <3>1
    <3>3. CASE k = m
      BY <1>1, <3>1, <3>2, <3>3
    <3>4. CASE k # m
      BY <3>1, <3>2, <3>4
    <3> QED
      BY <3>3, <3>4
  <2>4. b \in [1 .. m -> Frames]
    <3>1. b = [k \in 1 .. m |-> b[k]]
      BY <2>1 DEF Cut
    <3> QED
      BY <2>3, <3>1
  <2>5. m \in Nat /\ m <= Len(s)
    BY LenProperties
  <2>6. b \in Seq(Frames) /\ Len(b) = m
    <3>1. b \in Seq(Frames)
      BY <2>4, <2>5, SeqDef
    <3>2. DOMAIN b = 1 .. m /\ DOMAIN b = 1 .. Len(b) /\ Len(b) \in Nat
      BY <2>4, <3>1, LenProperties
    <3> QED
      BY <2>5, <3>1, <3>2
  <2>7. EndsWell(b)
    BY <2>3, <2>5, <2>6 DEF EndsWell
  <2> QED
    BY <2>1, <2>3, <2>5, <2>6, <2>7 DEF IsCut
<1>3. ASSUME n < 0 PROVE Cut(s, n) = Cut(s, 0)
  <2>1. 1 .. n = {} /\ 1 .. 0 = {}
    BY <1>3
  <2> QED
    BY <2>1 DEF Cut
<1>4. Len(s) \in Nat
  OBVIOUS
<1>5. CASE n < 0
  BY <1>2, <1>3, <1>4, <1>5
<1>6. CASE n >= 0
  BY <1>2, <1>4, <1>6
<1> QED
  BY <1>5, <1>6

\* The frame that is pushed, but for its place; a method's block, and what a block
\* hangs below, are further down.
Framed(frame) ==
  \A d, h \in Places :
    LET g == [frame EXCEPT !.dfp = d, !.lfp = h]
    IN /\ g \in Frames /\ g.dfp = d /\ g.lfp = h
       /\ g.type = frame.type /\ g.iseq = frame.iseq /\ g.site = frame.site

GoodBlock(below, lev, home, b) ==
  b # None =>
    /\ b \in Blocks /\ BlockFits(lev, home, b)
    /\ IF b.made THEN b \in procs
       ELSE \E j \in 1 .. Len(below) : below[j].dfp = b.dfp /\ below[j].site # None

OfMethod(below, lev, home, frame, specval, lfp) ==
  /\ lfp = None /\ GoodBlock(below, lev, home, specval)
  /\ IF frame.type = "CFUNC" THEN frame.iseq = None
     ELSE frame.iseq \in DOMAIN Iseqs /\ Level[frame.iseq] = 0

OfBlock(below, lev, home, frame, specval, lfp) ==
  /\ specval \in Places /\ lfp = home[specval]
  /\ vars_at[specval].heap \/ \E j \in 1 .. Len(below) : below[j].dfp = specval
  /\ frame.type # "CFUNC" /\ frame.iseq \in DOMAIN Iseqs
  /\ Level[frame.iseq] = lev[specval] + 1

LEMMA FrameIsFramed ==
  ASSUME NEW type \in FrameTypes, NEW iseq \in DOMAIN Iseqs \cup {None}
  PROVE  /\ Framed(Frame(type, iseq, None, None))
         /\ Frame(type, iseq, None, None).type = type
         /\ Frame(type, iseq, None, None).iseq = iseq
         /\ Frame(type, iseq, None, None).site = None
         /\ Framed([Frame(type, iseq, None, None) EXCEPT !.me = TRUE])
         /\ [Frame(type, iseq, None, None) EXCEPT !.me = TRUE].type = type
         /\ [Frame(type, iseq, None, None) EXCEPT !.me = TRUE].iseq = iseq
         /\ [Frame(type, iseq, None, None) EXCEPT !.me = TRUE].site = None
<1>1. ASSUME NEW me \in BOOLEAN, NEW f,
             f = [type |-> type, iseq |-> iseq, site |-> None, dfp |-> None, lfp |-> None, me |-> me]
      PROVE  Framed(f) /\ f.type = type /\ f.iseq = iseq /\ f.site = None
  <2>1. f.type = type /\ f.iseq = iseq /\ f.site = None
    BY <1>1
  <2>2. f = [type |-> type, iseq |-> iseq, site |-> None, dfp |-> None, lfp |-> None, me |-> me]
    BY <1>1
  <2>3. Framed(f)
    BY <2>2 DEF Framed, Frames
  <2> QED
    BY <2>1, <2>3
<1>2. PICK f : f = Frame(type, iseq, None, None)
  OBVIOUS
<1>3. Framed(f) /\ f.type = type /\ f.iseq = iseq /\ f.site = None
  BY <1>1, <1>2 DEF Frame
<1>4. PICK g : g = [Frame(type, iseq, None, None) EXCEPT !.me = TRUE]
  OBVIOUS
<1>5. g = [type |-> type, iseq |-> iseq, site |-> None, dfp |-> None, lfp |-> None, me |-> TRUE]
  BY <1>4 DEF Frame
<1>6. Framed(g) /\ g.type = type /\ g.iseq = iseq /\ g.site = None
  BY <1>1, <1>5
<1> QED
  BY <1>2, <1>3, <1>4, <1>6

\* What PushFrame does: the stacks are cut, then frame f is pushed with variables v at d.
Pushed(t, below, lev, home, frame, specval, lfp, cut, d, f, v, stacks, mem) ==
  /\ cut = [frames EXCEPT ![t] = below] /\ cut[t] = below
  /\ Shaped(cut, procs, vars_at, lev, home)
  /\ d \in Places /\ d \notin Used(frames, vars_at)
  /\ f \in Frames /\ f.dfp = d
  /\ f.type = frame.type /\ f.iseq = frame.iseq /\ f.site = frame.site
  /\ v \in Memory /\ v.svar = "nil"
  /\ v.prev = IF lfp = None THEN None ELSE specval
  /\ v.block = IF lfp = None THEN specval ELSE None
  /\ stacks = [cut EXCEPT ![t] = Append(cut[t], f)] /\ mem = [vars_at EXCEPT ![d] = v]
  /\ \E lev2, home2 : Shaped(stacks, procs, mem, lev2, home2)
  /\ Used(cut, vars_at) \subseteq Used(frames, vars_at)
  /\ lfp # None => specval \in Used(cut, vars_at)
  /\ lfp = None /\ specval # None => specval.dfp \in Used(cut, vars_at)
  /\ Used(stacks, mem) = Used(cut, vars_at) \cup {d}
  /\ Becomes(stacks, procs, mem)

LEMMA PushedIs ==
  ASSUME NEW lev, NEW home, Shaped(frames, procs, vars_at, lev, home),
         NEW t \in Threads,
         NEW below, IsCut(below, frames[t]), NEW frame, Framed(frame), NEW specval, NEW lfp,
         \/ OfMethod(below, lev, home, frame, specval, lfp)
         \/ OfBlock(below, lev, home, frame, specval, lfp),
         PushFrame(t, below, frame, specval, lfp)
  PROVE  \E cut, d, f, v, stacks, mem :
           Pushed(t, below, lev, home, frame, specval, lfp, cut, d, f, v, stacks, mem)
<1>1. PICK cut : cut = [frames EXCEPT ![t] = below]
  OBVIOUS
<1>2. Shaped(cut, procs, vars_at, lev, home) /\ PlacesOf(cut) \subseteq PlacesOf(frames)
  BY <1>1, CutKeeps
<1>3. frames \in [Threads -> Seq(Frames)] /\ vars_at \in [Places -> Memory] /\ procs \subseteq Blocks
  BY DEF Shaped, Typed
<1>4. cut[t] = below /\ below \in Seq(Frames)
  BY <1>1, <1>3 DEF IsCut
<1>5. PICK d, h : d = (CHOOSE e \in Free : TRUE) /\ h = (IF lfp = None THEN d ELSE lfp)
  OBVIOUS
<1>6. PICK f, v : f = [frame EXCEPT !.dfp = d, !.lfp = h] /\ v = Variables(lfp, specval)
  OBVIOUS
<1>7. PICK stacks, mem : /\ stacks = [frames EXCEPT ![t] = Append(below, f)]
                         /\ mem = [vars_at EXCEPT ![d] = v]
  OBVIOUS
<1>8. Free # {} /\ Becomes(stacks, procs, mem)
  BY <1>5, <1>6, <1>7 DEF PushFrame
<1>9. d \in Places /\ d \notin Used(frames, vars_at)
  <2>1. d \in Free
    BY <1>5, <1>8
  <2> QED
    BY <2>1 DEF Free, Used, OnStacks, Heap
<1>10. Used(cut, vars_at) \subseteq Used(frames, vars_at)
  BY <1>2 DEF Used
<1>11. /\ lev \in [Places -> 0 .. 3] /\ home \in [Places -> Places]
  BY DEF Shaped
<1>12. PICK n : n = IF v.prev = None THEN 0 ELSE lev[v.prev] + 1
  OBVIOUS
\* As PushKeeps wants it.
<1>13. /\ v \in Memory /\ ~v.heap /\ v.svar = "nil" /\ n \in 0 .. 3 /\ h \in Places
       /\ v.prev = (IF lfp = None THEN None ELSE specval)
       /\ v.block = (IF lfp = None THEN specval ELSE None)
       /\ lfp # None => specval \in Used(cut, vars_at)
       /\ lfp = None /\ specval # None => specval.dfp \in Used(cut, vars_at)
       /\ h = IF v.prev = None THEN d ELSE home[v.prev]
       /\ \/ FreshMethod(cut, procs, vars_at, lev, home, t, v)
          \/ FreshBlock(cut, vars_at, t, v)
       /\ IF frame.type = "CFUNC" THEN frame.iseq = None /\ n = 0
          ELSE frame.iseq \in DOMAIN Iseqs /\ n = Level[frame.iseq]
  <2>1. CASE OfMethod(below, lev, home, frame, specval, lfp)
    <3>1. lfp = None /\ GoodBlock(below, lev, home, specval)
      BY <2>1 DEF OfMethod
    <3>2. v = [Nothing EXCEPT !.block = specval]
      BY <1>6, <3>1 DEF Variables
    <3>3. v.prev = None /\ v.block = specval /\ ~v.heap /\ v.svar = "nil"
      BY <3>2 DEF Nothing
    <3>4. v \in Memory
      BY <3>1, <3>2 DEF Nothing, Memory, GoodBlock
    <3>5. n = 0 /\ h = d
      BY <1>5, <1>12, <3>1, <3>3
    <3>6. ASSUME specval # None PROVE specval.dfp \in Used(cut, vars_at)
      <4>1. CASE specval.made
        <5>1. specval \in procs
          BY <3>1, <3>6, <4>1 DEF GoodBlock
        <5>2. ProcFits(vars_at, lev, home, specval)
          BY <5>1 DEF Shaped
        <5> QED
          BY <3>1, <3>6, <5>2 DEF ProcFits, GoodBlock, Blocks, Used, Heap
      <4>2. CASE ~specval.made
        <5>1. PICK j \in 1 .. Len(below) : below[j].dfp = specval.dfp
          BY <3>1, <3>6, <4>2 DEF GoodBlock
        <5>2. Typed(cut, procs, vars_at)
          BY <1>2 DEF Shaped
        <5> QED
          BY <1>4, <5>1, <5>2, FramePlaces
      <4> QED
        BY <4>1, <4>2
    <3>7. FreshMethod(cut, procs, vars_at, lev, home, t, v)
      BY <1>4, <3>1, <3>3, <3>6 DEF FreshMethod, GoodBlock
    <3> QED
      BY <1>9, <2>1, <3>1, <3>3, <3>4, <3>5, <3>6, <3>7 DEF OfMethod
  <2>2. CASE OfBlock(below, lev, home, frame, specval, lfp)
    <3>1. specval \in Places /\ lfp = home[specval] /\ lfp \in Places /\ lfp # None /\ specval # None
      BY <1>11, <2>2, PlacesAssumption DEF OfBlock
    <3>2. v = [Nothing EXCEPT !.prev = specval]
      BY <1>6, <3>1 DEF Variables
    <3>3. v.prev = specval /\ v.block = None /\ ~v.heap /\ v.svar = "nil"
      BY <3>2 DEF Nothing
    <3>4. v \in Memory
      BY <3>1, <3>2 DEF Nothing, Memory
    <3>5. n = lev[specval] + 1 /\ h = home[specval] /\ h \in Places
      BY <1>5, <1>12, <3>1, <3>3
    <3>6. frame.type # "CFUNC" /\ frame.iseq \in DOMAIN Iseqs /\ n = Level[frame.iseq] /\ n \in 0 .. 3
      BY <2>2, <3>5, LevelIs DEF OfBlock
    <3>7. FreshBlock(cut, vars_at, t, v)
      BY <1>4, <2>2, <3>3 DEF FreshBlock, OfBlock
    <3>8. specval \in Used(cut, vars_at)
      <4>1. CASE vars_at[specval].heap
        BY <3>1, <4>1 DEF Used, Heap
      <4>2. CASE \E j \in 1 .. Len(below) : below[j].dfp = specval
        <5>1. Typed(cut, procs, vars_at)
          BY <1>2 DEF Shaped
        <5> QED
          BY <1>4, <4>2, <5>1, FramePlaces
      <4> QED
        BY <2>2, <4>1, <4>2 DEF OfBlock
    <3> QED
      BY <3>1, <3>3, <3>4, <3>5, <3>6, <3>7, <3>8
  <2> QED
    BY <2>1, <2>2
<1>14. /\ f \in Frames /\ f.dfp = d /\ f.lfp = h
       /\ f.type = frame.type /\ f.iseq = frame.iseq /\ f.site = frame.site
  <2>1. d \in Places /\ h \in Places
    BY <1>9, <1>13
  <2>2. PICK g : g = [frame EXCEPT !.dfp = d, !.lfp = h]
    OBVIOUS
  <2>3. /\ g \in Frames /\ g.dfp = d /\ g.lfp = h
        /\ g.type = frame.type /\ g.iseq = frame.iseq /\ g.site = frame.site
    BY <2>1, <2>2 DEF Framed
  <2> QED
    BY <1>6, <2>2, <2>3
<1>15. stacks = [cut EXCEPT ![t] = Append(cut[t], f)]
  BY <1>1, <1>3, <1>4, <1>7
<1>16. /\ \E lev2, home2 : Shaped(stacks, procs, mem, lev2, home2)
       /\ Used(stacks, mem) = Used(cut, vars_at) \cup {d}
  <2>1. d \notin Used(cut, vars_at)
    BY <1>9, <1>10
  <2>2. f.lfp = IF v.prev = None THEN d ELSE home[v.prev]
    BY <1>13, <1>14
  <2>3. IF f.type = "CFUNC" THEN f.iseq = None /\ n = 0 ELSE f.iseq \in DOMAIN Iseqs /\ n = Level[f.iseq]
    BY <1>13, <1>14
  <2>4. mem = [vars_at EXCEPT ![d] = v]
    BY <1>7
  <2>5. d \in Places /\ v \in Memory /\ ~v.heap /\ n \in 0 .. 3 /\ f \in Frames /\ f.dfp = d
    BY <1>9, <1>13, <1>14
  <2>6. \/ FreshMethod(cut, procs, vars_at, lev, home, t, v)
        \/ FreshBlock(cut, vars_at, t, v)
    BY <1>13
  <2>7. Pushes(cut, procs, vars_at, lev, home, t, d, v, n, f, stacks, mem)
    BY <1>2, <1>12, <1>15, <2>1, <2>2, <2>3, <2>4, <2>5, <2>6 DEF Pushes
  <2> QED
    BY <2>7, PushKeeps
<1>17. mem = [vars_at EXCEPT ![d] = v] /\ Becomes(stacks, procs, mem)
  BY <1>7, <1>8
<1>18. Pushed(t, below, lev, home, frame, specval, lfp, cut, d, f, v, stacks, mem)
  BY <1>1, <1>2, <1>4, <1>9, <1>10, <1>13, <1>14, <1>15, <1>16, <1>17 DEF Pushed
<1> QED
  BY <1>18

\* The code of the frame that is pushed, and of what its variables hang below.
OfCode(below, code, frame, specval, lfp) ==
  /\ KindFits(frame)
  /\ lfp = None => /\ frame.iseq = None \/ TypeOf(frame.iseq) \notin {"BLOCK", "RESCUE"}
                   /\ specval # None => WrittenIn(code, specval)
  /\ lfp # None => /\ frame.iseq # None /\ TypeOf(frame.iseq) \in {"BLOCK", "RESCUE"}
                   /\ Iseqs[frame.iseq].parent = code[specval]
  /\ frame.iseq # None =>
       /\ TypeOf(frame.iseq) \in {"CLASS", "RESCUE"} =>
            Len(below) > 0 /\ below[Len(below)].iseq = Iseqs[frame.iseq].parent
       /\ TypeOf(frame.iseq) = "RESCUE" => below[Len(below)].dfp = specval

LEMMA PushStep ==
  ASSUME Specials, NEW lev, NEW home, Shaped(frames, procs, vars_at, lev, home),
         NEW code, Coded(frames, procs, vars_at, code),
         NEW t \in Threads, t = Main => frames[t] # <<>>,
         NEW below, IsCut(below, frames[t]), EndsWell(below),
         NEW frame, Framed(frame), NEW specval, NEW lfp,
         \/ OfMethod(below, lev, home, frame, specval, lfp)
         \/ OfBlock(below, lev, home, frame, specval, lfp),
         OfCode(below, code, frame, specval, lfp),
         PushFrame(t, below, frame, specval, lfp)
  PROVE  IInv'
<1>1. PICK cut, d, f, v, stacks, mem :
        Pushed(t, below, lev, home, frame, specval, lfp, cut, d, f, v, stacks, mem)
  BY PushedIs
<1>2. /\ frames \in [Threads -> Seq(Frames)] /\ vars_at \in [Places -> Memory]
  BY DEF Shaped, Typed
<1>3. /\ Used(frames, vars_at) \subseteq Places /\ d \in Places /\ d \notin Used(frames, vars_at)
      /\ Used(stacks, mem) \subseteq Used(frames, vars_at) \cup {d}
      /\ v.svar = "nil"
  BY <1>1, UsedPlaces DEF Pushed, Shaped
<1>4. mem[d] = v /\ \A e \in Places \ {d} : mem[e] = vars_at[e]
  BY <1>1, <1>2 DEF Pushed
<1>5. \A u \in Threads \ {t} : stacks[u] = frames[u]
  <2>1. cut = [frames EXCEPT ![t] = below] /\ stacks = [cut EXCEPT ![t] = Append(cut[t], f)]
    BY <1>1 DEF Pushed
  <2> QED
    BY <1>2, <2>1
<1>6. KeepsSpecials(stacks, mem)
  <2>1. ASSUME NEW e \in Used(stacks, mem)
        PROVE  mem[e].svar = IF e \in Used(frames, vars_at) THEN vars_at[e].svar ELSE "nil"
    BY <1>3, <1>4, <2>1
  <2>2. frames[Main] = <<>> => stacks[Main] = <<>>
    BY <1>5, FramesAssumption
  <2> QED
    BY <2>1, <2>2 DEF KeepsSpecials
<1>7. Becomes(stacks, procs, mem) /\ \E lev2, home2 : Shaped(stacks, procs, mem, lev2, home2)
  BY <1>1 DEF Pushed
<1>8. Shaped(cut, procs, vars_at, lev, home) /\ Coded(cut, procs, vars_at, code)
  <2>1. cut = [frames EXCEPT ![t] = below] /\ Shaped(cut, procs, vars_at, lev, home)
    BY <1>1 DEF Pushed
  <2> QED
    BY <2>1, CutCoded
<1>9. /\ f \in Frames /\ f.dfp = d /\ d \notin Used(cut, vars_at) /\ cut[t] = below
      /\ f.type = frame.type /\ f.iseq = frame.iseq /\ f.site = frame.site
      /\ v.prev = (IF lfp = None THEN None ELSE specval)
      /\ v.block = (IF lfp = None THEN specval ELSE None)
      /\ lfp # None => specval \in Used(cut, vars_at) /\ specval # None
      /\ lfp = None /\ specval # None => specval.dfp \in Used(cut, vars_at)
  <2>1. Used(cut, vars_at) \subseteq Places
    BY <1>8, UsedPlaces DEF Shaped
  <2> QED
    BY <1>1, <2>1, PlacesAssumption DEF Pushed
<1>10. FitsOnTop(cut, vars_at, code, t, f, v)
  <2>1. KindFits(f)
    BY <1>9 DEF OfCode, KindFits
  <2> QED
    BY <1>9, <2>1 DEF OfCode, FitsOnTop
<1>11. /\ stacks = [cut EXCEPT ![t] = Append(cut[t], f)] /\ mem = [vars_at EXCEPT ![d] = v]
       /\ Used(stacks, mem) = Used(cut, vars_at) \cup {d}
  BY <1>1 DEF Pushed
<1>12. \E code2 : Coded(stacks, procs, mem, code2)
  BY <1>3, <1>8, <1>9, <1>10, <1>11, PushCoded
<1> QED
  BY <1>6, <1>7, <1>12, BecomesKeeps

\* The running frame.
LEMMA TopIs ==
  ASSUME NEW lev, NEW home, Shaped(frames, procs, vars_at, lev, home),
         NEW t \in Threads, Running(t)
  PROVE  /\ frames[t] \in Seq(Frames) /\ Len(frames[t]) \in 1 .. Len(frames[t])
         /\ Top(t) \in Frames /\ Top(t).dfp \in Places /\ Top(t).lfp \in Places
         /\ Top(t).lfp = home[Top(t).dfp]
         /\ Top(t).type # "CFUNC" => /\ Top(t).iseq \in DOMAIN Iseqs
                                     /\ lev[Top(t).dfp] = Level[Top(t).iseq]
<1>1. frames[t] \in Seq(Frames) /\ frames[t] # <<>>
  BY DEF Shaped, Typed, Running
<1>2. Len(frames[t]) \in 1 .. Len(frames[t])
  BY <1>1, EmptySeq
<1>3. Top(t) \in Frames /\ FrameFits(frames[t], Len(frames[t]), vars_at, lev, home)
  BY <1>1, <1>2, ElementOfSeq DEF Top, Shaped
<1> QED
  BY <1>1, <1>2, <1>3 DEF Frames, Top, FrameFits

\* The running frame at a call with this block, or at one without.
LEMMA AtCall ==
  ASSUME NEW lev, NEW home, Shaped(frames, procs, vars_at, lev, home),
         NEW t \in Threads, Running(t), NEW site \in DOMAIN Iseqs \cup {"plain"}
  PROVE  /\ IsCut(At(t, site), frames[t]) /\ Len(At(t, site)) = Len(frames[t])
         /\ \E j \in 1 .. Len(At(t, site)) :
              At(t, site)[j].dfp = Top(t).dfp /\ At(t, site)[j].site = site
         /\ \A j \in 1 .. Len(frames[t]) - 1 :
              /\ j \in 1 .. Len(At(t, site))
              /\ At(t, site)[j].dfp = frames[t][j].dfp /\ At(t, site)[j].site = frames[t][j].site
<1>1. PICK s, b : s = frames[t] /\ b = At(t, site)
  OBVIOUS
<1>2. s \in Seq(Frames) /\ Len(s) \in 1 .. Len(s) /\ s # <<>>
  BY <1>1, TopIs DEF Running
<1>3. b = [s EXCEPT ![Len(s)].site = site]
  BY <1>1 DEF At
<1>4. IsCut(b, s) /\ Len(b) = Len(s) /\ b[Len(s)].site = site
  BY <1>2, <1>3, AtIsCut
<1>5. \A j \in 1 .. Len(b) : b[j].dfp = s[j].dfp /\ (j < Len(b) => b[j].site = s[j].site)
  BY <1>4 DEF IsCut
<1>6. Top(t) = s[Len(s)] /\ Len(s) \in 1 .. Len(b)
  BY <1>1, <1>2, <1>4 DEF Top
<1>7. \A j \in 1 .. Len(s) - 1 : j \in 1 .. Len(b) /\ j < Len(b)
  BY <1>2, <1>4
<1> QED
  BY <1>1, <1>4, <1>5, <1>6, <1>7

LEMMA AtEndsWell ==
  ASSUME NEW lev, NEW home, Shaped(frames, procs, vars_at, lev, home),
         NEW t \in Threads, Running(t), NEW site \in DOMAIN Iseqs \cup {"plain"},
         Top(t).type = "CFUNC" => site = "plain"
  PROVE  /\ EndsWell(At(t, site)) /\ Len(At(t, site)) > 0
         /\ At(t, site)[Len(At(t, site))].iseq = Top(t).iseq
<1>1. PICK s, b : s = frames[t] /\ b = At(t, site)
  OBVIOUS
<1>2. s \in Seq(Frames) /\ Len(s) \in 1 .. Len(s) /\ s # <<>>
  BY <1>1, TopIs DEF Running
<1>3. b = [s EXCEPT ![Len(s)].site = site]
  BY <1>1 DEF At
<1>4. IsCut(b, s) /\ Len(b) = Len(s) /\ b[Len(s)].site = site
  <2>1. site \in DOMAIN Iseqs \cup {None, "plain"}
    OBVIOUS
  <2> QED
    BY ZenonT(60), <1>2, <1>3, <2>1, AtIsCut
<1>5. b[Len(b)].type = Top(t).type /\ b[Len(b)].iseq = Top(t).iseq
  BY <1>1, <1>2, <1>4 DEF IsCut, Top
<1> QED
  BY <1>1, <1>2, <1>4, <1>5 DEF EndsWell

\* Blocks at a call: written there, or a Proc.
LEMMA GivenIsGood ==
  ASSUME NEW lev, NEW home, Shaped(frames, procs, vars_at, lev, home),
         NEW t \in Threads, InCode(t), NEW block \in Given(t),
         NEW code, Coded(frames, procs, vars_at, code)
  PROVE  /\ SiteOf(t, block) \in DOMAIN Iseqs \cup {"plain"}
         /\ GoodBlock(At(t, SiteOf(t, block)), lev, home, block)
         /\ block # None => WrittenIn(code, block)
<1>1. Running(t) /\ Top(t).type # "CFUNC"
  BY DEF InCode
<1>2. SiteOf(t, block) \in DOMAIN Iseqs \cup {"plain"}
  BY DEF SiteOf, Literals, LiteralBlock, Within
<1>3. CASE block \in Literals(t)
  <2>1. PICK b \in Within(Top(t).iseq, "BLOCK") : block = LiteralBlock(Top(t), b)
    BY <1>3 DEF Literals
  <2>2. b \in DOMAIN Iseqs /\ Level[b] = Level[Top(t).iseq] + 1
    BY <2>1, LevelIs DEF Within, Nested
  <2>3. /\ block.iseq = b /\ block.dfp = Top(t).dfp /\ block.lfp = Top(t).lfp
        /\ ~block.made /\ block \in Blocks
    BY <1>1, <2>1, <2>2, TopIs DEF LiteralBlock, Blocks
  <2>4. BlockFits(lev, home, block)
    BY <1>1, <2>2, <2>3, TopIs DEF BlockFits
  <2>5. SiteOf(t, block) = b /\ b # None
    BY <1>3, <2>2, <2>3, PlacesAssumption DEF SiteOf
  <2>6. \E j \in 1 .. Len(At(t, b)) : At(t, b)[j].dfp = block.dfp /\ At(t, b)[j].site = b
    BY <1>1, <2>2, <2>3, AtCall
  <2>7. WrittenIn(code, block)
    <3>1. Top(t).iseq = code[Top(t).dfp]
      BY <1>1, TopIs DEF Coded, FrameCoded, Top
    <3> QED
      BY <2>1, <2>3, <3>1 DEF WrittenIn, Within
  <2> QED
    BY <1>2, <2>3, <2>4, <2>5, <2>6, <2>7 DEF GoodBlock
<1>4. CASE block \in procs
  BY <1>2, <1>4 DEF GoodBlock, Shaped, Typed, ProcFits, Coded
<1>5. CASE block = None
  BY <1>2, <1>5 DEF GoodBlock
<1> QED
  BY <1>3, <1>4, <1>5 DEF Given

\* So is the block that the method of a frame was called with.
LEMMA PassedIsGood ==
  ASSUME NEW lev, NEW home, Shaped(frames, procs, vars_at, lev, home),
         NEW t \in Threads, Running(t), NEW block, block = vars_at[Top(t).lfp].block
  PROVE  /\ GoodBlock(At(t, "plain"), lev, home, block)
         /\ block # None => /\ block \in Blocks /\ BlockFits(lev, home, block)
                            /\ block.made => block \in procs /\ vars_at[block.dfp].heap
                            /\ ~block.made => AtCallBelow(frames[t], Len(frames[t]), block.dfp)
<1>1. /\ Len(frames[t]) \in 1 .. Len(frames[t]) /\ Top(t) = frames[t][Len(frames[t])]
  BY TopIs DEF Top
<1>2. block # None => /\ block \in Blocks /\ BlockFits(lev, home, block)
                      /\ block.made => block \in procs /\ vars_at[block.dfp].heap
                      /\ ~block.made => AtCallBelow(frames[t], Len(frames[t]), block.dfp)
  <2>1. PICK k \in 1 .. Len(frames[t]) : k = Len(frames[t])
    BY <1>1
  <2>2. block = vars_at[frames[t][k].lfp].block
    BY <1>1, <2>1
  <2>3. vars_at[frames[t][k].lfp].block # None =>
              /\ vars_at[frames[t][k].lfp].block \in Blocks
              /\ BlockFits(lev, home, vars_at[frames[t][k].lfp].block)
              /\ IF vars_at[frames[t][k].lfp].block.made
                 THEN /\ vars_at[frames[t][k].lfp].block \in procs
                      /\ vars_at[vars_at[frames[t][k].lfp].block.dfp].heap
                 ELSE AtCallBelow(frames[t], k, vars_at[frames[t][k].lfp].block.dfp)
    BY BlockOf
  <2> QED
    BY <2>1, <2>2, <2>3
<1>3. ASSUME block # None, ~block.made
      PROVE  \E j \in 1 .. Len(At(t, "plain")) :
               At(t, "plain")[j].dfp = block.dfp /\ At(t, "plain")[j].site # None
  <2>1. PICK j \in 1 .. Len(frames[t]) - 1 :
          frames[t][j].dfp = block.dfp /\ frames[t][j].site # None
    BY <1>2, <1>3 DEF AtCallBelow
  <2> QED
    BY <2>1, AtCall
<1> QED
  BY <1>2, <1>3 DEF GoodBlock

LEMMA PassedCode ==
  ASSUME NEW lev, NEW home, Shaped(frames, procs, vars_at, lev, home),
         NEW code, Coded(frames, procs, vars_at, code),
         NEW t \in Threads, Running(t), vars_at[Top(t).lfp].block # None
  PROVE  WrittenIn(code, vars_at[Top(t).lfp].block)
<1>1. Top(t).lfp \in Used(frames, vars_at)
  BY TopIs, BlockOf DEF Top
<1> QED
  BY <1>1 DEF Coded, PlaceCoded

-----------------------------------------------------------------------------
(* Calls.                                                                  *)

LEMMA LevelsAre ==
  /\ \A i \in DOMAIN Iseqs : TypeOf(i) \in {"METHOD", "CLASS", "TOP"} => Level[i] = 0
  /\ \A i \in DOMAIN Iseqs : TypeOf(i) \in {"BLOCK", "RESCUE"} =>
       Iseqs[i].parent \in DOMAIN Iseqs /\ Level[i] = Level[Iseqs[i].parent] + 1
  BY LevelIs DEF Nested

\* What all frames of methods and class bodies have in common.
LEMMA MethodStep ==
  ASSUME Specials, NEW lev, NEW home, Shaped(frames, procs, vars_at, lev, home),
         NEW code, Coded(frames, procs, vars_at, code),
         NEW t \in Threads, Running(t), NEW below, IsCut(below, frames[t]), EndsWell(below),
         NEW type \in FrameTypes, NEW iseq \in DOMAIN Iseqs \cup {None},
         IF type = "CFUNC" THEN iseq = None ELSE iseq \in DOMAIN Iseqs /\ Level[iseq] = 0,
         type # "CFUNC" => TypeOf(iseq) = type /\ type \in {"METHOD", "CLASS"},
         type = "CLASS" => Len(below) > 0 /\ below[Len(below)].iseq = Iseqs[iseq].parent,
         NEW block, GoodBlock(below, lev, home, block), block # None => WrittenIn(code, block),
         vm_push_frame(t, below, type, iseq, block, None)
  PROVE  IInv'
<1>1. PICK f : f = Frame(type, iseq, None, None)
  OBVIOUS
<1>2. Framed(f) /\ f.type = type /\ f.iseq = iseq /\ f.site = None
  BY <1>1, FrameIsFramed
<1>3. OfMethod(below, lev, home, f, block, None)
  BY <1>2 DEF OfMethod
<1>4. PushFrame(t, below, f, block, None)
  BY <1>1 DEF vm_push_frame
<1>5. frames[t] # <<>>
  BY DEF Running
<1>6. OfCode(below, code, f, block, None)
  <2>1. KindFits(f)
    BY <1>2, PlacesAssumption DEF KindFits
  <2> QED
    BY <1>2, <2>1, PlacesAssumption DEF OfCode
<1> QED
  BY <1>2, <1>3, <1>4, <1>5, <1>6, PushStep

LEMMA CallMethodStep ==
  ASSUME IInv, NEW t \in Threads, CallMethod(t)
  PROVE  IInv'
<1>1. PICK lev, home, code :
        Shaped(frames, procs, vars_at, lev, home) /\ Coded(frames, procs, vars_at, code) /\ Specials
  BY DEF IInv, Pointers, Codes
<1>2. PICK m \in {i \in DOMAIN Iseqs : TypeOf(i) = "METHOD"} : \E block \in Given(t) :
        vm_push_frame(t, At(t, SiteOf(t, block)), "METHOD", m, block, None)
  BY DEF CallMethod
<1>3. PICK block \in Given(t) :
        vm_push_frame(t, At(t, SiteOf(t, block)), "METHOD", m, block, None)
  BY <1>2
<1>4. InCode(t) /\ Running(t)
  BY DEF CallMethod, InCode
<1>5. /\ SiteOf(t, block) \in DOMAIN Iseqs \cup {"plain"}
      /\ GoodBlock(At(t, SiteOf(t, block)), lev, home, block)
      /\ block # None => WrittenIn(code, block)
  BY <1>1, <1>4, GivenIsGood
<1>6. IsCut(At(t, SiteOf(t, block)), frames[t]) /\ EndsWell(At(t, SiteOf(t, block)))
  BY <1>1, <1>4, <1>5, AtCall, AtEndsWell DEF InCode
<1>7. m \in DOMAIN Iseqs /\ Level[m] = 0 /\ TypeOf(m) = "METHOD" /\ "METHOD" \in FrameTypes
  BY LevelsAre DEF FrameTypes
<1> QED
  BY <1>1, <1>3, <1>4, <1>5, <1>6, <1>7, MethodStep

LEMMA TailCallStep ==
  ASSUME IInv, NEW t \in Threads, TailCall(t)
  PROVE  IInv'
<1>1. PICK lev, home, code :
        Shaped(frames, procs, vars_at, lev, home) /\ Coded(frames, procs, vars_at, code) /\ Specials
  BY DEF IInv, Pointers, Codes
<1>2. PICK below : below = SubSeq(frames[t], 1, Len(frames[t]) - 1)
  OBVIOUS
<1>3. PICK m \in {i \in DOMAIN Iseqs : TypeOf(i) = "METHOD"} : \E block \in {None} \cup procs :
        vm_push_frame(t, below, "METHOD", m, block, None)
  BY <1>2 DEF TailCall
<1>4. PICK block \in {None} \cup procs : vm_push_frame(t, below, "METHOD", m, block, None)
  BY <1>3
<1>5. Running(t)
  BY DEF TailCall, InCode
<1>6. frames[t] \in Seq(Frames) /\ Len(frames[t]) \in Nat /\ Len(frames[t]) >= 1
  BY <1>1, <1>5, TopIs, LenProperties
<1>7. IsCut(below, frames[t])
  BY <1>2, <1>6 DEF IsCut
<1>8. GoodBlock(below, lev, home, block) /\ (block # None => WrittenIn(code, block))
  BY <1>1 DEF GoodBlock, Shaped, Typed, ProcFits, Coded
<1>9. m \in DOMAIN Iseqs /\ Level[m] = 0 /\ TypeOf(m) = "METHOD" /\ "METHOD" \in FrameTypes
  BY LevelsAre DEF FrameTypes
<1>10. EndsWell(below)
  <2>1. PICK k \in Nat : k = Len(frames[t]) - 1
    BY SMTT(30), <1>6
  <2>2. Len(below) = k /\ \A j \in 1 .. k : below[j] = frames[t][j]
    BY <1>2, <1>6, <2>1
  <2>3. ASSUME k # 0 PROVE KindFits(frames[t][k])
    <3>1. k \in Int /\ k >= 1 /\ k <= Len(frames[t])
      <4>1. PICK n \in Nat : n = Len(frames[t])
        BY <1>6
      <4>2. k = n - 1
        BY <2>1, <4>1
      <4>3. k >= 1 /\ k <= n
        BY <2>3, <4>2
      <4> QED
        BY <4>1, <4>3
    <3>2. k \in 1 .. Len(frames[t])
      BY <1>6, <3>1
    <3> QED
      BY <1>1, <3>2 DEF Coded, FrameCoded
  <2>4. k # 0 => k \in 1 .. k
    OBVIOUS
  <2> QED
    BY <2>2, <2>3, <2>4 DEF EndsWell, KindFits
<1> QED
  BY <1>1, <1>4, <1>5, <1>7, <1>8, <1>9, <1>10, MethodStep

LEMMA CallCfuncStep ==
  ASSUME IInv, NEW t \in Threads, CallCfunc(t)
  PROVE  IInv'
<1>1. PICK lev, home, code :
        Shaped(frames, procs, vars_at, lev, home) /\ Coded(frames, procs, vars_at, code) /\ Specials
  BY DEF IInv, Pointers, Codes
<1>2. PICK block \in Literals(t) :
        vm_push_frame(t, At(t, SiteOf(t, block)), "CFUNC", None, block, None)
  BY DEF CallCfunc
<1>3. InCode(t) /\ Running(t) /\ block \in Given(t)
  BY DEF CallCfunc, InCode, Given
<1>4. /\ SiteOf(t, block) \in DOMAIN Iseqs \cup {"plain"}
      /\ GoodBlock(At(t, SiteOf(t, block)), lev, home, block)
      /\ block # None => WrittenIn(code, block)
  BY <1>1, <1>3, GivenIsGood
<1>5. IsCut(At(t, SiteOf(t, block)), frames[t]) /\ EndsWell(At(t, SiteOf(t, block)))
  BY <1>1, <1>3, <1>4, AtCall, AtEndsWell DEF InCode
<1>6. "CFUNC" \in FrameTypes
  BY DEF FrameTypes
<1> QED
  BY <1>1, <1>2, <1>3, <1>4, <1>5, <1>6, MethodStep

LEMMA DefineClassStep ==
  ASSUME IInv, NEW t \in Threads, DefineClass(t)
  PROVE  IInv'
<1>1. PICK lev, home, code :
        Shaped(frames, procs, vars_at, lev, home) /\ Coded(frames, procs, vars_at, code) /\ Specials
  BY DEF IInv, Pointers, Codes
<1>2. PICK c \in Within(Top(t).iseq, "CLASS") :
        vm_push_frame(t, At(t, "plain"), "CLASS", c, vars_at[Top(t).lfp].block, None)
  BY DEF DefineClass
<1>3. Running(t)
  BY DEF DefineClass, InCode
<1>4. /\ GoodBlock(At(t, "plain"), lev, home, vars_at[Top(t).lfp].block)
      /\ vars_at[Top(t).lfp].block # None => WrittenIn(code, vars_at[Top(t).lfp].block)
  BY <1>1, <1>3, PassedIsGood, PassedCode
<1>5. /\ IsCut(At(t, "plain"), frames[t]) /\ EndsWell(At(t, "plain"))
      /\ Len(At(t, "plain")) > 0 /\ At(t, "plain")[Len(At(t, "plain"))].iseq = Iseqs[c].parent
  BY <1>1, <1>3, AtCall, AtEndsWell DEF Within
<1>6. c \in DOMAIN Iseqs /\ Level[c] = 0 /\ TypeOf(c) = "CLASS" /\ "CLASS" \in FrameTypes
  BY LevelsAre DEF FrameTypes, Within
<1> QED
  BY <1>1, <1>2, <1>3, <1>4, <1>5, <1>6, MethodStep

-----------------------------------------------------------------------------
(* Blocks.                                                                 *)

\* The variables a block hangs below are in the heap, or further down.
LEMMA BlockStep ==
  ASSUME Specials, NEW lev, NEW home, Shaped(frames, procs, vars_at, lev, home),
         NEW code, Coded(frames, procs, vars_at, code),
         NEW t \in Threads, t = Main => frames[t] # <<>>, NEW below, IsCut(below, frames[t]),
         EndsWell(below),
         NEW frame, Framed(frame), NEW block \in Blocks, BlockFits(lev, home, block),
         vars_at[block.dfp].heap \/ \E j \in 1 .. Len(below) : below[j].dfp = block.dfp,
         frame.type \in {"BLOCK", "LAMBDA"}, frame.iseq = block.iseq, WrittenIn(code, block),
         PushFrame(t, below, frame, block.dfp, block.lfp)
  PROVE  IInv'
<1>1. block.dfp \in Places /\ block.iseq \in DOMAIN Iseqs
  BY DEF Blocks
<1>2. OfBlock(below, lev, home, frame, block.dfp, block.lfp)
  BY <1>1 DEF OfBlock, BlockFits
<1>3. OfCode(below, code, frame, block.dfp, block.lfp)
  <2>1. block.lfp # None /\ block.iseq # None
    BY <1>1, PlacesAssumption DEF Blocks
  <2>2. KindFits(frame)
    BY <1>1 DEF KindFits, WrittenIn
  <2> QED
    BY <2>1, <2>2 DEF OfCode, WrittenIn
<1> QED
  BY <1>2, <1>3, PushStep

LEMMA PassedStep ==
  ASSUME Specials, NEW lev, NEW home, Shaped(frames, procs, vars_at, lev, home),
         NEW code, Coded(frames, procs, vars_at, code),
         NEW t \in Threads, Running(t), NEW block, block = vars_at[Top(t).lfp].block,
         block # None, NEW type \in {"BLOCK", "LAMBDA"},
         vm_push_frame(t, At(t, "plain"), type, block.iseq, block.dfp, block.lfp)
  PROVE  IInv'
<1>1. /\ block \in Blocks /\ BlockFits(lev, home, block)
      /\ GoodBlock(At(t, "plain"), lev, home, block)
      /\ block.made => vars_at[block.dfp].heap
      /\ WrittenIn(code, block)
  BY PassedIsGood, PassedCode
<1>2. \/ vars_at[block.dfp].heap
      \/ \E j \in 1 .. Len(At(t, "plain")) : At(t, "plain")[j].dfp = block.dfp
  BY <1>1 DEF GoodBlock
<1>3. IsCut(At(t, "plain"), frames[t]) /\ EndsWell(At(t, "plain")) /\ frames[t] # <<>>
  BY AtCall, AtEndsWell DEF Running
<1>4. PICK f : f = Frame(type, block.iseq, None, None)
  OBVIOUS
<1>5. Framed(f) /\ f.type = type /\ f.iseq = block.iseq
  <2>1. type \in FrameTypes
    BY DEF FrameTypes
  <2> QED
    BY <1>1, <1>4, <2>1, FrameIsFramed DEF Blocks
<1>6. PushFrame(t, At(t, "plain"), f, block.dfp, block.lfp)
  BY <1>4 DEF vm_push_frame
<1> QED
  BY <1>1, <1>2, <1>3, <1>5, <1>6, BlockStep

LEMMA InvokeBlockStep ==
  ASSUME IInv, NEW t \in Threads, vm_invoke_block(t)
  PROVE  IInv'
<1>1. PICK lev, home, code :
        Shaped(frames, procs, vars_at, lev, home) /\ Coded(frames, procs, vars_at, code) /\ Specials
  BY DEF IInv, Pointers, Codes
<1>2. PICK block : block = vars_at[Top(t).lfp].block
  OBVIOUS
<1>3. Running(t) /\ block # None
  BY <1>2 DEF vm_invoke_block, InCode
<1>4. vm_push_frame(t, At(t, "plain"), "BLOCK", block.iseq, block.dfp, block.lfp)
  BY <1>2 DEF vm_invoke_block, YieldsToBlock
<1> QED
  BY <1>1, <1>2, <1>3, <1>4, PassedStep

LEMMA CfuncYieldsStep ==
  ASSUME IInv, NEW t \in Threads, CfuncYields(t)
  PROVE  IInv'
<1>1. PICK lev, home, code :
        Shaped(frames, procs, vars_at, lev, home) /\ Coded(frames, procs, vars_at, code) /\ Specials
  BY DEF IInv, Pointers, Codes
<1>2. PICK block : block = vars_at[Top(t).lfp].block
  OBVIOUS
<1>3. Running(t) /\ block # None
  BY <1>2 DEF CfuncYields, InCfunc
<1>4. PICK type : type = IF block.lambda THEN "LAMBDA" ELSE "BLOCK"
  OBVIOUS
<1>5. vm_push_frame(t, At(t, "plain"), type, block.iseq, block.dfp, block.lfp)
  BY <1>2, <1>4 DEF CfuncYields, Invoke
<1>6. type \in {"BLOCK", "LAMBDA"}
  BY <1>4
<1> QED
  BY <1>1, <1>2, <1>3, <1>5, <1>6, PassedStep

\* A Proc is run by code, or by a thread that is started with it.
LEMMA ProcStep ==
  ASSUME Specials, NEW lev, NEW home, Shaped(frames, procs, vars_at, lev, home),
         NEW code, Coded(frames, procs, vars_at, code),
         NEW t \in Threads, t = Main => frames[t] # <<>>, NEW below, IsCut(below, frames[t]),
         EndsWell(below),
         NEW p \in procs, NEW frame, Framed(frame), frame.type \in {"BLOCK", "LAMBDA"},
         frame.iseq = p.iseq,
         PushFrame(t, below, frame, p.dfp, p.lfp)
  PROVE  IInv'
<1>1. p \in Blocks /\ ProcFits(vars_at, lev, home, p)
  BY DEF Shaped, Typed
<1>2. vars_at[p.dfp].heap /\ BlockFits(lev, home, p)
  BY <1>1 DEF ProcFits
<1>3. WrittenIn(code, p)
  BY DEF Coded
<1> QED
  BY <1>1, <1>2, <1>3, BlockStep

LEMMA CallProcStep ==
  ASSUME IInv, NEW t \in Threads, CallProc(t)
  PROVE  IInv'
<1>1. PICK lev, home, code :
        Shaped(frames, procs, vars_at, lev, home) /\ Coded(frames, procs, vars_at, code) /\ Specials
  BY DEF IInv, Pointers, Codes
<1>2. PICK p \in procs : Invoke(t, p)
  BY DEF CallProc
<1>3. PICK type : type = IF p.lambda THEN "LAMBDA" ELSE "BLOCK"
  OBVIOUS
<1>4. PICK f : f = Frame(type, p.iseq, None, None)
  OBVIOUS
<1>5. type \in FrameTypes /\ type \in {"BLOCK", "LAMBDA"} /\ p.iseq \in DOMAIN Iseqs
  BY <1>1, <1>3 DEF FrameTypes, Shaped, Typed, Blocks
<1>6. Framed(f) /\ f.type = type /\ f.iseq = p.iseq
  BY ZenonT(60), <1>4, <1>5, FrameIsFramed
<1>7. Running(t) /\ frames[t] # <<>>
  BY DEF CallProc, InCode, Running
<1>8. IsCut(At(t, "plain"), frames[t]) /\ EndsWell(At(t, "plain"))
  BY <1>1, <1>7, AtCall, AtEndsWell
<1>9. PushFrame(t, At(t, "plain"), f, p.dfp, p.lfp)
  BY <1>2, <1>3, <1>4 DEF Invoke, vm_push_frame
<1> QED
  BY <1>1, <1>5, <1>6, <1>7, <1>8, <1>9, ProcStep

LEMMA CallBmethodStep ==
  ASSUME IInv, NEW t \in Threads, CallBmethod(t)
  PROVE  IInv'
<1>1. PICK lev, home, code :
        Shaped(frames, procs, vars_at, lev, home) /\ Coded(frames, procs, vars_at, code) /\ Specials
  BY DEF IInv, Pointers, Codes
<1>2. PICK p \in procs :
        PushFrame(t, At(t, "plain"), [Frame("LAMBDA", p.iseq, None, None) EXCEPT !.me = TRUE],
                  p.dfp, p.lfp)
  BY DEF CallBmethod
<1>3. PICK f : f = [Frame("LAMBDA", p.iseq, None, None) EXCEPT !.me = TRUE]
  OBVIOUS
<1>4. "LAMBDA" \in FrameTypes /\ p.iseq \in DOMAIN Iseqs
  BY <1>1 DEF FrameTypes, Shaped, Typed, Blocks
<1>5. Framed(f) /\ f.type = "LAMBDA" /\ f.iseq = p.iseq
  BY <1>3, <1>4, FrameIsFramed
<1>6. Running(t) /\ frames[t] # <<>>
  BY DEF CallBmethod, InCode, Running
<1>7. IsCut(At(t, "plain"), frames[t]) /\ EndsWell(At(t, "plain"))
  BY <1>1, <1>6, AtCall, AtEndsWell
<1>8. PushFrame(t, At(t, "plain"), f, p.dfp, p.lfp) /\ f.type \in {"BLOCK", "LAMBDA"}
  BY <1>2, <1>3, <1>5
<1> QED
  BY <1>1, <1>5, <1>6, <1>7, <1>8, ProcStep

LEMMA ThreadStartStep ==
  ASSUME IInv, NEW t \in Threads, ThreadStart(t)
  PROVE  IInv'
<1>1. PICK lev, home, code :
        Shaped(frames, procs, vars_at, lev, home) /\ Coded(frames, procs, vars_at, code) /\ Specials
  BY DEF IInv, Pointers, Codes
<1>2. PICK below : below = <<>>
  OBVIOUS
<1>3. PICK p \in procs :
        vm_push_frame(t, below, IF p.lambda THEN "LAMBDA" ELSE "BLOCK", p.iseq, p.dfp, p.lfp)
  BY <1>2 DEF ThreadStart
<1>4. PICK type : type = IF p.lambda THEN "LAMBDA" ELSE "BLOCK"
  OBVIOUS
<1>5. PICK f : f = Frame(type, p.iseq, None, None)
  OBVIOUS
<1>6. type \in FrameTypes /\ type \in {"BLOCK", "LAMBDA"} /\ p.iseq \in DOMAIN Iseqs
  BY <1>1, <1>4 DEF FrameTypes, Shaped, Typed, Blocks
<1>7. Framed(f) /\ f.type = type /\ f.iseq = p.iseq
  BY ZenonT(60), <1>5, <1>6, FrameIsFramed
<1>8. t # Main
  BY DEF ThreadStart
<1>9. IsCut(below, frames[t]) /\ EndsWell(below)
  <2>1. frames[t] \in Seq(Frames)
    BY <1>1 DEF Shaped, Typed
  <2>2. Len(frames[t]) \in Nat
    BY <2>1, LenProperties
  <2>3. below \in Seq(Frames) /\ Len(below) = 0 /\ 1 .. Len(below) = {}
    BY <1>2
  <2> QED
    BY <2>2, <2>3 DEF IsCut, EndsWell
<1>10. PushFrame(t, below, f, p.dfp, p.lfp)
  BY <1>3, <1>4, <1>5 DEF vm_push_frame
<1> QED
  BY <1>1, <1>6, <1>7, <1>8, <1>9, <1>10, ProcStep

-----------------------------------------------------------------------------
(* Frames are left.                                                        *)

LEMMA CutStep ==
  ASSUME Specials, NEW lev, NEW home, Shaped(frames, procs, vars_at, lev, home),
         NEW code, Coded(frames, procs, vars_at, code),
         NEW t \in Threads, Running(t), NEW below, IsCut(below, frames[t]),
         EndsWell(below),
         Becomes([frames EXCEPT ![t] = below], procs, vars_at)
  PROVE  IInv'
<1>1. PICK cut : cut = [frames EXCEPT ![t] = below]
  OBVIOUS
<1>2. Shaped(cut, procs, vars_at, lev, home) /\ PlacesOf(cut) \subseteq PlacesOf(frames)
  BY <1>1, CutKeeps
<1>3. Used(cut, vars_at) \subseteq Used(frames, vars_at)
  BY <1>2 DEF Used
<1>4. frames[Main] # <<>> \/ cut[Main] = frames[Main]
  BY <1>1, FramesAssumption DEF Shaped, Typed, Running
<1>5. KeepsSpecials(cut, vars_at)
  BY <1>3, <1>4 DEF KeepsSpecials
<1>6. Becomes(cut, procs, vars_at)
  BY <1>1
<1>7. Coded(cut, procs, vars_at, code)
  BY <1>1, CutCoded
<1> QED
  BY <1>2, <1>5, <1>6, <1>7, BecomesKeeps

LEMMA BackStep ==
  ASSUME Specials, NEW lev, NEW home, Shaped(frames, procs, vars_at, lev, home),
         NEW code, Coded(frames, procs, vars_at, code),
         NEW t \in Threads, Running(t), NEW n \in Int, n <= Len(frames[t]),
         Becomes([frames EXCEPT ![t] = Back(t, n)], procs, vars_at)
  PROVE  IInv'
<1>1. Back(t, n) = Cut(frames[t], n)
  BY DEF Back, Cut
<1>2. frames[t] \in Seq(Frames)
  BY TopIs
<1>3. IsCut(Back(t, n), frames[t]) /\ EndsWell(Back(t, n))
  BY <1>1, <1>2, BackIsCut
<1> QED
  BY <1>3, CutStep

LEMMA LeaveStep ==
  ASSUME IInv, NEW t \in Threads, Leave(t)
  PROVE  IInv'
<1>1. PICK lev, home, code :
        Shaped(frames, procs, vars_at, lev, home) /\ Coded(frames, procs, vars_at, code) /\ Specials
  BY DEF IInv, Pointers, Codes
<1>2. PICK n : n = Len(frames[t]) - 1
  OBVIOUS
<1>3. Running(t) /\ Becomes([frames EXCEPT ![t] = Back(t, n)], procs, vars_at)
  BY <1>2 DEF Leave, Popped
<1>4. n \in Int /\ n <= Len(frames[t])
  BY <1>1, <1>2, <1>3, TopIs
<1> QED
  BY <1>1, <1>3, <1>4, BackStep

\* A frame there is, or 0.
LEMMA FrameOfIs ==
  ASSUME NEW s, NEW k \in Nat, NEW d
  PROVE  \/ FrameOf(s, k, d) = 0 /\ \A i \in 1 .. k : s[i].dfp # d
         \/ /\ FrameOf(s, k, d) \in 1 .. k /\ s[FrameOf(s, k, d)].dfp = d
            /\ \A i \in 1 .. k : s[i].dfp = d => i <= FrameOf(s, k, d)
<1>1. PICK with : with = {j \in 1 .. k : s[j].dfp = d}
  OBVIOUS
<1>2. FrameOf(s, k, d) = IF with = {} THEN 0 ELSE CHOOSE j \in with : \A i \in with : i <= j
  BY <1>1 DEF FrameOf
<1>3. ASSUME with # {} PROVE \E j \in with : \A i \in with : i <= j
  <2>1. with \in SUBSET (1 .. k)
    BY <1>1
  <2> QED
    BY <1>3, <2>1, LargestOf
<1>4. CASE with = {}
  BY <1>1, <1>2, <1>4
<1>5. CASE with # {}
  <2>1. FrameOf(s, k, d) \in with /\ \A i \in with : i <= FrameOf(s, k, d)
    BY <1>2, <1>3, <1>5
  <2> QED
    BY <1>1, <2>1
<1> QED
  BY <1>4, <1>5

LEMMA UnwindStep ==
  ASSUME IInv, NEW t \in Threads, Running(t), NEW thrown, Unwind(t, thrown)
  PROVE  IInv'
<1>1. PICK lev, home, code :
        Shaped(frames, procs, vars_at, lev, home) /\ Coded(frames, procs, vars_at, code) /\ Specials
  BY DEF IInv, Pointers, Codes
<1>2. PICK j : j = FrameOf(frames[t], Len(frames[t]), thrown.pt)
  OBVIOUS
<1>3. PICK n : n = IF thrown.state = "RETURN" THEN j - 1 ELSE j
  OBVIOUS
<1>4. Becomes([frames EXCEPT ![t] = Back(t, n)], procs, vars_at)
  BY <1>2, <1>3 DEF Unwind
<1>5. Len(frames[t]) \in Nat
  BY <1>1, TopIs
<1>6. j \in Int /\ j <= Len(frames[t])
  <2>1. j = 0 \/ j \in 1 .. Len(frames[t])
    BY <1>2, <1>5, FrameOfIs
  <2> QED
    BY <1>5, <2>1
<1>7. n \in Int /\ n <= Len(frames[t])
  BY <1>3, <1>5, <1>6
<1> QED
  BY <1>1, <1>4, <1>7, BackStep

LEMMA RaiseStep ==
  ASSUME IInv, NEW t \in Threads, Raise(t)
  PROVE  IInv'
<1>1. PICK lev, home, code :
        Shaped(frames, procs, vars_at, lev, home) /\ Coded(frames, procs, vars_at, code) /\ Specials
  BY DEF IInv, Pointers, Codes
<1>2. PICK k \in 1 .. Len(frames[t]) :
        /\ frames[t][k].iseq # None
        /\ \E r \in Within(frames[t][k].iseq, "RESCUE") :
             vm_push_frame(t, Back(t, k), "BLOCK", r, frames[t][k].dfp, frames[t][k].lfp)
  BY DEF Raise
<1>3. PICK f : f = frames[t][k]
  OBVIOUS
<1>4. PICK r \in Within(f.iseq, "RESCUE") : vm_push_frame(t, Back(t, k), "BLOCK", r, f.dfp, f.lfp)
  BY <1>2, <1>3
<1>5. /\ frames[t] \in Seq(Frames) /\ f \in Frames /\ f.dfp \in Places
      /\ FrameFits(frames[t], k, vars_at, lev, home)
  BY <1>1, <1>3, FramePlaces DEF Shaped
<1>6. f.lfp = home[f.dfp] /\ lev[f.dfp] = Level[f.iseq]
  BY <1>2, <1>3, <1>5 DEF FrameFits
<1>7. /\ r \in DOMAIN Iseqs /\ Level[r] = lev[f.dfp] + 1
      /\ TypeOf(r) = "RESCUE" /\ Iseqs[r].parent = f.iseq
  BY <1>6, LevelsAre DEF Within
<1>8. PICK g : g = Frame("BLOCK", r, None, None)
  OBVIOUS
<1>9. Framed(g) /\ g.type = "BLOCK" /\ g.iseq = r /\ g.site = None
  <2>1. "BLOCK" \in FrameTypes
    BY DEF FrameTypes
  <2> QED
    BY ZenonT(60), <1>7, <1>8, <2>1, FrameIsFramed
<1>10. Back(t, k) = Cut(frames[t], k)
  BY DEF Back, Cut
<1>11. k \in Int /\ k <= Len(frames[t]) /\ k >= 0 /\ k \in 1 .. k
  BY <1>5, LenProperties
<1>12. IsCut(Back(t, k), frames[t]) /\ Len(Back(t, k)) = k /\ EndsWell(Back(t, k))
  BY <1>5, <1>10, <1>11, BackIsCut
<1>13. Back(t, k)[k].dfp = f.dfp /\ Back(t, k)[k].iseq = f.iseq
  BY <1>3, <1>11, <1>12 DEF IsCut
<1>14. OfBlock(Back(t, k), lev, home, g, f.dfp, f.lfp)
  BY <1>5, <1>6, <1>7, <1>9, <1>11, <1>12, <1>13 DEF OfBlock
<1>15. PushFrame(t, Back(t, k), g, f.dfp, f.lfp)
  BY <1>4, <1>8 DEF vm_push_frame
<1>16. frames[t] # <<>>
  BY DEF Raise, Running
<1>17. OfCode(Back(t, k), code, g, f.dfp, f.lfp)
  <2>1. f.lfp # None /\ r # None
    BY <1>5, <1>7, PlacesAssumption DEF Frames
  <2>2. f.iseq = code[f.dfp]
    BY <1>1, <1>3 DEF Coded, FrameCoded
  <2>3. KindFits(g)
    BY <1>7, <1>9 DEF KindFits
  <2> QED
    BY <1>7, <1>9, <1>11, <1>12, <1>13, <2>1, <2>2, <2>3 DEF OfCode
<1> QED
  BY <1>1, <1>9, <1>12, <1>14, <1>15, <1>16, <1>17, PushStep

LEMMA ThrowStep ==
  ASSUME IInv, NEW t \in Threads, vm_throw(t)
  PROVE  IInv'
<1>1. Running(t)
  BY DEF vm_throw, InCode
<1>2. Raise(t) \/ \E thrown : Unwind(t, thrown)
  BY DEF vm_throw
<1> QED
  BY <1>1, <1>2, RaiseStep, UnwindStep

-----------------------------------------------------------------------------
(* Procs and $~.                                                           *)

LEMMA ForgetStep ==
  ASSUME IInv, NEW p \in procs, Forget(p)
  PROVE  IInv'
<1>1. PICK lev, home, code :
        Shaped(frames, procs, vars_at, lev, home) /\ Coded(frames, procs, vars_at, code) /\ Specials
  BY DEF IInv, Pointers, Codes
<1>2. PICK ps : ps = procs \ {p}
  OBVIOUS
<1>3. /\ \A d \in ChainIn(vars_at, OnStacks \cup {q.dfp : q \in ps}) : vars_at[d].block # p
      /\ Becomes(frames, ps, vars_at)
  BY <1>2 DEF Forget
<1>4. \A ds : ds \subseteq ChainIn(vars_at, ds)
  BY DEF ChainIn, Up
<1>5. \A d \in PlacesOf(frames) \cup Reached(frames, ps, vars_at) : vars_at[d].block # p
  BY <1>3, <1>4 DEF Reached, OnStacks
<1>6. \A d \in PlacesOf(frames) \cup Reached(frames, ps, vars_at) :
        vars_at[d].block \in procs => vars_at[d].block \in ps
  BY <1>2, <1>5
<1>7. KeepsSpecials(frames, vars_at)
  BY DEF KeepsSpecials
<1> QED
  BY <1>1, <1>2, <1>3, <1>6, <1>7, BecomesKeeps

LEMMA SetSpecialStep ==
  ASSUME IInv, NEW t \in Threads, SetSpecial(t)
  PROVE  IInv'
<1>1. PICK lev, home, code :
        Shaped(frames, procs, vars_at, lev, home) /\ Coded(frames, procs, vars_at, code)
  BY DEF IInv, Pointers, Codes
<1>8. Specials
  BY DEF IInv
<1>2. PICK lfp : lfp = Top(t).lfp
  OBVIOUS
<1>3. Running(t) /\ frames[t] # <<>>
  BY DEF SetSpecial, InCode, Running
<1>4. /\ frames' = frames /\ procs' = procs
      /\ written' = [written EXCEPT ![Sharing(t, lfp)] = "match"]
      /\ lfp_svar_set(t, lfp, "match")
  BY <1>2 DEF SetSpecial
<1>5. lfp \in Places /\ lfp \in Used(frames, vars_at)
  BY <1>1, <1>2, <1>3, TopIs, BlockOf DEF Top
<1>6. CASE local[t].lfp = lfp
  <2>1. t # Main /\ Sharing(t, lfp) = t
    BY <1>8, <1>5, <1>6, PlacesAssumption DEF Specials, NoLocal, Sharing
  <2>2. local' = [local EXCEPT ![t].svar = "match"] /\ vars_at' = vars_at
    BY <1>4, <1>6 DEF lfp_svar_set, OwnPlace
  <2>3. written' = [written EXCEPT ![t] = "match"]
    BY <1>4, <2>1
  <2>4. /\ written' \in [Threads \cup Places -> {"nil", "match"}]
        /\ \A d \in Places : written'[d] = written[d]
        /\ \A u \in Threads : written'[u] = IF u = t THEN "match" ELSE written[u]
    BY <1>8, <2>3, PlacesAssumption DEF Specials
  <2>5. local[t] \in [lfp : Places \cup {None}, svar : {"nil", "match"}]
    BY <1>8 DEF Specials
  <2>6. PICK own : own = [local[t] EXCEPT !.svar = "match"]
    OBVIOUS
  <2>7. own \in [lfp : Places \cup {None}, svar : {"nil", "match"}] /\ own.svar = "match"
    BY <2>5, <2>6
  <2>8. local' = [local EXCEPT ![t] = own]
    BY <2>2, <2>6
  <2>9. /\ local' \in [Threads -> [lfp : Places \cup {None}, svar : {"nil", "match"}]]
        /\ \A u \in Threads : local'[u] = IF u = t THEN own ELSE local[u]
    BY <1>8, <2>7, <2>8 DEF Specials
  <2>10. Main \in Threads /\ local'[Main] = NoLocal
    BY <1>8, <2>1, <2>9, FramesAssumption DEF Specials
  <2>11. \A u \in Threads : local'[u].svar = written'[u] /\ (frames'[u] = <<>> => local'[u] = NoLocal)
    BY <1>8, <1>3, <1>4, <2>4, <2>7, <2>9 DEF Specials
  <2>12. Used(frames', vars_at') = Used(frames, vars_at) /\ Used(frames, vars_at) \subseteq Places
    BY <1>1, <1>4, <2>2, UsedPlaces DEF Shaped
  <2>13. Specials'
    BY <1>8, <2>2, <2>4, <2>9, <2>10, <2>11, <2>12 DEF Specials
  <2>14. Pointers' /\ Codes'
    BY <1>1, <1>4, <2>2 DEF Pointers, Codes
  <2> QED
    BY <2>13, <2>14 DEF IInv
<1>7. CASE local[t].lfp # lfp
  <2>1. Sharing(t, lfp) = lfp
    BY <1>7 DEF Sharing
  <2>2. vars_at' = [vars_at EXCEPT ![lfp].svar = "match"] /\ local' = local
    BY <1>4, <1>7 DEF lfp_svar_set, OwnPlace
  <2>3. written' = [written EXCEPT ![lfp] = "match"]
    BY <1>4, <2>1
  <2>4. /\ written' \in [Threads \cup Places -> {"nil", "match"}]
        /\ \A d \in Places : written'[d] = IF d = lfp THEN "match" ELSE written[d]
        /\ \A u \in Threads : written'[u] = written[u]
    BY <1>8, <1>5, <2>3, PlacesAssumption DEF Specials
  <2>5. /\ Shaped(frames, procs, vars_at', lev, home)
        /\ Used(frames, vars_at') = Used(frames, vars_at)
    <3>1. vars_at' = Noted(vars_at, lfp, "match")
      BY <2>2 DEF Noted
    <3> QED
      BY <1>1, <1>5, <3>1, SpecialKeeps
  <2>6. Used(frames, vars_at) \subseteq Places /\ vars_at \in [Places -> Memory]
    BY <1>1, UsedPlaces DEF Shaped, Typed
  <2>7. /\ vars_at'[lfp].svar = "match"
        /\ vars_at'[lfp].prev = vars_at[lfp].prev /\ vars_at'[lfp].block = vars_at[lfp].block
        /\ \A d \in Places \ {lfp} : vars_at'[d] = vars_at[d]
    <3>1. vars_at[lfp] \in Memory
      BY <1>5, <2>6
    <3>2. PICK own : own = [vars_at[lfp] EXCEPT !.svar = "match"]
      OBVIOUS
    <3>3. own.svar = "match" /\ own.prev = vars_at[lfp].prev /\ own.block = vars_at[lfp].block
      BY <3>1, <3>2 DEF Memory
    <3>4. vars_at' = [vars_at EXCEPT ![lfp] = own]
      BY <2>2, <3>2
    <3> QED
      BY <1>5, <2>6, <3>3, <3>4
  <2>8. \A d \in Used(frames, vars_at) : vars_at'[d].svar = written'[d]
    BY <1>8, <2>4, <2>6, <2>7 DEF Specials
  <2>9. \A d \in Places \ Used(frames, vars_at) : written'[d] = "nil"
    BY <1>8, <1>5, <2>4 DEF Specials
  <2>10. Specials'
    BY <1>8, <1>4, <2>2, <2>4, <2>5, <2>8, <2>9 DEF Specials
  <2>11. Pointers'
    BY <1>4, <2>5 DEF Pointers
  <2>12. SameCode(vars_at, vars_at')
    <3>1. \A d \in Places : vars_at'[d].prev = vars_at[d].prev /\ vars_at'[d].block = vars_at[d].block
      BY <2>7
    <3> QED
      BY <3>1 DEF SameCode
  <2>13. Coded(frames, procs, vars_at', code)
    <3>1. Typed(frames, procs, vars_at) /\ \A p \in procs : WrittenIn(code, p)
      BY <1>1 DEF Shaped, Coded
    <3> QED
      BY <1>1, <2>5, <2>12, <3>1, SameCoded
  <2>14. Codes'
    BY <1>4, <2>13 DEF Codes
  <2> QED
    BY <2>10, <2>11, <2>14 DEF IInv
<1> QED
  BY <1>6, <1>7

\* Places go to the heap, and blocks are made Procs, those of all methods that go there
\* among them.
MadeOf(b) == [b EXCEPT !.made = TRUE]
Moved(mem, G, homes) ==
  [d \in Places |->
    [mem[d] EXCEPT !.heap = @ \/ d \in G,
                   !.block = IF d \in homes /\ @ # None THEN [@ EXCEPT !.made = TRUE] ELSE @]]

Movable(stacks, mem, lev, home, ps, more, G, homes) ==
  /\ G \subseteq Used(stacks, mem) /\ Leveled(mem, lev, home, G)
  /\ ps \subseteq more
  /\ \A p \in more \ ps : p \in Blocks /\ p.made /\ p.dfp \in G /\ BlockFits(lev, home, p)
  /\ \A d \in homes : mem[d].block # None => MadeOf(mem[d].block) \in more
  /\ \A d \in G : mem[d].block # None => d \in homes

LEMMA MoveKeeps ==
  ASSUME NEW stacks, NEW ps, NEW mem, NEW lev, NEW home, Shaped(stacks, ps, mem, lev, home),
         NEW more, NEW G, NEW homes, Movable(stacks, mem, lev, home, ps, more, G, homes)
  PROVE  /\ Shaped(stacks, more, Moved(mem, G, homes), lev, home)
         /\ Used(stacks, Moved(mem, G, homes)) = Used(stacks, mem)
         /\ \A d \in Places : Moved(mem, G, homes)[d].svar = mem[d].svar
         /\ SameCode(mem, Moved(mem, G, homes))
<1>1. /\ Typed(stacks, ps, mem) /\ Distinct(stacks)
      /\ lev \in [Places -> 0 .. 3] /\ home \in [Places -> Places]
      /\ Leveled(mem, lev, home, Used(stacks, mem))
      /\ Leveled(mem, lev, home, Heap(mem))
      /\ \A d \in Used(stacks, mem) : PlaceFits(ps, mem, lev, home, d)
      /\ \A p \in ps : ProcFits(mem, lev, home, p)
      /\ \A t \in Threads : \A k \in 1 .. Len(stacks[t]) : FrameFits(stacks[t], k, mem, lev, home)
  BY DEF Shaped
<1>2. PICK after : after = Moved(mem, G, homes)
  OBVIOUS
<1>3. Used(stacks, mem) \subseteq Places /\ mem \in [Places -> Memory]
  BY <1>1, UsedPlaces DEF Typed
<1>4. \A b \in Blocks : /\ MadeOf(b) \in Blocks /\ MadeOf(b).made
                       /\ MadeOf(b).dfp = b.dfp /\ MadeOf(b).lfp = b.lfp /\ MadeOf(b).iseq = b.iseq
  BY DEF MadeOf, Blocks
<1>6. \A d \in Places : /\ after[d] \in Memory
                        /\ after[d].prev = mem[d].prev /\ after[d].svar = mem[d].svar
                        /\ after[d].heap = (mem[d].heap \/ d \in G)
                        /\ after[d].block = IF d \in homes /\ mem[d].block # None
                                           THEN MadeOf(mem[d].block) ELSE mem[d].block
  <2> TAKE d \in Places
  <2>1. PICK m : m = mem[d]
    OBVIOUS
  <2>2. PICK h : h = (m.heap \/ d \in G)
    OBVIOUS
  <2>3. PICK b : b = IF d \in homes /\ m.block # None THEN MadeOf(m.block) ELSE m.block
    OBVIOUS
  <2>4. m \in Memory /\ m.block \in Blocks \cup {None}
    BY <1>3, <2>1 DEF Memory
  <2>5. b \in Blocks \cup {None}
    BY <1>4, <2>3, <2>4
  <2>6. h \in BOOLEAN
    BY <2>2, <2>4 DEF Memory
  <2>7. after[d] = [m EXCEPT !.heap = h, !.block = b]
    BY <1>2, <2>1, <2>2, <2>3 DEF Moved, MadeOf
  <2>8. /\ after[d] \in Memory /\ after[d].prev = m.prev /\ after[d].svar = m.svar
        /\ after[d].heap = h /\ after[d].block = b
    BY <2>4, <2>5, <2>6, <2>7 DEF Memory
  <2>9. after[d].heap = (m.heap \/ d \in G)
    BY <2>2, <2>8
  <2>10. after[d].block = IF d \in homes /\ m.block # None THEN MadeOf(m.block) ELSE m.block
    BY <2>3, <2>8
  <2> QED
    BY <2>1, <2>8, <2>9, <2>10
<1>7. G \subseteq Used(stacks, mem) /\ Leveled(mem, lev, home, G) /\ G \subseteq Places
  BY <1>3 DEF Movable
<1>8. Heap(after) = Heap(mem) \cup G
  BY <1>6, <1>7 DEF Heap
<1>9. Used(stacks, after) = Used(stacks, mem)
  BY <1>7, <1>8 DEF Used
<1>10. Typed(stacks, more, after)
  <2>1. after \in [Places -> Memory]
    <3>1. after = [d \in Places |-> after[d]]
      BY <1>2 DEF Moved
    <3> QED
      BY <1>6, <3>1
  <2>2. more \subseteq Blocks
    BY <1>1 DEF Movable, Typed
  <2> QED
    BY <1>1, <2>1, <2>2 DEF Typed
<1>11. Leveled(after, lev, home, Used(stacks, after))
  BY <1>1, <1>3, <1>6, <1>9 DEF Leveled
<1>12. Leveled(after, lev, home, Heap(after))
  <2>1. Heap(after) \subseteq Places
    BY DEF Heap
  <2> QED
    BY <1>1, <1>6, <1>7, <1>8, <2>1 DEF Leveled
<1>13. \A b \in Blocks : BlockFits(lev, home, b) => BlockFits(lev, home, MadeOf(b))
  BY <1>4 DEF BlockFits
<1>14. ASSUME NEW d \in Used(stacks, after) PROVE PlaceFits(more, after, lev, home, d)
  <2>1. d \in Places /\ PlaceFits(ps, mem, lev, home, d)
    BY <1>1, <1>3, <1>9
  <2> SUFFICES ASSUME after[d].block # None PROVE PlaceFits(more, after, lev, home, d)
    BY DEF PlaceFits
  <2>2. mem[d].block # None
    BY <1>6, <2>1
  <2>3. mem[d].block \in Blocks
    <3>1. mem[d] \in Memory
      BY <1>3, <2>1
    <3> QED
      BY <2>2, <3>1 DEF Memory
  <2>4. CASE d \in homes
    <3>1. after[d].block = MadeOf(mem[d].block)
      BY <1>6, <2>1, <2>2, <2>4
    <3>2. MadeOf(mem[d].block) \in more
      BY <2>2, <2>4 DEF Movable
    <3>3. lev[d] = 0 /\ BlockFits(lev, home, mem[d].block)
      BY <2>1, <2>2 DEF PlaceFits
    <3> QED
      BY <1>4, <1>13, <2>3, <3>1, <3>2, <3>3 DEF PlaceFits
  <2>5. CASE d \notin homes
    <3>1. after[d].block = mem[d].block /\ d \notin G
      BY <1>6, <2>1, <2>2, <2>5 DEF Movable
    <3>2. after[d].heap = mem[d].heap
      BY <1>3, <1>6, <2>1, <3>1 DEF Memory
    <3> QED
      BY <2>1, <3>1, <3>2 DEF PlaceFits, Movable
  <2> QED
    BY <2>4, <2>5
<1>15. ASSUME NEW p \in more PROVE ProcFits(after, lev, home, p)
  <2>1. p.dfp \in Places
    BY <1>10 DEF Typed, Blocks
  <2>2. CASE p \in ps
    BY <1>1, <1>6, <2>1, <2>2 DEF ProcFits
  <2>3. CASE p \notin ps
    BY <1>6, <2>1, <2>3 DEF ProcFits, Movable
  <2> QED
    BY <2>2, <2>3
<1>16. ASSUME NEW t \in Threads, NEW k \in 1 .. Len(stacks[t])
       PROVE  FrameFits(stacks[t], k, after, lev, home)
  <2>1. PICK d : d = stacks[t][k].dfp
    OBVIOUS
  <2>2. d \in Used(stacks, mem) /\ d \in Places /\ FrameFits(stacks[t], k, mem, lev, home)
    BY <1>1, <2>1, FramePlaces
  <2>3. lev[d] # 0 => mem[d].prev \in Places /\ after[d].prev = mem[d].prev
    BY <1>1, <1>3, <1>6, <2>2 DEF Leveled
  <2>4. lev[d] # 0 => after[after[d].prev].heap \/ IsBelow(stacks[t], k, after[d].prev)
    BY <1>6, <2>1, <2>2, <2>3 DEF FrameFits
  <2>5. ASSUME after[d].block # None, ~after[d].block.made
        PROVE  AtCallBelow(stacks[t], k, after[d].block.dfp)
    <3>1. mem[d].block # None
      BY <1>6, <2>2, <2>5
    <3>2. mem[d].block \in Blocks
      <4>1. mem[d] \in Memory
        BY <1>3, <2>2
      <4> QED
        BY <3>1, <4>1 DEF Memory
    <3>3. after[d].block = mem[d].block
      BY <1>4, <1>6, <2>2, <2>5, <3>1, <3>2
    <3> QED
      BY <2>1, <2>2, <2>5, <3>1, <3>3 DEF FrameFits
  <2> QED
    BY <2>1, <2>2, <2>4, <2>5 DEF FrameFits
<1>17. Shaped(stacks, more, after, lev, home)
  BY <1>1, <1>10, <1>11, <1>12, <1>14, <1>15, <1>16 DEF Shaped
<1>18. SameCode(mem, after)
  <2>1. ASSUME NEW d \in Places, after[d].block # None
        PROVE  /\ mem[d].block # None
               /\ after[d].block.iseq = mem[d].block.iseq /\ after[d].block.dfp = mem[d].block.dfp
    <3>1. mem[d].block # None
      BY <1>6, <2>1
    <3>2. mem[d].block \in Blocks
      BY <1>3, <3>1 DEF Memory
    <3> QED
      BY <1>4, <1>6, <3>1, <3>2
  <2> QED
    BY <1>6, <2>1 DEF SameCode
<1> QED
  BY <1>2, <1>6, <1>9, <1>17, <1>18

\* The places a block hangs below are used, and those of methods among them is the one
\* of the method it was written in.
HangsBelow(stacks, mem, lev, home, d) ==
  /\ d \in ChainIn(mem, {d}) /\ ChainIn(mem, {d}) \subseteq Used(stacks, mem)
  /\ Leveled(mem, lev, home, ChainIn(mem, {d}))
  /\ \A e \in ChainIn(mem, {d}) : home[e] = home[d] /\ (mem[e].block # None => e = home[d])

LEMMA ChainOfBlock ==
  ASSUME NEW stacks, NEW ps, NEW mem, NEW lev, NEW home, Shaped(stacks, ps, mem, lev, home),
         NEW d \in Used(stacks, mem)
  PROVE  HangsBelow(stacks, mem, lev, home, d)
<1>1. PICK U : U = Used(stacks, mem)
  OBVIOUS
<1>2. Leveled(mem, lev, home, U) /\ U \subseteq Places
  BY <1>1, UsedPlaces DEF Shaped
<1>3. PICK G : G = {e \in U : home[e] = home[d]}
  OBVIOUS
<1>4. Leveled(mem, lev, home, G) /\ G \subseteq Places /\ {d} \in SUBSET G
  BY <1>1, <1>2, <1>3 DEF Leveled
<1>5. /\ {d} \subseteq ChainIn(mem, {d}) /\ ChainIn(mem, {d}) \subseteq G
      /\ Leveled(mem, lev, home, ChainIn(mem, {d}))
  BY <1>4, ChainIs
<1>6. ASSUME NEW e \in G, mem[e].block # None PROVE e = home[d]
  <2>1. PlaceFits(ps, mem, lev, home, e)
    BY <1>1, <1>3 DEF Shaped
  <2>2. lev[e] = 0
    BY <1>6, <2>1 DEF PlaceFits
  <2>3. home[e] = e
    BY <1>4, <2>2 DEF Leveled
  <2> QED
    BY <1>3, <2>3
<1> QED
  BY <1>1, <1>3, <1>5, <1>6 DEF HangsBelow

LEMMA MakeProcStep ==
  ASSUME IInv, NEW t \in Threads, MakeProc(t)
  PROVE  IInv'
<1>1. PICK lev, home, code :
        Shaped(frames, procs, vars_at, lev, home) /\ Coded(frames, procs, vars_at, code) /\ Specials
  BY DEF IInv, Pointers, Codes
<1>2. PICK block, homes, around :
        /\ block = vars_at[Top(t).lfp].block
        /\ homes = Homes(block.lfp) /\ around = Chain(block.dfp)
  OBVIOUS
<1>3. PICK outer :
        outer = {[vars_at[h].block EXCEPT !.made = TRUE] :
                   h \in {g \in homes : vars_at[g].block # None}}
  OBVIOUS
<1>4. PICK G : G = around \cup UNION {Chain(b.dfp) : b \in outer}
  OBVIOUS
<1>5. PICK stacks, mem : stacks = Popped(t) /\ mem = Moved(vars_at, G, homes)
  OBVIOUS
<1>6. /\ InCfunc(t) /\ Running(t) /\ block # None /\ ~block.made
      /\ \E lambda \in BOOLEAN :
           Becomes(stacks, procs \cup outer \cup {[block EXCEPT !.made = TRUE, !.lambda = lambda]}, mem)
  BY <1>2, <1>3, <1>4, <1>5 DEF MakeProc, InCfunc, Moved
<1>7. PICK lambda \in BOOLEAN :
        Becomes(stacks, procs \cup outer \cup {[block EXCEPT !.made = TRUE, !.lambda = lambda]}, mem)
  BY <1>6
<1>8. PICK one, ps : /\ one = [block EXCEPT !.made = TRUE, !.lambda = lambda]
                     /\ ps = procs \cup outer \cup {one}
  OBVIOUS
\* The stack without the C function.
<1>9. /\ frames[t] \in Seq(Frames) /\ Len(frames[t]) \in 1 .. Len(frames[t])
  BY <1>1, <1>6, TopIs
<1>10. PICK n : n = Len(frames[t]) - 1
  OBVIOUS
<1>11. n \in Int /\ n <= Len(frames[t]) /\ n >= 0
  BY <1>9, <1>10
<1>12. stacks = [frames EXCEPT ![t] = Cut(frames[t], n)]
  BY <1>5, <1>10 DEF Popped, Back, Cut
<1>13. /\ IsCut(Cut(frames[t], n), frames[t]) /\ Len(Cut(frames[t], n)) = n
       /\ EndsWell(Cut(frames[t], n))
  BY <1>9, <1>11, BackIsCut
<1>14. Shaped(stacks, procs, vars_at, lev, home) /\ PlacesOf(stacks) \subseteq PlacesOf(frames)
  BY <1>1, <1>12, <1>13, CutKeeps
<1>15. /\ Typed(stacks, procs, vars_at) /\ Leveled(vars_at, lev, home, Used(stacks, vars_at))
       /\ Used(stacks, vars_at) \subseteq Places
  BY <1>14, UsedPlaces DEF Shaped
\* The block was written further down.
<1>16. block \in Blocks /\ BlockFits(lev, home, block)
  BY <1>1, <1>2, <1>6, PassedIsGood
<1>17. block.dfp \in Used(stacks, vars_at)
  <2>1. AtCallBelow(frames[t], Len(frames[t]), block.dfp)
    BY <1>1, <1>2, <1>6, PassedIsGood
  <2>2. PICK j \in 1 .. n : frames[t][j].dfp = block.dfp
    BY <1>10, <2>1 DEF AtCallBelow
  <2>3. stacks[t] = Cut(frames[t], n)
    BY <1>1, <1>12 DEF Shaped, Typed
  <2>4. j \in 1 .. Len(stacks[t]) /\ stacks[t][j].dfp = block.dfp
    BY <1>13, <2>2, <2>3 DEF IsCut
  <2> QED
    BY <1>15, <2>4, FramePlaces
<1>18. block.lfp = home[block.dfp] /\ block.lfp \in Used(stacks, vars_at) /\ lev[block.lfp] = 0
  BY <1>15, <1>16, <1>17, HomeIn DEF BlockFits
\* So were the blocks of all methods around it.
<1>19. PICK U : U = {d \in Used(stacks, vars_at) : lev[d] = 0}
  OBVIOUS
<1>20. \A d \in U : vars_at[d].block # None => vars_at[d].block.lfp \in U
  BY <1>14, <1>19, BlockPlaces
<1>21. U \in SUBSET Places /\ block.lfp \in U
  BY <1>15, <1>18, <1>19
<1>22. /\ homes \subseteq U /\ block.lfp \in homes
       /\ \A h \in homes : vars_at[h].block # None => vars_at[h].block.lfp \in homes
  BY <1>2, <1>20, <1>21 DEF Homes
<1>23. ASSUME NEW h \in homes, vars_at[h].block # None
       PROVE  /\ vars_at[h].block \in Blocks /\ BlockFits(lev, home, vars_at[h].block)
              /\ vars_at[h].block.dfp \in Used(stacks, vars_at)
  BY <1>14, <1>19, <1>22, <1>23, BlockPlaces
<1>24. \A b \in Blocks : /\ MadeOf(b) \in Blocks /\ MadeOf(b).made /\ MadeOf(b).dfp = b.dfp
                        /\ BlockFits(lev, home, b) => BlockFits(lev, home, MadeOf(b))
  BY DEF MadeOf, Blocks, BlockFits
<1>25. /\ outer = {MadeOf(vars_at[h].block) : h \in {g \in homes : vars_at[g].block # None}}
  BY <1>3 DEF MadeOf
\* Their chains go to the heap.
<1>26. ASSUME NEW d \in Used(stacks, vars_at), home[d] \in homes
       PROVE  /\ d \in Chain(d) /\ Chain(d) \subseteq Used(stacks, vars_at)
              /\ Leveled(vars_at, lev, home, Chain(d))
              /\ \A e \in Chain(d) : vars_at[e].block # None => e \in homes
  <2>1. HangsBelow(stacks, vars_at, lev, home, d)
    BY <1>14, ChainOfBlock
  <2> QED
    BY <1>26, <2>1 DEF HangsBelow, Chain
<1>27. /\ block.dfp \in around /\ around \subseteq Used(stacks, vars_at)
       /\ Leveled(vars_at, lev, home, around)
       /\ \A e \in around : vars_at[e].block # None => e \in homes
  BY <1>2, <1>17, <1>18, <1>22, <1>26
<1>28. ASSUME NEW b \in outer
       PROVE  /\ b \in Blocks /\ b.made /\ BlockFits(lev, home, b) /\ b.dfp \in Chain(b.dfp)
              /\ Chain(b.dfp) \subseteq Used(stacks, vars_at)
              /\ Leveled(vars_at, lev, home, Chain(b.dfp))
              /\ \A e \in Chain(b.dfp) : vars_at[e].block # None => e \in homes
  <2>1. PICK h \in homes : vars_at[h].block # None /\ b = MadeOf(vars_at[h].block)
    BY <1>25
  <2>2. PICK c : c = vars_at[h].block
    OBVIOUS
  <2>3. /\ c \in Blocks /\ BlockFits(lev, home, c) /\ c.dfp \in Used(stacks, vars_at)
        /\ c.lfp \in homes /\ b = MadeOf(c)
    BY <1>22, <1>23, <2>1, <2>2
  <2>4. b \in Blocks /\ b.made /\ BlockFits(lev, home, b) /\ b.dfp = c.dfp
    BY <2>3 DEF MadeOf, Blocks, BlockFits
  <2>5. home[b.dfp] \in homes /\ b.dfp \in Used(stacks, vars_at)
    BY <2>3, <2>4 DEF BlockFits
  <2> QED
    BY <1>26, <2>4, <2>5
<1>29. /\ one \in Blocks /\ one.made /\ one.dfp = block.dfp /\ BlockFits(lev, home, one)
  BY <1>8, <1>16 DEF Blocks, BlockFits
<1>30. Movable(stacks, vars_at, lev, home, procs, ps, G, homes)
  <2>1. G \subseteq Used(stacks, vars_at)
    BY <1>4, <1>27, <1>28
  <2>2. Leveled(vars_at, lev, home, G)
    <3> SUFFICES ASSUME NEW d \in G
                 PROVE  \E H \in SUBSET G : d \in H /\ Leveled(vars_at, lev, home, H)
      BY DEF Leveled
    <3>1. CASE d \in around
      BY <1>4, <1>27, <3>1
    <3>2. CASE \E b \in outer : d \in Chain(b.dfp)
      BY <1>4, <1>28, <3>2
    <3> QED
      BY <1>4, <3>1, <3>2
  <2>3. \A p \in ps \ procs : p \in Blocks /\ p.made /\ p.dfp \in G /\ BlockFits(lev, home, p)
    BY <1>4, <1>8, <1>27, <1>28, <1>29
  <2>4. \A d \in homes : vars_at[d].block # None => MadeOf(vars_at[d].block) \in ps
    BY <1>8, <1>25
  <2>5. \A d \in G : vars_at[d].block # None => d \in homes
    BY <1>4, <1>27, <1>28
  <2> QED
    BY <1>8, <2>1, <2>2, <2>3, <2>4, <2>5 DEF Movable
<1>31. /\ Shaped(stacks, ps, mem, lev, home) /\ Used(stacks, mem) = Used(stacks, vars_at)
       /\ \A d \in Places : mem[d].svar = vars_at[d].svar
       /\ SameCode(vars_at, mem)
  BY <1>5, <1>14, <1>30, MoveKeeps
<1>32. KeepsSpecials(stacks, mem)
  <2>1. Used(stacks, vars_at) \subseteq Used(frames, vars_at)
    BY <1>14 DEF Used
  <2>2. frames[Main] # <<>> \/ stacks[Main] = frames[Main]
    BY <1>1, <1>6, <1>12, FramesAssumption DEF Shaped, Typed, Running
  <2> QED
    BY <1>15, <1>31, <2>1, <2>2 DEF KeepsSpecials
<1>33. Becomes(stacks, ps, mem)
  BY <1>7, <1>8
<1>34. Coded(stacks, ps, mem, code)
  <2>1. Coded(stacks, procs, vars_at, code)
    BY <1>1, <1>12, <1>13, CutCoded
  <2>2. ASSUME NEW p \in ps PROVE WrittenIn(code, p)
    <3>1. CASE p \in procs
      BY <1>1, <3>1 DEF Coded
    <3>2. CASE p \in outer
      <4>1. PICK h \in homes : vars_at[h].block # None /\ p = MadeOf(vars_at[h].block)
        BY <1>25, <3>2
      <4>2. vars_at[h].block \in Blocks /\ h \in Used(stacks, vars_at)
        BY <1>19, <1>22, <1>23, <4>1
      <4>3. WrittenIn(code, vars_at[h].block)
        BY <2>1, <4>1, <4>2 DEF Coded, PlaceCoded
      <4>4. p.iseq = vars_at[h].block.iseq /\ p.dfp = vars_at[h].block.dfp
        BY <4>1, <4>2 DEF MadeOf, Blocks
      <4> QED
        BY <4>3, <4>4 DEF WrittenIn
    <3>3. CASE p = one
      <4>1. WrittenIn(code, block)
        BY <1>1, <1>2, <1>6, PassedCode
      <4>2. one.iseq = block.iseq /\ one.dfp = block.dfp
        BY <1>8, <1>16 DEF Blocks
      <4> QED
        BY <3>3, <4>1, <4>2 DEF WrittenIn
    <3> QED
      BY <1>8, <3>1, <3>2, <3>3
  <2> QED
    BY <1>15, <1>31, <2>1, <2>2, SameCoded
<1> QED
  BY <1>1, <1>31, <1>32, <1>33, <1>34, BecomesKeeps

-----------------------------------------------------------------------------
(* The specification.                                                      *)

LEMMA InitIsGood == Init => IInv
<1> SUFFICES ASSUME Init PROVE IInv
  OBVIOUS
<1>1. PICK d \in Places : d = CHOOSE e \in Places : TRUE
  BY PlacesAssumption
<1>2. PICK top \in DOMAIN Iseqs : /\ TypeOf(top) = "TOP"
                                 /\ top = CHOOSE i \in DOMAIN Iseqs : TypeOf(i) = "TOP"
  BY NestingAssumption
<1>3. PICK f : f = Frame("TOP", top, d, d)
  OBVIOUS
<1>4. /\ frames = [t \in Threads |-> IF t = Main THEN <<f>> ELSE <<>>]
      /\ vars_at = [e \in Places |-> Nothing]
      /\ procs = {}
      /\ local = [t \in Threads |-> NoLocal]
      /\ written = [o \in Threads \cup Places |-> "nil"]
  BY <1>1, <1>2, <1>3 DEF Init
<1>5. PICK lev, home : lev = [e \in Places |-> 0] /\ home = [e \in Places |-> e]
  OBVIOUS
<1>6. f \in Frames /\ f.type = "TOP" /\ f.iseq = top /\ f.dfp = d /\ f.lfp = d
  BY <1>3 DEF Frame, Frames, FrameTypes
<1>7. Level[top] = 0 /\ Main \in Threads
  BY <1>2, LevelsAre, FramesAssumption
<1>8. /\ Nothing \in Memory /\ Nothing.prev = None /\ Nothing.block = None
      /\ ~Nothing.heap /\ Nothing.svar = "nil"
  BY DEF Nothing, Memory
<1>9. \A e \in Places : vars_at[e] = Nothing /\ lev[e] = 0 /\ home[e] = e
  BY <1>4, <1>5
<1>10. Typed(frames, procs, vars_at)
  <2>1. <<f>> \in Seq(Frames) /\ <<>> \in Seq(Frames)
    BY <1>6
  <2> QED
    BY <1>4, <1>8, <2>1 DEF Typed
<1>11. \A t \in Threads : \A k \in 1 .. Len(frames[t]) : t = Main /\ k = 1 /\ frames[t][k] = f
  <2>1. Len(<<f>>) = 1 /\ <<f>>[1] = f /\ Len(<<>>) = 0 /\ 1 .. 0 = {}
    OBVIOUS
  <2> QED
    BY <1>4, <2>1
<1>12. Heap(vars_at) = {}
  BY <1>8, <1>9 DEF Heap
<1>13. Used(frames, vars_at) \subseteq Places
  BY <1>10, UsedPlaces
<1>14. Shaped(frames, procs, vars_at, lev, home)
  <2>1. Distinct(frames)
    BY <1>11 DEF Distinct
  <2>2. lev \in [Places -> 0 .. 3] /\ home \in [Places -> Places]
    BY <1>5
  <2>3. Leveled(vars_at, lev, home, Used(frames, vars_at)) /\ Leveled(vars_at, lev, home, Heap(vars_at))
    BY <1>8, <1>9, <1>12, <1>13 DEF Leveled
  <2>4. \A e \in Used(frames, vars_at) : PlaceFits(procs, vars_at, lev, home, e)
    BY <1>8, <1>9, <1>13 DEF PlaceFits
  <2>5. \A p \in procs : ProcFits(vars_at, lev, home, p)
    BY <1>4
  <2>6. \A t \in Threads : \A k \in 1 .. Len(frames[t]) : FrameFits(frames[t], k, vars_at, lev, home)
    <3>1. vars_at[d].block = None /\ lev[d] = 0 /\ home[d] = d /\ f.type # "CFUNC"
      BY <1>6, <1>8, <1>9
    <3>2. ASSUME NEW s, NEW k, s[k] = f PROVE FrameFits(s, k, vars_at, lev, home)
      BY <1>2, <1>6, <1>7, <3>1, <3>2 DEF FrameFits
    <3> QED
      BY <1>11, <3>2
  <2> QED
    BY <1>10, <2>1, <2>2, <2>3, <2>4, <2>5, <2>6 DEF Shaped
<1>15. Specials
  <2>1. NoLocal \in [lfp : Places \cup {None}, svar : {"nil", "match"}] /\ NoLocal.svar = "nil"
    BY DEF NoLocal
  <2> QED
    BY <1>4, <1>7, <1>8, <1>9, <1>13, <2>1, PlacesAssumption DEF Specials
<1>16. Codes
  <2>1. PICK code : code = [e \in Places |-> IF e = d THEN top ELSE None]
    OBVIOUS
  <2>2. /\ code \in [Places -> DOMAIN Iseqs \cup {None}]
        /\ \A e \in Places : code[e] = top \/ code[e] = None
        /\ code[d] = top /\ top # None
    BY <2>1, PlacesAssumption
  <2>3. ASSUME NEW e \in Places PROVE PlaceCoded(vars_at, code, e)
    BY <1>2, <1>8, <1>9, <2>2 DEF PlaceCoded
  <2>4. ASSUME NEW s, Len(s) = 1, s[1] = f PROVE FrameCoded(s, 1, vars_at, code)
    <3>1. KindFits(f)
      BY <1>2, <1>6 DEF KindFits
    <3>2. vars_at[f.dfp].prev = None /\ TypeOf(f.iseq) = "TOP" /\ f.iseq = code[f.dfp] /\ f.iseq # None
      BY <1>2, <1>6, <1>8, <1>9, <2>2, PlacesAssumption
    <3>3. HangsBack(s, 1, vars_at)
      BY <2>4 DEF HangsBack
    <3> QED
      BY <2>4, <3>1, <3>2, <3>3, <1>6, PlacesAssumption DEF FrameCoded
  <2>5. \A t \in Threads : \A k \in 1 .. Len(frames[t]) : FrameCoded(frames[t], k, vars_at, code)
    <3>1. Len(<<f>>) = 1 /\ <<f>>[1] = f
      OBVIOUS
    <3>2. \A t \in Threads : \A k \in 1 .. Len(frames[t]) : k = 1 /\ frames[t] = <<f>>
      <4>1. Len(<<>>) = 0 /\ 1 .. 0 = {}
        OBVIOUS
      <4> QED
        BY <1>4, <1>11, <4>1
    <3> QED
      BY <2>4, <3>1, <3>2
  <2>6. Coded(frames, procs, vars_at, code)
    BY <1>4, <1>13, <2>2, <2>3, <2>5 DEF Coded
  <2> QED
    BY <2>6 DEF Codes
<1> QED
  BY <1>14, <1>15, <1>16 DEF IInv, Pointers

LEMMA NextIsGood == IInv /\ [Next]_vars => IInv'
<1> SUFFICES ASSUME IInv, [Next]_vars PROVE IInv'
  OBVIOUS
<1>1. ASSUME NEW t \in Threads, Step(t) PROVE IInv'
  BY <1>1, CallMethodStep, TailCallStep, CallCfuncStep, DefineClassStep, LeaveStep,
     InvokeBlockStep, CfuncYieldsStep, CallProcStep, CallBmethodStep, MakeProcStep,
     ThreadStartStep, ThrowStep, RaiseStep, SetSpecialStep DEF Step
<1>2. ASSUME NEW p \in procs, Forget(p) PROVE IInv'
  BY <1>2, ForgetStep
<1>3. ASSUME UNCHANGED vars PROVE IInv'
  <2>1. /\ frames' = frames /\ vars_at' = vars_at /\ procs' = procs
        /\ local' = local /\ written' = written
    BY <1>3 DEF vars
  <2> QED
    BY <2>1 DEF IInv, Pointers, Codes, Specials
<1> QED
  BY <1>1, <1>2, <1>3 DEF Next

LEMMA StateIsGood == Spec => []IInv
<1>1. Init => IInv
  BY InitIsGood
<1>2. IInv /\ [Next]_vars => IInv'
  BY NextIsGood
<1> QED
  BY <1>1, <1>2, PTL DEF Spec

LEMMA LiveIfGood == Pointers => PointersAreLive
<1> SUFFICES ASSUME Pointers PROVE PointersAreLive
  OBVIOUS
<1>1. PICK lev, home : Shaped(frames, procs, vars_at, lev, home)
  BY DEF Pointers
<1>2. PICK U : U = Used(frames, vars_at)
  OBVIOUS
<1>3. /\ Leveled(vars_at, lev, home, U) /\ Leveled(vars_at, lev, home, Heap(vars_at))
      /\ U \subseteq Places /\ Heap(vars_at) \subseteq Places
      /\ \A p \in procs : p.dfp \in Heap(vars_at)
  <2>1. /\ Typed(frames, procs, vars_at)
        /\ \A p \in procs : ProcFits(vars_at, lev, home, p)
    BY <1>1 DEF Shaped
  <2>2. \A p \in procs : p.dfp \in Heap(vars_at)
    BY <2>1 DEF ProcFits, Heap, Typed, Blocks
  <2> QED
    BY <1>1, <1>2, <2>1, <2>2, UsedPlaces DEF Shaped, Heap
<1>4. \A d \in U : d \in OnStacks \/ vars_at[d].heap
  BY <1>2 DEF Used, OnStacks, Heap
<1>5. ASSUME NEW t \in Threads, NEW k \in 1 .. Len(frames[t]), NEW f, f = frames[t][k],
             NEW block, block = vars_at[f.lfp].block
      PROVE  /\ \A d \in Chain(f.dfp) \cup {f.lfp} : d \in OnStacks \/ vars_at[d].heap
             /\ f.lfp \in Chain(f.dfp)
             /\ block # None =>
                  \/ block.made /\ \E p \in procs : p.dfp = block.dfp /\ p.iseq = block.iseq
                  \/ \E j \in 1 .. k - 1 : frames[t][j].dfp = block.dfp /\ frames[t][j].site # None
  <2>1. FrameFits(frames[t], k, vars_at, lev, home) /\ Typed(frames, procs, vars_at)
    BY <1>1 DEF Shaped
  <2>2. f.dfp \in U /\ f.lfp = home[f.dfp]
    BY <1>2, <1>5, <2>1, FramePlaces DEF FrameFits
  <2>3. HangsBelow(frames, vars_at, lev, home, f.dfp)
    BY <1>1, <1>2, <2>2, ChainOfBlock
  <2>4. f.dfp \in Chain(f.dfp) /\ Chain(f.dfp) \subseteq U /\ Leveled(vars_at, lev, home, Chain(f.dfp))
    BY <1>2, <2>3 DEF HangsBelow, Chain
  <2>5. f.lfp \in Chain(f.dfp)
    BY <2>2, <2>4, HomeIn
  <2>6. block # None =>
          \/ block.made /\ block \in procs
          \/ \E j \in 1 .. k - 1 : frames[t][j].dfp = block.dfp /\ frames[t][j].site # None
    <3>1. block # None => IF block.made THEN block \in procs ELSE AtCallBelow(frames[t], k, block.dfp)
      BY <1>1, <1>5, BlockOf
    <3> QED
      BY <3>1 DEF AtCallBelow
  <2> QED
    BY <1>4, <2>4, <2>5, <2>6
<1>6. ASSUME NEW p \in procs, NEW d \in Chain(p.dfp) PROVE vars_at[d].heap
  <2>1. {p.dfp} \in SUBSET Heap(vars_at)
    BY <1>3
  <2>2. ChainIn(vars_at, {p.dfp}) \subseteq Heap(vars_at)
    BY <1>3, <2>1, ChainIs
  <2> QED
    BY <1>6, <2>2 DEF Chain, Heap
<1> QED
  BY <1>5, <1>6 DEF PointersAreLive

\* No pointer outlives what it points to, however calls, blocks, Procs, threads and
\* throws are mixed: not the variables that a frame, a Proc or the block of a running
\* method reaches (vm_push_frame, vm_make_env_each, vm_pop_frame), and not the block
\* that is still part of a frame.
THEOREM PointersStayLive == Spec => []PointersAreLive
<1>1. Spec => []IInv
  BY StateIsGood
<1>2. IInv => PointersAreLive
  BY LiveIfGood DEF IInv
<1> QED
  BY <1>1, <1>2, PTL

LEMMA SpecialsIfGood == Pointers /\ Specials => SpecialsAreOfTheMethod
<1> SUFFICES ASSUME Pointers, Specials, NEW t \in Threads, NEW part \in Parts, InCode(t)
             PROVE  vm_getspecial(t, Top(t).lfp, part) =
                      IF written[Sharing(t, Top(t).lfp)] = "nil" THEN "nil"
                      ELSE IF part = "whole" THEN "match" ELSE "part of the match"
  BY DEF SpecialsAreOfTheMethod
<1>1. PICK lev, home : Shaped(frames, procs, vars_at, lev, home)
  BY DEF Pointers
<1>2. PICK lfp : lfp = Top(t).lfp
  OBVIOUS
<1>3. lfp \in Places /\ lfp \in Used(frames, vars_at)
  BY <1>1, <1>2, TopIs, BlockOf DEF Top, InCode
<1>4. lfp_svar_get(t, lfp) = written[Sharing(t, lfp)]
  <2>1. CASE local[t].lfp = lfp
    <3>1. t # Main
      BY <1>3, <2>1, PlacesAssumption DEF Specials, NoLocal
    <3> QED
      BY <2>1, <3>1 DEF lfp_svar_get, OwnPlace, Sharing, Specials
  <2>2. CASE local[t].lfp # lfp
    BY <1>3, <2>2 DEF lfp_svar_get, OwnPlace, Sharing, Specials
  <2> QED
    BY <2>1, <2>2
<1>5. written[Sharing(t, lfp)] \in {"nil", "match"}
  BY <1>3 DEF Specials, Sharing
<1>6. part \in {"whole", "part"}
  BY DEF Parts
<1> QED
  BY <1>2, <1>4, <1>5, <1>6 DEF vm_getspecial

\* $~ is what this activation of the method last wrote, or its blocks did, whether its
\* variables are on the stack or have moved to the heap (lfp_svar_get, lfp_svar_set), and
\* no place that is used again shows what another activation left in it.
THEOREM SpecialsStayOfTheMethod == Spec => []SpecialsAreOfTheMethod
<1>1. Spec => []IInv
  BY StateIsGood
<1>2. IInv => SpecialsAreOfTheMethod
  BY SpecialsIfGood DEF IInv
<1> QED
  BY <1>1, <1>2, PTL
-----------------------------------------------------------------------------
(* break, return and retry.  Each goes a path that ends.                   *)

SearchIs(s, search) ==
  search = [k \in 0 .. Len(s) |->
    CASE k = 0 -> 0
      [] k > 0 /\ TypeOf(s[k].iseq) = "BLOCK" -> k
      [] k > 0 /\ TypeOf(s[k].iseq) = "CLASS" -> search[k - 1]
      [] OTHER -> search[FrameOf(s, k, prev(s[k].dfp))]]

LEMMA BreaksFromIs ==
  ASSUME NEW s
  PROVE  \E search : search = (CHOOSE f : SearchIs(s, f)) /\ BreaksFrom(s) = search[Len(s)]
  BY DEF BreaksFrom, SearchIs

\* break looks for its block down the stack.
LEMMA SearchEnds ==
  ASSUME NEW s, Len(s) \in Nat, \A k \in 1 .. Len(s) : s[k].dfp # prev(s[k].dfp)
  PROVE  \E search :
           /\ BreaksFrom(s) = search[Len(s)]
           /\ \A k \in 1 .. Len(s) :
                /\ TypeOf(s[k].iseq) = "BLOCK" => search[k] = k
                /\ TypeOf(s[k].iseq) = "CLASS" => search[k] = search[k - 1]
                /\ TypeOf(s[k].iseq) \notin {"BLOCK", "CLASS"} =>
                     search[k] = search[FrameOf(s, k, prev(s[k].dfp))]
<1>1. PICK N \in Nat : N = Len(s)
  OBVIOUS
<1>2. PICK ends, base, next, left :
        /\ ends = {k \in 0 .. N : k = 0 \/ TypeOf(s[k].iseq) = "BLOCK"}
        /\ base = [k \in 0 .. N |-> k] /\ left = [k \in 0 .. N |-> k]
        /\ next = [k \in 0 .. N |-> IF TypeOf(s[k].iseq) = "CLASS" THEN k - 1
                                    ELSE FrameOf(s, k, prev(s[k].dfp))]
  OBVIOUS
<1>3. base \in [0 .. N -> 0 .. N] /\ left \in [0 .. N -> 0 .. N]
  BY <1>2
<1>4. ASSUME NEW k \in 0 .. N, k \notin ends PROVE next[k] \in 0 .. N /\ left[next[k]] < left[k]
  <2>1. k # 0
    BY <1>2, <1>4
  <2>2. k \in 1 .. N /\ k \in Nat
    BY <1>4, <2>1
  <2>3. FrameOf(s, k, prev(s[k].dfp)) \in 0 .. k - 1
    BY <1>1, <2>2, FrameOfIs
  <2>4. next[k] \in 0 .. k - 1
    BY <1>2, <2>2, <2>3
  <2>5. next[k] \in 0 .. N /\ next[k] < k
    BY <2>2, <2>4
  <2> QED
    BY <1>2, <2>2, <2>5
<1>5. PICK f : Follows(f, 0 .. N, ends, base, next)
  BY <1>3, <1>4, PathsEnd
<1>6. SearchIs(s, f)
  <2>1. f = [k \in 0 .. N |-> IF k \in ends THEN base[k] ELSE f[next[k]]]
    BY <1>5 DEF Follows
  <2>2. ASSUME NEW k \in 0 .. N
        PROVE  (IF k \in ends THEN base[k] ELSE f[next[k]]) =
                 CASE k = 0 -> 0
                   [] k > 0 /\ TypeOf(s[k].iseq) = "BLOCK" -> k
                   [] k > 0 /\ TypeOf(s[k].iseq) = "CLASS" -> f[k - 1]
                   [] OTHER -> f[FrameOf(s, k, prev(s[k].dfp))]
    <3>1. CASE k = 0
      <4>1. k \in ends /\ base[k] = 0
        BY <1>2, <3>1
      <4> QED
        BY <3>1, <4>1
    <3>2. CASE k > 0 /\ TypeOf(s[k].iseq) = "BLOCK"
      BY <1>2, <3>2
    <3>3. CASE k > 0 /\ TypeOf(s[k].iseq) = "CLASS"
      <4>1. k \notin ends /\ next[k] = k - 1
        BY <1>2, <3>3
      <4> QED
        BY <3>3, <4>1
    <3>4. CASE k > 0 /\ TypeOf(s[k].iseq) \notin {"BLOCK", "CLASS"}
      <4>1. k \notin ends /\ next[k] = FrameOf(s, k, prev(s[k].dfp))
        BY <1>2, <3>4
      <4> QED
        BY <3>4, <4>1
    <3> QED
      BY <3>1, <3>2, <3>3, <3>4
  <2> QED
    BY <1>1, <2>1, <2>2 DEF SearchIs
<1>7. PICK search : search = (CHOOSE g : SearchIs(s, g)) /\ BreaksFrom(s) = search[Len(s)]
  BY BreaksFromIs
<1>8. SearchIs(s, search)
  BY <1>6, <1>7
<1>9. ASSUME NEW k \in 1 .. N
      PROVE  /\ TypeOf(s[k].iseq) = "BLOCK" => search[k] = k
             /\ TypeOf(s[k].iseq) = "CLASS" => search[k] = search[k - 1]
             /\ TypeOf(s[k].iseq) \notin {"BLOCK", "CLASS"} =>
                  search[k] = search[FrameOf(s, k, prev(s[k].dfp))]
  <2>1. k \in 0 .. N /\ k > 0 /\ k # 0
    OBVIOUS
  <2>2. search[k] = CASE k = 0 -> 0
                      [] k > 0 /\ TypeOf(s[k].iseq) = "BLOCK" -> k
                      [] k > 0 /\ TypeOf(s[k].iseq) = "CLASS" -> search[k - 1]
                      [] OTHER -> search[FrameOf(s, k, prev(s[k].dfp))]
    BY <1>1, <1>8, <2>1 DEF SearchIs
  <2> QED
    BY <2>1, <2>2
<1> QED
  <2>1. BreaksFrom(s) = search[Len(s)]
    BY <1>7
  <2> QED
    BY <1>1, <1>9, <2>1

\* Out of code, there is an outermost one.
LEMMA CodeEnds ==
  \E N \in Nat : \E left \in [DOMAIN Iseqs -> 0 .. N] :
    \A i \in DOMAIN Iseqs : Iseqs[i].parent \in DOMAIN Iseqs => left[Iseqs[i].parent] < left[i]
<1>1. PICK next : next = [i \in DOMAIN Iseqs |-> Iseqs[i].parent]
  OBVIOUS
<1>2. /\ IsFiniteSet(DOMAIN Iseqs)
      /\ \A T \in SUBSET DOMAIN Iseqs : T # {} => \E i \in T : next[i] \notin T
  BY <1>1, IseqsAssumption
<1>3. PICK left \in [DOMAIN Iseqs -> 0 .. Cardinality(DOMAIN Iseqs)] :
        \A i \in DOMAIN Iseqs : next[i] \in DOMAIN Iseqs => left[next[i]] < left[i]
  BY <1>2, PathsShorten
<1>4. Cardinality(DOMAIN Iseqs) \in Nat
  BY <1>2, FS_CardinalityType
<1> QED
  BY <1>1, <1>3, <1>4

CanBreakTo(in) ==
  in = [i \in DOMAIN Iseqs |->
    TypeOf(i) = "BLOCK" \/ (TypeOf(i) \in {"RESCUE", "CLASS"} /\ in[Iseqs[i].parent])]

LEMMA CanBreakIs ==
  ASSUME NEW i \in DOMAIN Iseqs, CanBreak(i)
  PROVE  \/ TypeOf(i) = "BLOCK"
         \/ /\ TypeOf(i) \in {"RESCUE", "CLASS"}
            /\ Iseqs[i].parent \in DOMAIN Iseqs /\ CanBreak(Iseqs[i].parent)
<1>1. PICK N \in Nat : \E left \in [DOMAIN Iseqs -> 0 .. N] :
        \A j \in DOMAIN Iseqs : Iseqs[j].parent \in DOMAIN Iseqs => left[Iseqs[j].parent] < left[j]
  BY CodeEnds
<1>2. PICK left \in [DOMAIN Iseqs -> 0 .. N] :
        \A j \in DOMAIN Iseqs : Iseqs[j].parent \in DOMAIN Iseqs => left[Iseqs[j].parent] < left[j]
  BY <1>1
<1>3. \A j \in DOMAIN Iseqs : TypeOf(j) \in {"RESCUE", "CLASS"} => Iseqs[j].parent \in DOMAIN Iseqs
  BY LevelsAre, IseqsAssumption
<1>4. PICK ends, base, next :
        /\ ends = {j \in DOMAIN Iseqs : TypeOf(j) \notin {"RESCUE", "CLASS"}}
        /\ base = [j \in DOMAIN Iseqs |-> TypeOf(j) = "BLOCK"]
        /\ next = [j \in DOMAIN Iseqs |-> Iseqs[j].parent]
  OBVIOUS
<1>5. base \in [DOMAIN Iseqs -> BOOLEAN]
  BY <1>4
<1>6. \A j \in DOMAIN Iseqs : j \notin ends => next[j] \in DOMAIN Iseqs /\ left[next[j]] < left[j]
  BY <1>2, <1>3, <1>4
<1>7. PICK in : in \in [DOMAIN Iseqs -> BOOLEAN] /\ Follows(in, DOMAIN Iseqs, ends, base, next)
  BY <1>5, <1>6, PathsEnd
<1>8. CanBreakTo(in)
  <2>1. ASSUME NEW j \in DOMAIN Iseqs
        PROVE  (IF j \in ends THEN base[j] ELSE in[next[j]]) =
                 (TypeOf(j) = "BLOCK" \/ (TypeOf(j) \in {"RESCUE", "CLASS"} /\ in[Iseqs[j].parent]))
    <3>1. CASE TypeOf(j) \in {"RESCUE", "CLASS"}
      <4>1. j \notin ends /\ next[j] = Iseqs[j].parent /\ TypeOf(j) # "BLOCK"
        BY <1>4, <3>1
      <4>2. in[Iseqs[j].parent] \in BOOLEAN
        BY <1>3, <1>7, <3>1
      <4> QED
        BY <3>1, <4>1, <4>2
    <3>2. CASE TypeOf(j) \notin {"RESCUE", "CLASS"}
      <4>1. j \in ends /\ base[j] = (TypeOf(j) = "BLOCK")
        BY <1>4, <3>2
      <4> QED
        BY <3>2, <4>1
    <3> QED
      BY <3>1, <3>2
  <2> QED
    BY <1>7, <2>1 DEF CanBreakTo, Follows
<1>9. PICK search : search = (CHOOSE g : CanBreakTo(g)) /\ \A j : CanBreak(j) = search[j]
  BY DEF CanBreak, CanBreakTo
<1>10. CanBreakTo(search)
  BY <1>8, <1>9
<1>11. search[i] = (TypeOf(i) = "BLOCK" \/ (TypeOf(i) \in {"RESCUE", "CLASS"} /\ search[Iseqs[i].parent]))
  BY <1>10 DEF CanBreakTo
<1> QED
  BY <1>3, <1>9, <1>11

\* A stack of a state.
GoodStack(s, code) ==
  /\ s \in Seq(Frames)
  /\ \A j, k \in 1 .. Len(s) : s[j].dfp = s[k].dfp => j = k
  /\ \A k \in 1 .. Len(s) :
       /\ FrameCoded(s, k, vars_at, code)
       /\ \A j \in k .. Len(s) : s[j].dfp # prev(s[k].dfp)

LEMMA StackIs ==
  ASSUME NEW lev, NEW home, Shaped(frames, procs, vars_at, lev, home),
         NEW code, Coded(frames, procs, vars_at, code), NEW t \in Threads
  PROVE  GoodStack(frames[t], code)
<1>1. PICK s : s = frames[t]
  OBVIOUS
<1>2. Typed(frames, procs, vars_at) /\ Leveled(vars_at, lev, home, Used(frames, vars_at))
  BY DEF Shaped
<1>3. s \in Seq(Frames) /\ \A j, k \in 1 .. Len(s) : s[j].dfp = s[k].dfp => j = k
  BY <1>1 DEF Shaped, Typed, Distinct
<1>4. ASSUME NEW k \in 1 .. Len(s), NEW j \in k .. Len(s) PROVE s[j].dfp # prev(s[k].dfp)
  <2>1. PICK d : d = s[k].dfp
    OBVIOUS
  <2>2. d \in Used(frames, vars_at) /\ d \in Places
    BY <1>1, <1>2, <2>1, FramePlaces
  <2>3. d # prev(d)
    BY <1>2, <2>2, PlacesAssumption DEF Leveled, prev
  <2>4. CASE prev(d) = None
    <3>1. j \in 1 .. Len(s)
      BY <1>3
    <3>2. s[j].dfp \in Places
      BY <1>1, <1>2, <3>1, FramePlaces
    <3> QED
      BY <2>1, <2>4, <3>2, PlacesAssumption
  <2>5. CASE prev(d) # None /\ j # k
    <3>1. HangsBack(s, k, vars_at)
      BY <1>1 DEF Coded, FrameCoded
    <3>2. prev(d) \in ChainIn(vars_at, {d})
      BY <2>5 DEF ChainIn, Up, prev
    <3>3. j \in k + 1 .. Len(s)
      BY <1>3, <2>5
    <3> QED
      BY <2>1, <3>1, <3>2, <3>3 DEF HangsBack
  <2> QED
    BY <2>1, <2>3, <2>4, <2>5
<1> QED
  BY <1>1, <1>3, <1>4 DEF GoodStack, Coded

\* The frame of variables is found.
LEMMA OwnFrame ==
  ASSUME NEW s, NEW code, GoodStack(s, code), NEW k \in 1 .. Len(s), NEW n \in k .. Len(s)
  PROVE  FrameOf(s, n, s[k].dfp) = k
<1>1. n \in Nat /\ k \in 1 .. n /\ \A j \in 1 .. n : j \in 1 .. Len(s)
  BY DEF GoodStack
<1> QED
  BY <1>1, FrameOfIs DEF GoodStack

\* break is in a block.
InBlock(s, k) == k \in 1 .. Len(s) /\ s[k].iseq # None /\ TypeOf(s[k].iseq) = "BLOCK"

LEMMA BreakIsInBlock ==
  ASSUME NEW s, NEW code, GoodStack(s, code), Len(s) # 0,
         s[Len(s)].iseq \in DOMAIN Iseqs, CanBreak(s[Len(s)].iseq)
  PROVE  InBlock(s, BreaksFrom(s))
<1>1. Len(s) \in Nat /\ \A k \in 1 .. Len(s) : s[k].dfp # prev(s[k].dfp)
  BY DEF GoodStack
<1>2. PICK search :
        /\ BreaksFrom(s) = search[Len(s)]
        /\ \A k \in 1 .. Len(s) :
             /\ TypeOf(s[k].iseq) = "BLOCK" => search[k] = k
             /\ TypeOf(s[k].iseq) = "CLASS" => search[k] = search[k - 1]
             /\ TypeOf(s[k].iseq) \notin {"BLOCK", "CLASS"} =>
                  search[k] = search[FrameOf(s, k, prev(s[k].dfp))]
  BY <1>1, SearchEnds
<1>3. PICK P : P = {k \in Nat : k \in 1 .. Len(s) /\ s[k].iseq \in DOMAIN Iseqs /\ CanBreak(s[k].iseq)
                                 => InBlock(s, search[k])}
  OBVIOUS
<1>4. 0 \in P
  BY <1>3
<1>5. ASSUME NEW n \in P PROVE n + 1 \in P
  <2>1. PICK k \in Nat : k = n + 1 /\ k - 1 = n
    BY <1>3
  <2> SUFFICES ASSUME k \in 1 .. Len(s), s[k].iseq \in DOMAIN Iseqs, CanBreak(s[k].iseq)
               PROVE  InBlock(s, search[k])
    BY <1>3, <2>1
  <2>2. CASE TypeOf(s[k].iseq) = "BLOCK"
    BY <1>2, <2>2, PlacesAssumption DEF InBlock
  <2>3. CASE TypeOf(s[k].iseq) \in {"RESCUE", "CLASS"}
    <3>1. Iseqs[s[k].iseq].parent \in DOMAIN Iseqs /\ CanBreak(Iseqs[s[k].iseq].parent)
      BY <2>3, CanBreakIs
    <3>2. FrameCoded(s, k, vars_at, code)
      BY DEF GoodStack
    <3>3. k > 1 /\ s[n].iseq = Iseqs[s[k].iseq].parent
      BY <2>1, <2>3, <3>2, PlacesAssumption DEF FrameCoded
    <3>4. n \in 1 .. Len(s) /\ k \in n .. Len(s)
      BY <1>1, <2>1, <3>3
    <3>5. InBlock(s, search[n])
      BY <1>3, <3>1, <3>3, <3>4
    <3>6. search[k] = search[n]
      <4>1. CASE TypeOf(s[k].iseq) = "CLASS"
        BY <1>2, <2>1, <4>1
      <4>2. CASE TypeOf(s[k].iseq) = "RESCUE"
        <5>1. s[n].dfp = prev(s[k].dfp)
          BY <2>1, <3>2, <4>2, PlacesAssumption DEF FrameCoded, prev
        <5>2. FrameOf(s, k, prev(s[k].dfp)) = n
          BY <3>4, <5>1, OwnFrame
        <5> QED
          BY <1>2, <4>2, <5>2
      <4> QED
        BY <2>3, <4>1, <4>2
    <3> QED
      BY <3>5, <3>6
  <2> QED
    BY <2>2, <2>3, CanBreakIs
<1>6. P = Nat
  BY <1>3, <1>4, <1>5, NumbersByInduction
<1>7. Len(s) \in 1 .. Len(s)
  BY <1>1
<1> QED
  BY <1>1, <1>2, <1>3, <1>6, <1>7

LEMMA BreakIfGood == Pointers /\ Codes => BreakEndsItsCall
<1> SUFFICES ASSUME Pointers, Codes, NEW t \in Threads, InCode(t), CanBreak(Top(t).iseq),
                    NEW s, s = frames[t], NEW k, k = BreaksFrom(s),
                    NEW creator, creator = prev(s[k].dfp), NEW got, got = throw_break(s)
             PROVE  IF s[k].type = "LAMBDA" THEN got = Goto(s[k].dfp, "RETURN")
                    ELSE /\ got # Error => got.pt = creator
                         /\ got # Error <=>
                              \E j \in 1 .. Len(s) : /\ s[j].dfp = creator
                                                     /\ s[j].site \in DOMAIN Iseqs
  BY DEF BreakEndsItsCall
<1>1. PICK lev, home, code :
        Shaped(frames, procs, vars_at, lev, home) /\ Coded(frames, procs, vars_at, code)
  BY DEF Pointers, Codes
<1>2. GoodStack(s, code)
  BY <1>1, StackIs
<1>3. InBlock(s, k)
  <2>1. Len(s) # 0 /\ s[Len(s)].iseq \in DOMAIN Iseqs
    BY <1>1, TopIs DEF InCode, Top
  <2> QED
    BY <1>2, <2>1, BreakIsInBlock DEF Top
<1>4. k \in 1 .. Len(s) /\ Len(s) \in Nat
  BY <1>2, <1>3 DEF InBlock, GoodStack
<1>5. PICK j : j = FrameOf(s, k, creator)
  OBVIOUS
<1>6. \/ j = 0 /\ \A i \in 1 .. k : s[i].dfp # creator
      \/ j \in 1 .. k /\ s[j].dfp = creator
  BY <1>4, <1>5, FrameOfIs
<1>7. got = IF s[k].type = "LAMBDA" THEN Goto(s[k].dfp, "RETURN")
            ELSE IF j = 0 \/ s[j].site \in {None, "plain"} THEN Error ELSE Goto(s[j].dfp, "BREAK")
  BY <1>5 DEF throw_break
<1>8. CASE s[k].type = "LAMBDA"
  BY <1>7, <1>8
<1>9. CASE s[k].type # "LAMBDA"
  <2>1. \A i \in 1 .. Len(s) : s[i].site \in DOMAIN Iseqs \cup {None, "plain"}
    <3>1. \A i \in 1 .. Len(s) : s[i] \in Frames
      BY <1>2, ElementOfSeq DEF GoodStack
    <3> QED
      BY <3>1 DEF Frames
  <2>2. \A i \in 1 .. Len(s) : s[i].dfp = creator => i \in 1 .. k /\ i = j
    <3>1. \A i \in k .. Len(s) : s[i].dfp # creator
      BY <1>4, <1>2 DEF GoodStack
    <3>2. \A i \in 1 .. Len(s) : i \in 1 .. k \/ i \in k .. Len(s)
      BY <1>4
    <3>3. \A i, m \in 1 .. Len(s) : s[i].dfp = s[m].dfp => i = m
      BY <1>2 DEF GoodStack
    <3>4. \A i \in 1 .. k : i \in 1 .. Len(s)
      BY <1>4
    <3> QED
      BY <1>6, <3>1, <3>2, <3>3, <3>4
  <2>3. \A pt : Goto(pt, "BREAK") # Error /\ Goto(pt, "BREAK").pt = pt
    BY DEF Goto, Error
  <2>4. CASE j = 0
    <3>1. got = Error
      BY <1>7, <1>9, <2>4
    <3>2. \A i \in 1 .. Len(s) : s[i].dfp # creator
      BY <2>2, <2>4
    <3> QED
      BY <1>9, <3>1, <3>2
  <2>5. CASE j # 0
    <3>1. j \in 1 .. Len(s) /\ s[j].dfp = creator
      BY <1>4, <1>6, <2>5
    <3>2. s[j].site \in DOMAIN Iseqs <=> s[j].site \notin {None, "plain"}
      BY <2>1, <3>1, PlacesAssumption, IseqsAssumption
    <3>3. IF s[j].site \in DOMAIN Iseqs THEN got # Error /\ got.pt = creator ELSE got = Error
      BY <1>7, <1>9, <2>3, <2>5, <3>1, <3>2
    <3> QED
      BY <1>9, <2>2, <3>1, <3>3
  <2> QED
    BY <2>4, <2>5
<1> QED
  BY <1>8, <1>9

\* return goes down the stack.
Seek(k, lfp, in_class) == [k |-> k, lfp |-> lfp, in_class |-> in_class]
Seeks(s) == [k : 0 .. Len(s), lfp : Places \cup {None}, in_class : BOOLEAN]
ClassAt(f, l) == f.dfp = l /\ f.iseq # None /\ TypeOf(f.iseq) = "CLASS"
LambdaAt(f, l) == f.lfp = l /\ f.type = "LAMBDA" /\ ~ClassAt(f, l)
MethodAt(f, l) == f.dfp = l /\ f.type = "METHOD" /\ ~ClassAt(f, l)
Looked(s, k, lfp) == IF lfp = None THEN s[k].lfp ELSE lfp

DownFrom(s, counts, around, down, at) ==
  IF at.k = 0 THEN Error
  ELSE LET f == s[at.k]
           l == IF at.lfp = None THEN f.lfp ELSE at.lfp
           class == f.dfp = l /\ f.iseq # None /\ TypeOf(f.iseq) = "CLASS"
           lambda == f.lfp = l /\ f.type = "LAMBDA" /\ ~class
           method == f.dfp = l /\ f.type = "METHOD" /\ ~class
       IN CASE lambda /\ at.in_class ->
                 IF counts THEN Goto(f.dfp, "RETURN") ELSE Goto(None, "fault")
            [] lambda /\ ~at.in_class /\ f.dfp \in around -> Goto(f.dfp, "RETURN")
            [] method -> Goto(l, "RETURN")
            [] OTHER -> down[[k |-> at.k - 1, lfp |-> IF class THEN None ELSE l,
                              in_class |-> at.in_class \/ class]]
DownIs(s, counts, around, down) ==
  down = [at \in [k : 0 .. Len(s), lfp : Places \cup {None}, in_class : BOOLEAN] |->
            DownFrom(s, counts, around, down, at)]

LEMMA ReturnsToIs ==
  ASSUME NEW s, NEW counts
  PROVE  \E down : /\ down = (CHOOSE f : DownIs(s, counts, Chain(s[Len(s)].dfp), f))
                   /\ ReturnsTo(s, counts) =
                        down[[k |-> Len(s), lfp |-> s[Len(s)].lfp, in_class |-> FALSE]]
  BY DEF DownIs, DownFrom, ReturnsTo

\* What it does at a frame, looking for what is in the method of l.
GoesDown(s, counts, around, down, k, lfp, in_class, l) ==
  /\ LambdaAt(s[k], l) /\ in_class =>
       down[Seek(k, lfp, in_class)] = IF counts THEN Goto(s[k].dfp, "RETURN") ELSE Goto(None, "fault")
  /\ LambdaAt(s[k], l) /\ ~in_class /\ s[k].dfp \in around =>
       down[Seek(k, lfp, in_class)] = Goto(s[k].dfp, "RETURN")
  /\ MethodAt(s[k], l) => down[Seek(k, lfp, in_class)] = Goto(s[k].dfp, "RETURN")
  /\ ClassAt(s[k], l) => down[Seek(k, lfp, in_class)] = down[Seek(k - 1, None, TRUE)]
  /\ ~ClassAt(s[k], l) /\ ~MethodAt(s[k], l) /\ (LambdaAt(s[k], l) => ~in_class /\ s[k].dfp \notin around) =>
       down[Seek(k, lfp, in_class)] = down[Seek(k - 1, l, in_class)]

Going(s, counts, around, down) ==
  \A lfp \in Places \cup {None}, in_class \in BOOLEAN :
    /\ down[Seek(0, lfp, in_class)] = Error
    /\ \A k \in 1 .. Len(s) :
         GoesDown(s, counts, around, down, k, lfp, in_class, Looked(s, k, lfp))

LEMMA ReturnEnds ==
  ASSUME NEW s \in Seq(Frames), NEW counts \in BOOLEAN, NEW around, around = Chain(s[Len(s)].dfp)
  PROVE  \E down :
           /\ ReturnsTo(s, counts) = down[Seek(Len(s), s[Len(s)].lfp, FALSE)]
           /\ Going(s, counts, around, down)
<1>1. PICK N \in Nat : N = Len(s)
  OBVIOUS
<1>2. \A k \in 1 .. N : s[k].lfp \in Places /\ s[k].dfp \in Places
  <2>1. \A k \in 1 .. N : s[k] \in Frames
    BY <1>1, ElementOfSeq
  <2> QED
    BY <2>1 DEF Frames
<1>3. PICK S : S = Seeks(s)
  OBVIOUS
<1>15. PICK l : l = [at \in S |-> IF at.lfp = None THEN s[at.k].lfp ELSE at.lfp]
  OBVIOUS
<1>4. PICK val, next, left, stops :
        /\ stops = {at \in S : \/ LambdaAt(s[at.k], l[at]) /\ (at.in_class \/ s[at.k].dfp \in around)
                               \/ MethodAt(s[at.k], l[at])}
        /\ val = [at \in S |-> IF at.k = 0 THEN Error
                               ELSE IF LambdaAt(s[at.k], l[at]) /\ at.in_class /\ ~counts
                               THEN Goto(None, "fault") ELSE Goto(s[at.k].dfp, "RETURN")]
        /\ next = [at \in S |->
                    Seek(at.k - 1, IF ClassAt(s[at.k], l[at]) THEN None ELSE l[at],
                         at.in_class \/ ClassAt(s[at.k], l[at]))]
        /\ left = [at \in S |-> at.k]
  OBVIOUS
<1>5. PICK ends : ends = {at \in S : at.k = 0} \cup stops
  OBVIOUS
<1>6. ASSUME NEW at \in S
      PROVE  at.k \in 0 .. N /\ at.lfp \in Places \cup {None} /\ at.in_class \in BOOLEAN
  BY <1>1, <1>3 DEF Seeks
<1>7. ASSUME NEW k \in 0 .. N, NEW lfp \in Places \cup {None}, NEW in_class \in BOOLEAN
      PROVE  /\ Seek(k, lfp, in_class) \in S /\ Seek(k, lfp, in_class).k = k
             /\ Seek(k, lfp, in_class).lfp = lfp /\ Seek(k, lfp, in_class).in_class = in_class
  BY <1>1, <1>3 DEF Seeks, Seek
<1>8. ASSUME NEW at \in S, at \notin ends PROVE next[at] \in S /\ left[next[at]] < left[at]
  <2>1. at.k # 0 /\ at.k \in 1 .. N /\ at.k - 1 \in 0 .. N
    <3>1. at.k # 0
      BY <1>5, <1>8
    <3> QED
      BY <1>6, <3>1
  <2>2. l[at] \in Places \cup {None}
    BY <1>2, <1>4, <1>15, <1>6, <2>1
  <2>3. PICK m, c : /\ m = (IF ClassAt(s[at.k], l[at]) THEN None ELSE l[at])
                    /\ c = (at.in_class \/ ClassAt(s[at.k], l[at]))
    OBVIOUS
  <2>4. next[at] = Seek(at.k - 1, m, c) /\ m \in Places \cup {None} /\ c \in BOOLEAN
    BY <1>4, <1>15, <1>6, <2>2, <2>3
  <2>5. next[at] \in S /\ next[at].k = at.k - 1
    BY <1>7, <2>1, <2>4
  <2>6. left[next[at]] = at.k - 1 /\ left[at] = at.k
    BY <1>4, <1>15, <2>5
  <2> QED
    BY <2>1, <2>5, <2>6
<1>9. PICK V : V = {val[at] : at \in S}
  OBVIOUS
<1>10. val \in [S -> V] /\ left \in [S -> 0 .. N]
  BY <1>4, <1>15, <1>6, <1>9
<1>11. PICK f : Follows(f, S, ends, val, next)
  BY <1>8, <1>10, PathsEnd
<1>12. f = [at \in S |-> IF at \in ends THEN val[at] ELSE f[next[at]]]
  BY <1>11 DEF Follows
<1>13. DownIs(s, counts, around, f)
  <2>1. ASSUME NEW at \in S
        PROVE  (IF at \in ends THEN val[at] ELSE f[next[at]]) = DownFrom(s, counts, around, f, at)
    <3>1. PICK ff, ll, class, lambda, method :
             /\ ff = s[at.k]
             /\ ll = (IF at.lfp = None THEN ff.lfp ELSE at.lfp)
             /\ class = (ff.dfp = ll /\ ff.iseq # None /\ TypeOf(ff.iseq) = "CLASS")
             /\ lambda = (ff.lfp = ll /\ ff.type = "LAMBDA" /\ ~class)
             /\ method = (ff.dfp = ll /\ ff.type = "METHOD" /\ ~class)
      OBVIOUS
    <3>2. /\ class = ClassAt(ff, ll) /\ lambda = LambdaAt(ff, ll) /\ method = MethodAt(ff, ll)
          /\ l[at] = ll /\ ~(lambda /\ method)
      BY <1>4, <1>15, <3>1 DEF ClassAt, LambdaAt, MethodAt
    <3>3. CASE at.k = 0
      BY <1>4, <1>5, <3>3 DEF DownFrom
    <3>4. CASE at.k # 0
      <4> SUFFICES (IF at \in ends THEN val[at] ELSE f[next[at]]) =
                     CASE lambda /\ at.in_class ->
                            IF counts THEN Goto(ff.dfp, "RETURN") ELSE Goto(None, "fault")
                       [] lambda /\ ~at.in_class /\ ff.dfp \in around -> Goto(ff.dfp, "RETURN")
                       [] method -> Goto(ll, "RETURN")
                       [] OTHER -> f[[k |-> at.k - 1, lfp |-> IF class THEN None ELSE ll,
                                      in_class |-> at.in_class \/ class]]
        BY <3>1, <3>4 DEF DownFrom
      <4>1. CASE lambda /\ at.in_class
        <5>1. at \in ends /\ val[at] = IF counts THEN Goto(ff.dfp, "RETURN") ELSE Goto(None, "fault")
          BY <1>4, <1>15, <1>5, <3>1, <3>2, <3>4, <4>1
        <5> QED
          BY <3>2, <4>1, <5>1
      <4>2. CASE lambda /\ ~at.in_class /\ ff.dfp \in around
        <5>1. at \in ends /\ val[at] = Goto(ff.dfp, "RETURN")
          BY <1>4, <1>15, <1>5, <3>1, <3>2, <3>4, <4>2
        <5> QED
          BY <3>2, <4>2, <5>1
      <4>3. CASE method
        <5>1. at \in ends /\ val[at] = Goto(ff.dfp, "RETURN") /\ ff.dfp = ll
          BY <1>4, <1>15, <1>5, <3>1, <3>2, <3>4, <4>3
        <5> QED
          BY <3>2, <4>3, <5>1
      <4>4. CASE ~method /\ ~(lambda /\ at.in_class) /\ ~(lambda /\ ~at.in_class /\ ff.dfp \in around)
        <5>1. at \notin ends
          BY <1>4, <1>15, <1>5, <3>1, <3>2, <3>4, <4>4
        <5>2. next[at] = [k |-> at.k - 1, lfp |-> IF class THEN None ELSE ll,
                          in_class |-> at.in_class \/ class]
          BY <1>4, <1>15, <3>1, <3>2 DEF Seek
        <5> QED
          BY <4>4, <5>1, <5>2
      <4> QED
        BY <4>1, <4>2, <4>3, <4>4
    <3> QED
      BY <3>3, <3>4
  <2> QED
    BY <1>1, <1>3, <1>12, <2>1 DEF DownIs, Seeks
<1>14. PICK down : /\ down = (CHOOSE g : DownIs(s, counts, around, g))
                   /\ ReturnsTo(s, counts) =
                        down[[k |-> Len(s), lfp |-> s[Len(s)].lfp, in_class |-> FALSE]]
  BY ReturnsToIs
<1>16. DownIs(s, counts, around, down)
  BY <1>13, <1>14
<1>17. ASSUME NEW lfp \in Places \cup {None}, NEW in_class \in BOOLEAN
       PROVE  down[Seek(0, lfp, in_class)] = Error
  <2>1. PICK at \in Seeks(s) : at = Seek(0, lfp, in_class) /\ at.k = 0
    BY <1>1, <1>3, <1>7
  <2>2. down[at] = DownFrom(s, counts, around, down, at)
    BY <1>16 DEF DownIs, Seeks
  <2> QED
    BY <2>1, <2>2 DEF DownFrom
<1>18. ASSUME NEW lfp \in Places \cup {None}, NEW in_class \in BOOLEAN, NEW k \in 1 .. N
       PROVE  GoesDown(s, counts, around, down, k, lfp, in_class, Looked(s, k, lfp))
  <2>1. PICK at \in Seeks(s) : /\ at = Seek(k, lfp, in_class) /\ at.k = k /\ at.k # 0
                               /\ at.lfp = lfp /\ at.in_class = in_class
    <3>1. k \in 0 .. N /\ k # 0
      BY <1>1
    <3> QED
      BY <1>3, <1>7, <3>1
  <2>2. PICK ff, ll, class, lambda, method :
           /\ ff = s[at.k]
           /\ ll = (IF at.lfp = None THEN ff.lfp ELSE at.lfp)
           /\ class = (ff.dfp = ll /\ ff.iseq # None /\ TypeOf(ff.iseq) = "CLASS")
           /\ lambda = (ff.lfp = ll /\ ff.type = "LAMBDA" /\ ~class)
           /\ method = (ff.dfp = ll /\ ff.type = "METHOD" /\ ~class)
    OBVIOUS
  <2>3. /\ class = ClassAt(ff, ll) /\ lambda = LambdaAt(ff, ll) /\ method = MethodAt(ff, ll)
        /\ ll = Looked(s, k, lfp) /\ ~(lambda /\ method) /\ ~(class /\ lambda) /\ ~(class /\ method)
    BY <2>1, <2>2 DEF ClassAt, LambdaAt, MethodAt, Looked
  <2>11. down[at] = DownFrom(s, counts, around, down, at)
    BY <1>16, <2>1 DEF DownIs, Seeks
  <2>4. down[at] = CASE lambda /\ at.in_class ->
                          IF counts THEN Goto(ff.dfp, "RETURN") ELSE Goto(None, "fault")
                     [] lambda /\ ~at.in_class /\ ff.dfp \in around -> Goto(ff.dfp, "RETURN")
                     [] method -> Goto(ll, "RETURN")
                     [] OTHER -> down[[k |-> at.k - 1, lfp |-> IF class THEN None ELSE ll,
                                       in_class |-> at.in_class \/ class]]
    BY <2>1, <2>2, <2>11 DEF DownFrom
  <2>5. lambda /\ at.in_class => down[at] = IF counts THEN Goto(ff.dfp, "RETURN") ELSE Goto(None, "fault")
    BY <2>3, <2>4
  <2>6. lambda /\ ~at.in_class /\ ff.dfp \in around => down[at] = Goto(ff.dfp, "RETURN")
    BY <2>3, <2>4
  <2>7. method => down[at] = Goto(ll, "RETURN") /\ ff.dfp = ll
    BY <2>2, <2>3, <2>4
  <2>8. ~method /\ ~(lambda /\ at.in_class) /\ ~(lambda /\ ~at.in_class /\ ff.dfp \in around) =>
          down[at] = down[[k |-> at.k - 1, lfp |-> IF class THEN None ELSE ll,
                           in_class |-> at.in_class \/ class]]
    BY <2>4
  <2>9. class => /\ [k |-> at.k - 1, lfp |-> IF class THEN None ELSE ll, in_class |-> at.in_class \/ class]
                       = Seek(k - 1, None, TRUE)
    BY <2>1 DEF Seek
  <2>10. ~class => [k |-> at.k - 1, lfp |-> IF class THEN None ELSE ll, in_class |-> at.in_class \/ class]
                     = Seek(k - 1, ll, in_class)
    BY <2>1 DEF Seek
  <2> QED
    BY <2>1, <2>2, <2>3, <2>5, <2>6, <2>7, <2>8, <2>9, <2>10 DEF GoesDown
<1>19. ReturnsTo(s, counts) = down[Seek(Len(s), s[Len(s)].lfp, FALSE)]
  BY <1>14 DEF Seek
<1> QED
  BY <1>1, <1>17, <1>18, <1>19 DEF Going

\* It leaves a lambda or a method.
Leaves(s, k, got) ==
  \/ got = Error
  \/ \E j \in 1 .. k : got = Goto(s[j].dfp, "RETURN") /\ s[j].type \in {"LAMBDA", "METHOD"}

LEMMA DownLeaves ==
  ASSUME NEW s \in Seq(Frames), NEW around, NEW down, Going(s, TRUE, around, down),
         NEW k \in 0 .. Len(s), NEW lfp \in Places \cup {None}, NEW in_class \in BOOLEAN
  PROVE  Leaves(s, k, down[Seek(k, lfp, in_class)])
<1>1. PICK P : P = {n \in Nat : n \in 0 .. Len(s) =>
                      \A l \in Places \cup {None}, c \in BOOLEAN : Leaves(s, n, down[Seek(n, l, c)])}
  OBVIOUS
<1>2. 0 \in P
  BY <1>1 DEF Going, Leaves
<1>3. ASSUME NEW n \in P PROVE n + 1 \in P
  <2>1. PICK m \in Nat : m = n + 1 /\ m - 1 = n
    BY <1>1
  <2> SUFFICES ASSUME m \in 0 .. Len(s), NEW l \in Places \cup {None}, NEW c \in BOOLEAN
               PROVE  Leaves(s, m, down[Seek(m, l, c)])
    BY <1>1, <2>1
  <2>2. m \in 1 .. Len(s) /\ n \in 0 .. Len(s) /\ \A j \in 1 .. n : j \in 1 .. m
    BY <1>1, <2>1
  <2>3. PICK l2 : l2 = Looked(s, m, l)
    OBVIOUS
  <2>4. GoesDown(s, TRUE, around, down, m, l, c, l2)
    BY <2>2, <2>3 DEF Going
  <2>5. l2 \in Places
    <3>1. s[m] \in Frames
      BY <2>2, ElementOfSeq
    <3> QED
      BY <2>3, <3>1 DEF Looked, Frames
  <2>6. Leaves(s, n, down[Seek(n, l2, c)]) /\ Leaves(s, n, down[Seek(n, None, TRUE)])
    BY <1>1, <2>2, <2>5
  <2>7. Leaves(s, m, down[Seek(n, l2, c)]) /\ Leaves(s, m, down[Seek(n, None, TRUE)])
    BY <2>2, <2>6 DEF Leaves
  <2>8. m \in 1 .. m
    BY <2>2
  <2>9. CASE ClassAt(s[m], l2)
    BY <2>1, <2>4, <2>7, <2>9 DEF GoesDown
  <2>10. CASE MethodAt(s[m], l2)
    BY <2>4, <2>8, <2>10 DEF GoesDown, Leaves, MethodAt
  <2>11. CASE LambdaAt(s[m], l2) /\ (c \/ s[m].dfp \in around)
    BY <2>4, <2>8, <2>11 DEF GoesDown, Leaves, LambdaAt
  <2>12. CASE ~ClassAt(s[m], l2) /\ ~MethodAt(s[m], l2) /\ (LambdaAt(s[m], l2) => ~c /\ s[m].dfp \notin around)
    BY <2>1, <2>4, <2>7, <2>12 DEF GoesDown
  <2> QED
    BY <2>9, <2>10, <2>11, <2>12
<1>4. P = Nat
  BY <1>1, <1>2, <1>3, NumbersByInduction
<1> QED
  BY <1>1, <1>4

\* It passes frames that are neither around it nor its method or class.
Passes(f, around, l, in_class) ==
  /\ ~ClassAt(f, l) /\ ~MethodAt(f, l)
  /\ LambdaAt(f, l) => ~in_class /\ f.dfp \notin around

AllPassed(s, m, k, around, l, in_class) ==
  /\ k \in 0 .. Len(s) /\ m \in 0 .. k
  /\ \A j \in m + 1 .. k : Passes(s[j], around, l, in_class)

Gets(down, k, m, l, in_class) == down[Seek(k, l, in_class)] = down[Seek(m, l, in_class)]

Moves(s, around, down) == \E counts \in BOOLEAN : Going(s, counts, around, down)

LEMMA DownPasses ==
  ASSUME NEW s \in Seq(Frames), NEW around, NEW down, Moves(s, around, down),
         NEW k, NEW m, NEW l \in Places, NEW in_class \in BOOLEAN,
         AllPassed(s, m, k, around, l, in_class)
  PROVE  Gets(down, k, m, l, in_class)
<1>5. PICK counts \in BOOLEAN : Going(s, counts, around, down)
  BY DEF Moves
<1>1. PICK P : P = {n \in Nat : n \in m .. k => down[Seek(n, l, in_class)] = down[Seek(m, l, in_class)]}
  OBVIOUS
<1>0. /\ k \in 0 .. Len(s) /\ m \in 0 .. k
      /\ \A j \in m + 1 .. k : Passes(s[j], around, l, in_class)
  BY DEF AllPassed
<1>2. 0 \in P
  BY <1>0, <1>1
<1>3. ASSUME NEW n \in P PROVE n + 1 \in P
  <2>1. PICK i \in Nat : i = n + 1 /\ i - 1 = n
    BY <1>1
  <2> SUFFICES ASSUME i \in m .. k, i # m
               PROVE  down[Seek(i, l, in_class)] = down[Seek(m, l, in_class)]
    BY <1>1, <2>1
  <2>2. n \in m .. k /\ i \in 1 .. Len(s) /\ i \in m + 1 .. k
    BY <1>0, <1>1, <2>1
  <2>3. GoesDown(s, counts, around, down, i, l, in_class, l)
    BY <1>5, <2>2, PlacesAssumption DEF Going, Looked
  <2>4. down[Seek(i, l, in_class)] = down[Seek(n, l, in_class)]
    BY <1>0, <2>1, <2>2, <2>3 DEF GoesDown, Passes
  <2> QED
    BY <1>1, <2>2, <2>4
<1>4. P = Nat
  BY <1>1, <1>2, <1>3, NumbersByInduction
<1> QED
  BY <1>0, <1>1, <1>4 DEF Gets

\* It makes no difference where it does not know yet whose code it looks for.
LooksFor(down, k, l, in_class) == down[Seek(k, None, in_class)] = down[Seek(k, l, in_class)]

LEMMA NoneIsItsOwn ==
  ASSUME NEW s, NEW around, NEW down, NEW k, NEW l, NEW in_class \in BOOLEAN,
         NEW counts \in BOOLEAN,
         GoesDown(s, counts, around, down, k, None, in_class, l),
         GoesDown(s, counts, around, down, k, l, in_class, l)
  PROVE  LooksFor(down, k, l, in_class)
<1>1. CASE ClassAt(s[k], l)
  BY <1>1 DEF GoesDown, LooksFor
<1>2. CASE MethodAt(s[k], l)
  BY <1>2 DEF GoesDown, LooksFor
<1>3. CASE LambdaAt(s[k], l) /\ (in_class \/ s[k].dfp \in around)
  BY <1>3 DEF GoesDown, LooksFor
<1>4. CASE /\ ~ClassAt(s[k], l) /\ ~MethodAt(s[k], l)
           /\ LambdaAt(s[k], l) => ~in_class /\ s[k].dfp \notin around
  BY <1>4 DEF GoesDown, LooksFor
<1> QED
  BY <1>1, <1>2, <1>3, <1>4

\* What a frame hangs below is of one method, and in it.
HomesFit(s) ==
  \A k \in 1 .. Len(s) :
    /\ s[k].lfp \in Chain(s[k].dfp) /\ s[k].dfp \in Chain(s[k].dfp)
    /\ s[k].type \in {"METHOD", "CLASS"} => s[k].dfp = s[k].lfp
    /\ \A j \in 1 .. Len(s) : s[j].dfp \in Chain(s[k].dfp) => s[j].lfp = s[k].lfp

LEMMA HomesAre ==
  ASSUME NEW lev, NEW home, Shaped(frames, procs, vars_at, lev, home),
         NEW code, Coded(frames, procs, vars_at, code), NEW t \in Threads
  PROVE  HomesFit(frames[t])
<1>1. PICK s : s = frames[t]
  OBVIOUS
<1>2. Typed(frames, procs, vars_at) /\ Leveled(vars_at, lev, home, Used(frames, vars_at))
  BY DEF Shaped
<1>3. ASSUME NEW k \in 1 .. Len(s)
      PROVE  /\ s[k].lfp \in Chain(s[k].dfp) /\ s[k].dfp \in Chain(s[k].dfp)
             /\ s[k].type \in {"METHOD", "CLASS"} => s[k].dfp = s[k].lfp
             /\ \A j \in 1 .. Len(s) : s[j].dfp \in Chain(s[k].dfp) => s[j].lfp = s[k].lfp
  <2>1. PICK d : d = s[k].dfp
    OBVIOUS
  <2>2. d \in Used(frames, vars_at)
    BY <1>1, <1>2, <2>1, FramePlaces
  <2>3. HangsBelow(frames, vars_at, lev, home, d)
    BY <2>2, ChainOfBlock
  <2>4. \A j \in 1 .. Len(s) : s[j].lfp = home[s[j].dfp]
    BY <1>1 DEF Shaped, FrameFits
  <2>5. d \in Chain(d) /\ home[d] \in Chain(d)
    BY <2>3, HomeIn DEF HangsBelow, Chain
  <2>6. s[k].type \in {"METHOD", "CLASS"} => home[d] = d
    <3>1. FrameFits(s, k, vars_at, lev, home) /\ FrameCoded(s, k, vars_at, code)
      BY <1>1 DEF Shaped, Coded
    <3> SUFFICES ASSUME s[k].type \in {"METHOD", "CLASS"} PROVE home[d] = d
      OBVIOUS
    <3>2. s[k].iseq \in DOMAIN Iseqs /\ TypeOf(s[k].iseq) \in {"METHOD", "CLASS"}
      BY <3>1 DEF FrameCoded, KindFits
    <3>3. lev[d] = 0
      BY <2>1, <3>1, <3>2, LevelsAre DEF FrameFits
    <3> QED
      BY <1>2, <2>2, <3>3 DEF Leveled
  <2>7. \A e \in Chain(d) : home[e] = home[d]
    BY <2>3 DEF HangsBelow, Chain
  <2> QED
    BY <2>1, <2>4, <2>5, <2>6, <2>7
<1> QED
  BY <1>1, <1>3 DEF HomesFit

\* Both halves of what is needed of the running stack.
LEMMA RunningStack ==
  ASSUME Pointers, Codes, NEW t \in Threads, InCode(t)
  PROVE  /\ \E code : GoodStack(frames[t], code)
         /\ HomesFit(frames[t])
         /\ Len(frames[t]) \in 1 .. Len(frames[t]) /\ Top(t) = frames[t][Len(frames[t])]
         /\ Top(t).iseq \in DOMAIN Iseqs /\ Top(t).type # "CFUNC"
<1>1. PICK lev, home, code :
        Shaped(frames, procs, vars_at, lev, home) /\ Coded(frames, procs, vars_at, code)
  BY DEF Pointers, Codes
<1>2. GoodStack(frames[t], code) /\ HomesFit(frames[t])
  BY <1>1, StackIs, HomesAre
<1> QED
  BY <1>1, <1>2, TopIs DEF InCode, Top

LEMMA LandsIfGood == Pointers /\ Codes => ThrowsLand
<1> SUFFICES ASSUME Pointers, Codes, NEW t \in Threads, InCode(t), NEW s, s = frames[t],
                    NEW thrown \in Throws(s), thrown # Error,
                    NEW k, k = FrameOf(s, Len(s), thrown.pt)
             PROVE  k > 0 /\ s[k].type # "CFUNC"
  BY DEF ThrowsLand
<1>1. PICK code : GoodStack(s, code)
  BY RunningStack
<1>2. /\ HomesFit(s) /\ Len(s) \in 1 .. Len(s) /\ Len(s) \in Nat /\ s \in Seq(Frames)
      /\ s[Len(s)].iseq \in DOMAIN Iseqs
  BY <1>1, RunningStack DEF GoodStack
<1>3. ASSUME NEW j \in 1 .. Len(s), s[j].type # "CFUNC", thrown.pt = s[j].dfp
      PROVE  k > 0 /\ s[k].type # "CFUNC"
  <2>1. Len(s) \in j .. Len(s)
    BY <1>2
  <2>2. k = j
    BY <1>1, <1>3, <2>1, OwnFrame
  <2> QED
    BY <1>3, <2>2
<1>4. \A j \in 1 .. Len(s) : KindFits(s[j])
  BY <1>1 DEF GoodStack, FrameCoded
<1>5. \A pt, state : Goto(pt, state).pt = pt
  BY DEF Goto
<1>6. CASE CanBreak(s[Len(s)].iseq) /\ thrown = throw_break(s)
  <2>1. PICK b : b = BreaksFrom(s)
    OBVIOUS
  <2>2. InBlock(s, b)
    BY <1>1, <1>2, <1>6, <2>1, BreakIsInBlock
  <2>3. PICK creator, j : creator = prev(s[b].dfp) /\ j = FrameOf(s, b, creator)
    OBVIOUS
  <2>4. thrown = IF s[b].type = "LAMBDA" THEN Goto(s[b].dfp, "RETURN")
                 ELSE IF j = 0 \/ s[j].site \in {None, "plain"} THEN Error ELSE Goto(s[j].dfp, "BREAK")
    BY <1>6, <2>1, <2>3 DEF throw_break
  <2>5. CASE s[b].type = "LAMBDA"
    BY <1>3, <1>5, <2>2, <2>4, <2>5 DEF InBlock
  <2>6. CASE s[b].type # "LAMBDA"
    <3>1. j # 0 /\ s[j].site \notin {None, "plain"} /\ thrown = Goto(s[j].dfp, "BREAK")
      BY <2>4, <2>6
    <3>2. b \in Nat /\ \A i \in 1 .. b : i \in 1 .. Len(s)
      BY <1>2, <2>2 DEF InBlock
    <3>3. j \in 1 .. Len(s)
      BY <2>3, <3>1, <3>2, FrameOfIs
    <3>4. s[j].type # "CFUNC"
      BY <1>4, <3>1, <3>3 DEF KindFits
    <3> QED
      BY <1>3, <1>5, <3>1, <3>3, <3>4
  <2> QED
    BY <2>5, <2>6
<1>7. CASE CanRetry(s[Len(s)].iseq) /\ thrown = throw_retry(s)
  <2>1. PICK n : n = Len(s)
    OBVIOUS
  <2>2. FrameCoded(s, n, vars_at, code) /\ TypeOf(s[n].iseq) = "RESCUE" /\ s[n].iseq # None
    BY <1>1, <1>2, <1>7, <2>1, PlacesAssumption DEF GoodStack, CanRetry
  <2>3. n > 1 /\ s[n - 1].iseq = Iseqs[s[n].iseq].parent /\ s[n - 1].dfp = prev(s[n].dfp)
    BY <2>2 DEF FrameCoded, prev
  <2>4. n - 1 \in 1 .. Len(s)
    BY <1>2, <2>1, <2>3
  <2>5. s[n - 1].iseq # None
    BY <1>2, <2>1, <2>2, <2>3, LevelsAre, PlacesAssumption
  <2>6. s[n - 1].type # "CFUNC"
    BY <1>4, <2>4, <2>5 DEF KindFits
  <2>7. thrown.pt = s[n - 1].dfp
    BY <1>5, <1>7, <2>1, <2>3 DEF throw_retry
  <2> QED
    BY <1>3, <2>4, <2>6, <2>7
<1>8. CASE thrown = throw_return(s)
  <2>1. PICK down, around :
          /\ ReturnsTo(s, TRUE) = down[Seek(Len(s), s[Len(s)].lfp, FALSE)]
          /\ Going(s, TRUE, around, down)
    <3>1. PICK around : around = Chain(s[Len(s)].dfp)
      OBVIOUS
    <3> QED
      BY <1>2, <3>1, ReturnEnds
  <2>2. s[Len(s)].lfp \in Places \cup {None} /\ Len(s) \in 0 .. Len(s)
    <3>1. s[Len(s)] \in Frames
      BY <1>2, ElementOfSeq
    <3> QED
      BY <1>2, <3>1 DEF Frames
  <2>3. Leaves(s, Len(s), thrown)
    BY <1>2, <1>8, <2>1, <2>2, DownLeaves DEF throw_return
  <2>4. PICK j \in 1 .. Len(s) :
          thrown = Goto(s[j].dfp, "RETURN") /\ s[j].type \in {"LAMBDA", "METHOD"}
    BY <2>3 DEF Leaves
  <2> QED
    BY <1>3, <1>5, <2>4
<1> QED
  BY <1>6, <1>7, <1>8 DEF Throws

\* The frames that return may leave.
GoalsOf(s, n) ==
  {k \in 1 .. n : /\ s[k].dfp \in Chain(s[n].dfp)
                 /\ s[k].type \in {"LAMBDA", "METHOD"}}

\* Where a frame is passed and where not, looking for what is in the method of frame n.
LEMMA PassesAre ==
  ASSUME NEW s, NEW code, GoodStack(s, code), HomesFit(s),
         NEW n \in 1 .. Len(s), NEW k \in 1 .. n, NEW l, l = s[n].lfp
  PROVE  /\ k \in GoalsOf(s, n) =>
              /\ (LambdaAt(s[k], l) /\ s[k].dfp \in Chain(s[n].dfp)) \/ MethodAt(s[k], l)
              /\ s[k].lfp = l
              /\ \A j \in k .. n : ~ClassAt(s[j], l)
         /\ k \notin GoalsOf(s, n) =>
              ~MethodAt(s[k], l) /\ (LambdaAt(s[k], l) => s[k].dfp \notin Chain(s[n].dfp))
         /\ ClassAt(s[k], l) <=> s[k].type = "CLASS" /\ s[k].dfp \in Chain(s[n].dfp)
         /\ LambdaAt(s[k], l) \/ MethodAt(s[k], l) =>
              s[k].lfp = l /\ \A j \in k .. n : ~ClassAt(s[j], l)
<1>1. Len(s) \in Nat /\ k \in 1 .. Len(s) /\ \A j \in k .. n : j \in 1 .. Len(s)
  BY DEF GoodStack
<1>2. \A j \in 1 .. Len(s) : KindFits(s[j]) /\ HangsBack(s, j, vars_at)
  BY DEF GoodStack, FrameCoded
<1>3. l \in Chain(s[n].dfp)
  BY <1>1 DEF HomesFit
<1>4. \A j \in 1 .. Len(s) : s[j].type \in {"METHOD", "CLASS"} => s[j].dfp = s[j].lfp
  BY DEF HomesFit
<1>5. ASSUME NEW j \in 1 .. Len(s)
      PROVE  /\ ClassAt(s[j], l) <=> s[j].type = "CLASS" /\ s[j].dfp = l
             /\ LambdaAt(s[j], l) <=> s[j].type = "LAMBDA" /\ s[j].lfp = l
             /\ MethodAt(s[j], l) <=> s[j].type = "METHOD" /\ s[j].dfp = l
  BY <1>2, PlacesAssumption DEF KindFits, ClassAt, LambdaAt, MethodAt
<1>6. s[k].dfp \in Chain(s[n].dfp) => s[k].lfp = l
  BY <1>1 DEF HomesFit
<1>7. ASSUME s[k].lfp = l, s[k].type # "CLASS", NEW j \in k .. n, ClassAt(s[j], l) PROVE FALSE
  <2>1. s[j].type = "CLASS" /\ s[j].dfp = l /\ j # k
    BY <1>1, <1>5, <1>7
  <2>2. j \in k + 1 .. Len(s)
    BY <1>1, <2>1
  <2>3. l \in Chain(s[k].dfp)
    BY <1>1, <1>7 DEF HomesFit
  <2> QED
    BY <1>1, <1>2, <2>1, <2>2, <2>3 DEF HangsBack, Chain
<1>8. LambdaAt(s[k], l) \/ MethodAt(s[k], l) => s[k].lfp = l /\ s[k].type # "CLASS"
  BY <1>1, <1>4, <1>5
<1>9. k \in GoalsOf(s, n) <=> s[k].dfp \in Chain(s[n].dfp) /\ s[k].type \in {"LAMBDA", "METHOD"}
  BY DEF GoalsOf
<1>10. k \in GoalsOf(s, n) =>
         /\ (LambdaAt(s[k], l) /\ s[k].dfp \in Chain(s[n].dfp)) \/ MethodAt(s[k], l)
         /\ s[k].lfp = l
  BY <1>1, <1>4, <1>5, <1>6, <1>9
<1>11. k \notin GoalsOf(s, n) =>
         ~MethodAt(s[k], l) /\ (LambdaAt(s[k], l) => s[k].dfp \notin Chain(s[n].dfp))
  BY <1>1, <1>3, <1>5, <1>9
<1>12. ClassAt(s[k], l) <=> s[k].type = "CLASS" /\ s[k].dfp \in Chain(s[n].dfp)
  BY <1>1, <1>3, <1>4, <1>5, <1>6
<1> QED
  BY <1>7, <1>8, <1>10, <1>11, <1>12

LEMMA ReturnIfGood == Pointers /\ Codes => ReturnIsLexical
<1> SUFFICES ASSUME Pointers, Codes, NEW t \in Threads, InCode(t), NEW s, s = frames[t],
                    NEW classes,
                    classes = {k \in 1 .. Len(s) : s[k].dfp \in Chain(Top(t).dfp) /\ s[k].type = "CLASS"}
             PROVE
   /\ \A k \in GoalsOf(s, Len(s)) : (\A j \in GoalsOf(s, Len(s)) : j <= k) =>
        throw_return(s) = Goto(s[k].dfp, "RETURN")
   /\ GoalsOf(s, Len(s)) # {} \/ classes = {} => throw_return_192(s) = throw_return(s)
   /\ GoalsOf(s, Len(s)) = {} /\ classes = {} => throw_return(s) = Error
   /\ GoalsOf(s, Len(s)) = {} => \A c \in classes :
        /\ throw_return(s) # Error =>
             \E k \in 1 .. c - 1 : /\ throw_return(s) = Goto(s[k].dfp, "RETURN")
                                  /\ s[k].type \in {"LAMBDA", "METHOD"}
        /\ \A g \in GoalsOf(s, c - 1) :
             \E k \in g .. c - 1 : throw_return(s) = Goto(s[k].dfp, "RETURN") /\ s[k].lfp = s[c - 1].lfp
  BY ZenonT(60) DEF ReturnIsLexical, GoalsOf
<1>1. PICK code : GoodStack(s, code)
  BY RunningStack
<1>2. /\ HomesFit(s) /\ Len(s) \in 1 .. Len(s) /\ Len(s) \in Nat /\ s \in Seq(Frames)
      /\ s[Len(s)].iseq \in DOMAIN Iseqs /\ Top(t) = s[Len(s)]
  BY <1>1, RunningStack DEF GoodStack
<1>3. PICK N, l, around : N = Len(s) /\ l = s[N].lfp /\ around = Chain(s[N].dfp)
  OBVIOUS
<1>4. \A k \in 1 .. N : s[k].lfp \in Places
  <2>1. \A k \in 1 .. N : s[k] \in Frames
    BY <1>2, <1>3, ElementOfSeq
  <2> QED
    BY <2>1 DEF Frames
<1>5. N \in Nat /\ N \in 1 .. N /\ l \in Places /\ N \in 0 .. Len(s)
  BY <1>2, <1>3, <1>4
<1>6. classes = {k \in 1 .. N : ClassAt(s[k], l)}
  <2>1. \A k \in 1 .. N : ClassAt(s[k], l) <=> s[k].type = "CLASS" /\ s[k].dfp \in Chain(s[N].dfp)
    BY <1>1, <1>2, <1>3, PassesAre
  <2> QED
    BY <1>2, <1>3, <2>1
\* Down to the frame, with the check for classes or without.
<1>7. ASSUME NEW counts \in BOOLEAN,
             NEW m \in 0 .. N, \A j \in m + 1 .. N : j \notin GoalsOf(s, N) /\ ~ClassAt(s[j], l)
      PROVE  \E down : /\ ReturnsTo(s, counts) = down[Seek(m, l, FALSE)]
                       /\ Going(s, counts, around, down)
  <2>1. PICK down : /\ ReturnsTo(s, counts) = down[Seek(N, l, FALSE)]
                    /\ Going(s, counts, around, down)
    BY <1>2, <1>3, ReturnEnds
  <2>2. AllPassed(s, m, N, around, l, FALSE)
    <3>1. \A j \in m + 1 .. N : j \in 1 .. N
      BY <1>5
    <3>2. \A j \in 1 .. N : j \notin GoalsOf(s, N) =>
            ~MethodAt(s[j], l) /\ (LambdaAt(s[j], l) => s[j].dfp \notin around)
      BY <1>1, <1>2, <1>3, PassesAre
    <3> QED
      BY <1>5, <1>7, <3>1, <3>2 DEF Passes, AllPassed
  <2>3. down[Seek(N, l, FALSE)] = down[Seek(m, l, FALSE)]
    <3>1. Moves(s, around, down) /\ FALSE \in BOOLEAN
      BY <1>7, <2>1 DEF Moves
    <3>2. Gets(down, N, m, l, FALSE)
      BY <1>2, <1>5, <2>2, <3>1, DownPasses
    <3> QED
      BY <3>2 DEF Gets
  <2> QED
    BY <2>1, <2>3
<1>8. ASSUME NEW k \in GoalsOf(s, N), \A j \in GoalsOf(s, N) : j <= k, NEW counts \in BOOLEAN
      PROVE  ReturnsTo(s, counts) = Goto(s[k].dfp, "RETURN")
  <2>1. k \in 1 .. N /\ k \in 0 .. N /\ \A j \in k + 1 .. N : j \notin GoalsOf(s, N) /\ j \in k .. N
    <3>1. k \in 1 .. N
      BY DEF GoalsOf
    <3> QED
      BY <1>5, <1>8, <3>1
  <2>2. /\ (LambdaAt(s[k], l) /\ s[k].dfp \in around) \/ MethodAt(s[k], l)
        /\ \A j \in k .. N : ~ClassAt(s[j], l)
    BY <1>1, <1>2, <1>3, <2>1, PassesAre
  <2>3. PICK down : /\ ReturnsTo(s, counts) = down[Seek(k, l, FALSE)]
                    /\ Going(s, counts, around, down)
    BY <1>7, <2>1, <2>2
  <2>4. GoesDown(s, counts, around, down, k, l, FALSE, l)
    BY <1>3, <1>5, <2>1, <2>3, PlacesAssumption DEF Going, Looked
  <2> QED
    BY <2>2, <2>3, <2>4 DEF GoesDown
<1>9. ASSUME GoalsOf(s, N) = {}, classes = {}, NEW counts \in BOOLEAN
      PROVE  ReturnsTo(s, counts) = Error
  <2>1. 0 \in 0 .. N /\ \A j \in 0 + 1 .. N : j \notin GoalsOf(s, N) /\ ~ClassAt(s[j], l)
    BY <1>5, <1>6, <1>9
  <2>2. PICK down : /\ ReturnsTo(s, counts) = down[Seek(0, l, FALSE)]
                    /\ Going(s, counts, around, down)
    BY <1>7, <2>1
  <2> QED
    BY <1>5, <2>2 DEF Going
<1>10. ASSUME GoalsOf(s, N) # {}
       PROVE  \E k \in GoalsOf(s, N) : \A j \in GoalsOf(s, N) : j <= k
  <2>1. GoalsOf(s, N) \in SUBSET (1 .. N)
    BY DEF GoalsOf
  <2> QED
    BY <1>5, <1>10, <2>1, LargestOf
<1>11. ASSUME GoalsOf(s, N) = {}, NEW c \in classes
       PROVE  /\ throw_return(s) # Error =>
                   \E k \in 1 .. c - 1 : /\ throw_return(s) = Goto(s[k].dfp, "RETURN")
                                        /\ s[k].type \in {"LAMBDA", "METHOD"}
              /\ \A g \in GoalsOf(s, c - 1) :
                   \E k \in g .. c - 1 : /\ throw_return(s) = Goto(s[k].dfp, "RETURN")
                                        /\ s[k].lfp = s[c - 1].lfp
  <2>1. c \in 1 .. N /\ c \in 0 .. N /\ ClassAt(s[c], l) /\ s[c].dfp = l
    BY <1>5, <1>6 DEF ClassAt
  <2>2. \A j \in c + 1 .. N : j \notin GoalsOf(s, N) /\ ~ClassAt(s[j], l)
    <3>1. \A j \in c + 1 .. N : j \in 1 .. N /\ j # c
      BY <2>1, <1>5
    <3> QED
      BY <1>1, <1>3, <1>11, <2>1, <3>1 DEF GoodStack, ClassAt
  <2>3. PICK down : /\ throw_return(s) = down[Seek(c, l, FALSE)]
                    /\ Going(s, TRUE, around, down)
    BY <1>7, <2>1, <2>2 DEF throw_return
  <2>4. GoesDown(s, TRUE, around, down, c, l, FALSE, l)
    BY <1>3, <1>5, <2>1, <2>3, PlacesAssumption DEF Going, Looked
  <2>5. PICK n : n = c - 1
    OBVIOUS
  <2>6. throw_return(s) = down[Seek(n, None, TRUE)]
    BY <2>1, <2>3, <2>4, <2>5 DEF GoesDown
  <2>7. n \in 1 .. Len(s) /\ n \in 0 .. Len(s) /\ n \in Nat
    <3>1. FrameCoded(s, c, vars_at, code)
      BY <1>1, <1>3, <2>1 DEF GoodStack
    <3>2. c > 1
      BY <2>1, <3>1 DEF FrameCoded, ClassAt
    <3> QED
      BY <1>3, <1>5, <2>1, <2>5, <3>2
  <2>8. Leaves(s, n, throw_return(s))
    BY <1>2, <2>3, <2>6, <2>7, DownLeaves
  <2>9. ASSUME NEW g \in GoalsOf(s, n)
        PROVE  \E k \in g .. n : throw_return(s) = Goto(s[k].dfp, "RETURN") /\ s[k].lfp = s[n].lfp
    <3>1. PICK l2 : l2 = s[n].lfp
      OBVIOUS
    <3>2. l2 \in Places
      BY <1>3, <1>4, <2>7, <3>1
    <3>3. g \in 1 .. n /\ g \in Nat
      BY <2>7 DEF GoalsOf
    <3>4. PICK T : T = {k \in 1 .. n : LambdaAt(s[k], l2) \/ MethodAt(s[k], l2)}
      OBVIOUS
    <3>5. g \in T
      BY <1>1, <1>2, <2>7, <3>1, <3>3, <3>4, PassesAre
    <3>6. PICK k \in T : \A j \in T : j <= k
      <4>1. T \in SUBSET (1 .. n) /\ T # {}
        BY <3>4, <3>5
      <4> QED
        BY <2>7, <4>1, LargestOf
    <3>7. k \in 1 .. n /\ g <= k /\ k \in g .. n /\ k \in 0 .. n /\ k \in 1 .. Len(s)
      BY <2>7, <3>3, <3>4, <3>5, <3>6
    <3>8. s[k].lfp = l2 /\ \A j \in k .. n : ~ClassAt(s[j], l2)
      BY <1>1, <1>2, <2>7, <3>1, <3>4, <3>6, <3>7, PassesAre
    <3>9. \A j \in k + 1 .. n : j \notin T /\ j \in k .. n /\ j \in 1 .. n
      BY <3>6, <3>7, <2>7
    <3>10. AllPassed(s, k, n, around, l2, TRUE)
      BY <2>7, <3>4, <3>7, <3>8, <3>9 DEF Passes, AllPassed
    <3>11. down[Seek(n, l2, TRUE)] = down[Seek(k, l2, TRUE)]
      <4>1. Moves(s, around, down) /\ TRUE \in BOOLEAN
        BY <2>3 DEF Moves
      <4>2. Gets(down, n, k, l2, TRUE)
        BY <1>2, <3>2, <3>10, <4>1, DownPasses
      <4> QED
        BY <4>2 DEF Gets
    <3>12. down[Seek(n, None, TRUE)] = down[Seek(n, l2, TRUE)]
      <4>1. GoesDown(s, TRUE, around, down, n, None, TRUE, l2)
        BY <2>3, <2>7, <3>1 DEF Going, Looked
      <4>2. GoesDown(s, TRUE, around, down, n, l2, TRUE, l2)
        BY <2>3, <2>7, <3>2, PlacesAssumption DEF Going, Looked
      <4>3. LooksFor(down, n, l2, TRUE)
        BY <4>1, <4>2, TRUE \in BOOLEAN, NoneIsItsOwn
      <4> QED
        BY <4>3 DEF LooksFor
    <3>13. GoesDown(s, TRUE, around, down, k, l2, TRUE, l2)
      BY <2>3, <3>2, <3>7, PlacesAssumption DEF Going, Looked
    <3>14. LambdaAt(s[k], l2) \/ MethodAt(s[k], l2)
      BY <3>4, <3>6
    <3>15. down[Seek(k, l2, TRUE)] = Goto(s[k].dfp, "RETURN")
      BY <3>13, <3>14 DEF GoesDown
    <3> QED
      BY <2>6, <3>1, <3>7, <3>8, <3>11, <3>12, <3>15
  <2> QED
    BY <2>5, <2>8, <2>9 DEF Leaves
<1> QED
  BY <1>3, <1>8, <1>9, <1>10, <1>11 DEF throw_return, throw_return_192

-----------------------------------------------------------------------------
(* super.  The method around the code, and its frame.                      *)

MethodIs(out) ==
  out = [i \in DOMAIN Iseqs |-> IF Iseqs[i].klass \/ Iseqs[i].parent = None THEN i ELSE out[Iseqs[i].parent]]

MethodEnds == {i \in DOMAIN Iseqs : Iseqs[i].klass \/ Iseqs[i].parent = None}

LEMMA MethodCodeIs ==
  ASSUME NEW i \in DOMAIN Iseqs
  PROVE  /\ MethodCode(i) = IF Iseqs[i].klass \/ Iseqs[i].parent = None THEN i
                            ELSE MethodCode(Iseqs[i].parent)
         /\ MethodCode(i) \in MethodEnds
<1>1. PICK N \in Nat : \E left \in [DOMAIN Iseqs -> 0 .. N] :
        \A j \in DOMAIN Iseqs : Iseqs[j].parent \in DOMAIN Iseqs => left[Iseqs[j].parent] < left[j]
  BY CodeEnds
<1>2. PICK left \in [DOMAIN Iseqs -> 0 .. N] :
        \A j \in DOMAIN Iseqs : Iseqs[j].parent \in DOMAIN Iseqs => left[Iseqs[j].parent] < left[j]
  BY <1>1
<1>3. PICK base, next : /\ base = [j \in DOMAIN Iseqs |-> j]
                        /\ next = [j \in DOMAIN Iseqs |-> Iseqs[j].parent]
  OBVIOUS
<1>4. base \in [DOMAIN Iseqs -> DOMAIN Iseqs]
  BY <1>3
<1>5. \A j \in DOMAIN Iseqs : j \notin MethodEnds => next[j] \in DOMAIN Iseqs /\ left[next[j]] < left[j]
  BY <1>2, <1>3, IseqsAssumption DEF MethodEnds
<1>6. \A f : Follows(f, DOMAIN Iseqs, MethodEnds, base, next) <=> MethodIs(f)
  <2>1. ASSUME NEW f, NEW j \in DOMAIN Iseqs
        PROVE  (IF j \in MethodEnds THEN base[j] ELSE f[next[j]]) =
                 IF Iseqs[j].klass \/ Iseqs[j].parent = None THEN j ELSE f[Iseqs[j].parent]
    BY <1>3 DEF MethodEnds
  <2>2. ASSUME NEW f
        PROVE  [j \in DOMAIN Iseqs |-> IF j \in MethodEnds THEN base[j] ELSE f[next[j]]] =
                 [j \in DOMAIN Iseqs |-> IF Iseqs[j].klass \/ Iseqs[j].parent = None THEN j
                                         ELSE f[Iseqs[j].parent]]
    BY <2>1
  <2> QED
    BY <2>2 DEF Follows, MethodIs
<1>7. \E f : MethodIs(f)
  BY <1>4, <1>5, <1>6, PathsEnd
<1>8. PICK out : out = (CHOOSE f : MethodIs(f)) /\ \A j : MethodCode(j) = out[j]
  BY DEF MethodCode, MethodIs
<1>9. MethodIs(out)
  BY <1>7, <1>8
<1>10. \A j \in DOMAIN Iseqs : out[j] \in MethodEnds
  <2>1. \A j \in DOMAIN Iseqs : j \in MethodEnds => base[j] \in MethodEnds
    BY <1>3
  <2>2. Follows(out, DOMAIN Iseqs, MethodEnds, base, next)
    BY <1>6, <1>9
  <2> QED
    BY <1>5, <2>1, <2>2, PathsEndIn
<1>11. out[i] = IF Iseqs[i].klass \/ Iseqs[i].parent = None THEN i ELSE out[Iseqs[i].parent]
  BY <1>9 DEF MethodIs
<1> QED
  BY <1>8, <1>10, <1>11

\* What is its own local_iseq is no block.
LocalIs(out) ==
  out = [i \in DOMAIN Iseqs |-> IF TypeOf(i) \in {"BLOCK", "RESCUE"} THEN out[Iseqs[i].parent] ELSE i]

LocalEnds == {i \in DOMAIN Iseqs : TypeOf(i) \notin {"BLOCK", "RESCUE"}}

LEMMA LocalIseqIs ==
  ASSUME NEW i \in DOMAIN Iseqs
  PROVE  local_iseq[i] = i <=> TypeOf(i) \notin {"BLOCK", "RESCUE"}
<1>1. PICK base, next : /\ base = [j \in DOMAIN Iseqs |-> j]
                        /\ next = [j \in DOMAIN Iseqs |-> Iseqs[j].parent]
  OBVIOUS
<1>2. base \in [DOMAIN Iseqs -> DOMAIN Iseqs]
  BY <1>1
<1>3. Level \in [DOMAIN Iseqs -> 0 .. 3]
  BY LevelIs
<1>4. \A j \in DOMAIN Iseqs : j \notin LocalEnds => next[j] \in DOMAIN Iseqs /\ Level[next[j]] < Level[j]
  BY <1>1, <1>3, LevelsAre DEF LocalEnds
<1>5. \A f : Follows(f, DOMAIN Iseqs, LocalEnds, base, next) <=> LocalIs(f)
  <2>1. ASSUME NEW f, NEW j \in DOMAIN Iseqs
        PROVE  (IF j \in LocalEnds THEN base[j] ELSE f[next[j]]) =
                 IF TypeOf(j) \in {"BLOCK", "RESCUE"} THEN f[Iseqs[j].parent] ELSE j
    BY <1>1 DEF LocalEnds
  <2>2. ASSUME NEW f
        PROVE  [j \in DOMAIN Iseqs |-> IF j \in LocalEnds THEN base[j] ELSE f[next[j]]] =
                 [j \in DOMAIN Iseqs |-> IF TypeOf(j) \in {"BLOCK", "RESCUE"} THEN f[Iseqs[j].parent] ELSE j]
    BY <2>1
  <2> QED
    BY <2>2 DEF Follows, LocalIs
<1>6. \E f : LocalIs(f)
  BY <1>2, <1>3, <1>4, <1>5, 3 \in Nat, PathsEnd
<1>7. local_iseq = CHOOSE f : LocalIs(f)
  BY DEF local_iseq, LocalIs
<1>8. LocalIs(local_iseq)
  BY <1>6, <1>7
<1>9. \A j \in DOMAIN Iseqs : local_iseq[j] \in LocalEnds
  <2>1. \A j \in DOMAIN Iseqs : j \in LocalEnds => base[j] \in LocalEnds
    BY <1>1
  <2>2. Follows(local_iseq, DOMAIN Iseqs, LocalEnds, base, next)
    BY <1>5, <1>8
  <2> QED
    BY <1>3, <1>4, <2>1, <2>2, 3 \in Nat, PathsEndIn
<1>10. TypeOf(i) \notin {"BLOCK", "RESCUE"} => local_iseq[i] = i
  BY <1>8 DEF LocalIs
<1> QED
  BY <1>9, <1>10 DEF LocalEnds

\* Up from a place is the code around, to the outermost one.
Linked(around, code) ==
  \A e \in around :
    /\ e \in Places /\ e \in Chain(e)
    /\ prev(e) = None => /\ Chain(e) \subseteq {e}
    /\ prev(e) # None => /\ prev(e) \in around /\ Chain(e) \subseteq {e} \cup Chain(prev(e))
                         /\ code[e] \in DOMAIN Iseqs /\ code[prev(e)] \in DOMAIN Iseqs
                         /\ Iseqs[code[e]].parent = code[prev(e)]

LEMMA LinksAre ==
  ASSUME NEW lev, NEW home, Shaped(frames, procs, vars_at, lev, home),
         NEW code, Coded(frames, procs, vars_at, code), NEW d \in Used(frames, vars_at)
  PROVE  d \in Chain(d) /\ Linked(Chain(d), code)
<1>1. HangsBelow(frames, vars_at, lev, home, d)
  BY ChainOfBlock
<1>2. d \in Chain(d) /\ Chain(d) \subseteq Used(frames, vars_at) /\ Leveled(vars_at, lev, home, Chain(d))
  BY <1>1 DEF HangsBelow, Chain
<1>3. Used(frames, vars_at) \subseteq Places
  BY UsedPlaces DEF Shaped
<1>4. ASSUME NEW e \in Chain(d)
      PROVE  /\ e \in Places /\ e \in Chain(e)
             /\ prev(e) = None => /\ Chain(e) \subseteq {e}
             /\ prev(e) # None => /\ prev(e) \in Chain(d) /\ Chain(e) \subseteq {e} \cup Chain(prev(e))
                                  /\ code[e] \in DOMAIN Iseqs /\ code[prev(e)] \in DOMAIN Iseqs
                                  /\ Iseqs[code[e]].parent = code[prev(e)]
  <2>1. e \in Used(frames, vars_at) /\ e \in Places
    BY <1>2, <1>3
  <2>2. e \in Chain(e)
    BY DEF Chain, ChainIn, Up
  <2>3. prev(e) = None => Chain(e) \subseteq {e}
    BY DEF Chain, ChainIn, Up, prev
  <2>4. prev(e) # None => Chain(e) \subseteq {e} \cup Chain(prev(e))
    BY DEF Chain, ChainIn, Up, prev
  <2>5. prev(e) # None => prev(e) \in Chain(d)
    BY <1>2 DEF Leveled, prev
  <2>6. prev(e) # None => /\ code[e] # None /\ TypeOf(code[e]) \in {"BLOCK", "RESCUE"}
                          /\ Iseqs[code[e]].parent = code[prev(e)]
    BY <2>1 DEF Coded, PlaceCoded, prev
  <2>7. code[e] \in DOMAIN Iseqs \cup {None}
    BY <2>1 DEF Coded
  <2> QED
    BY <2>1, <2>2, <2>3, <2>4, <2>5, <2>6, <2>7, LevelsAre
<1> QED
  BY <1>2, <1>4 DEF Linked

AroundIs(s, iseq, out) ==
  out = [k \in 0 .. Len(s) |->
    IF k = 0 \/ s[k].iseq = iseq THEN k ELSE out[FrameOf(s, k - 1, prev(s[k].dfp))]]

AroundGoes(s, iseq, out) ==
  \A k \in 1 .. Len(s) :
    out[k] = IF s[k].iseq = iseq THEN k ELSE out[FrameOf(s, k - 1, prev(s[k].dfp))]

LEMMA AroundEnds ==
  ASSUME NEW s, Len(s) \in Nat, NEW iseq
  PROVE  \E out : AroundOf(s, iseq) = out[Len(s)] /\ out[0] = 0 /\ AroundGoes(s, iseq, out)
<1>1. PICK N \in Nat : N = Len(s)
  OBVIOUS
<1>2. PICK ends, base, next :
        /\ ends = {k \in 0 .. N : k = 0 \/ s[k].iseq = iseq} /\ base = [k \in 0 .. N |-> k]
        /\ next = [k \in 0 .. N |-> FrameOf(s, k - 1, prev(s[k].dfp))]
  OBVIOUS
<1>3. base \in [0 .. N -> 0 .. N]
  BY <1>2
<1>4. ASSUME NEW k \in 0 .. N, k \notin ends PROVE next[k] \in 0 .. N /\ base[next[k]] < base[k]
  <2>1. k # 0 /\ k - 1 \in Nat
    BY <1>2, <1>4
  <2>2. next[k] \in 0 .. k - 1
    BY <1>2, <2>1, FrameOfIs
  <2> QED
    BY <1>2, <2>1, <2>2
<1>5. PICK f : Follows(f, 0 .. N, ends, base, next)
  BY <1>3, <1>4, PathsEnd
<1>6. AroundIs(s, iseq, f)
  <2>1. f = [k \in 0 .. N |-> IF k \in ends THEN base[k] ELSE f[next[k]]]
    BY <1>5 DEF Follows
  <2>2. ASSUME NEW k \in 0 .. N
        PROVE  (IF k \in ends THEN base[k] ELSE f[next[k]]) =
                 IF k = 0 \/ s[k].iseq = iseq THEN k ELSE f[FrameOf(s, k - 1, prev(s[k].dfp))]
    BY <1>2
  <2>3. f = [k \in 0 .. N |-> IF k = 0 \/ s[k].iseq = iseq THEN k ELSE f[FrameOf(s, k - 1, prev(s[k].dfp))]]
    BY <2>1, <2>2
  <2> QED
    BY <1>1, <2>3 DEF AroundIs
<1>7. PICK out : out = (CHOOSE g : AroundIs(s, iseq, g)) /\ AroundOf(s, iseq) = out[Len(s)]
  BY DEF AroundOf, AroundIs
<1>8. AroundIs(s, iseq, out)
  BY <1>6, <1>7
<1>9. ASSUME NEW k \in 0 .. Len(s)
      PROVE  out[k] = IF k = 0 \/ s[k].iseq = iseq THEN k ELSE out[FrameOf(s, k - 1, prev(s[k].dfp))]
  BY <1>8 DEF AroundIs
<1>10. \A k \in 1 .. Len(s) : k \in 0 .. Len(s) /\ k # 0
  OBVIOUS
<1>11. out[0] = 0
  BY <1>9
<1>12. AroundGoes(s, iseq, out)
  BY <1>9, <1>10 DEF AroundGoes
<1> QED
  BY <1>7, <1>11, <1>12

\* The methods of define_method and def around the code that run on this stack.
MethodsOf(s, around) == {k \in 1 .. Len(s) : s[k].dfp \in around /\ Iseqs[s[k].iseq].klass}

\* The search has passed no method.
OnWay(s, around, method, k) ==
  /\ k \in 1 .. Len(s) /\ s[k].dfp \in around /\ s[k].iseq \in DOMAIN Iseqs
  /\ MethodCode(s[k].iseq) = method
  /\ \A j \in MethodsOf(s, around) : s[j].dfp \in Chain(s[k].dfp)

\* There may be a method to find, and all that leads there runs.
Findable(s, around) ==
  /\ MethodsOf(s, around) # {}
  /\ \A d \in around : \E j \in 1 .. Len(s) : s[j].dfp = d

Found(s, around, method, k) ==
  \/ k = 0 /\ ~Findable(s, around)
  \/ OnWay(s, around, method, k) /\ s[k].iseq = method

LEMMA WayGoesOn ==
  ASSUME NEW s, NEW code, GoodStack(s, code), NEW around, Linked(around, code), NEW method,
         NEW k, OnWay(s, around, method, k), s[k].iseq # method,
         NEW j, j = FrameOf(s, k - 1, prev(s[k].dfp))
  PROVE  /\ j \in 0 .. k - 1
         /\ IF j = 0 THEN ~Findable(s, around) ELSE OnWay(s, around, method, j)
<1>1. PICK d : d = s[k].dfp
  OBVIOUS
<1>2. /\ k \in 1 .. Len(s) /\ k \in Nat /\ k - 1 \in Nat /\ d \in around /\ s[k].iseq \in DOMAIN Iseqs
      /\ \A i \in 1 .. k - 1 : i \in 1 .. Len(s)
  BY <1>1 DEF OnWay, GoodStack
<1>3. /\ s[k].iseq = code[d]
      /\ \A i \in 1 .. Len(s) : s[i].dfp = d => i = k
      /\ \A i \in 1 .. Len(s) : i \notin 1 .. k - 1 => s[i].dfp # prev(d)
      /\ \A i \in 1 .. Len(s) : s[i].iseq = code[s[i].dfp]
  BY <1>1, <1>2 DEF GoodStack, FrameCoded
<1>4. /\ ~Iseqs[s[k].iseq].klass /\ Iseqs[s[k].iseq].parent # None
      /\ MethodCode(Iseqs[s[k].iseq].parent) = method
  BY <1>2, MethodCodeIs DEF OnWay
<1>5. \A i \in MethodsOf(s, around) : s[i].dfp # d /\ s[i].dfp \in Chain(d)
  BY <1>1, <1>3, <1>4 DEF OnWay, MethodsOf
<1>6. j \in 0 .. k - 1 /\ (j # 0 => j \in 1 .. k - 1 /\ s[j].dfp = prev(d))
      /\ (j = 0 => \A i \in 1 .. k - 1 : s[i].dfp # prev(d))
  BY <1>1, <1>2, FrameOfIs
<1>7. CASE prev(d) = None
  <2>1. Chain(d) \subseteq {d}
    BY <1>2, <1>7 DEF Linked
  <2>2. MethodsOf(s, around) = {}
    BY <1>5, <2>1
  <2>3. j = 0
    <3> SUFFICES ASSUME j # 0 PROVE FALSE
      OBVIOUS
    <3>1. s[j] \in Frames /\ s[j].dfp = None
      BY <1>2, <1>6, <1>7, ElementOfSeq DEF GoodStack
    <3> QED
      BY <3>1, PlacesAssumption DEF Frames
  <2> QED
    BY <1>6, <2>2, <2>3 DEF Findable
<1>8. CASE prev(d) # None
  <2>1. /\ prev(d) \in around /\ Chain(d) \subseteq {d} \cup Chain(prev(d))
        /\ code[prev(d)] \in DOMAIN Iseqs /\ Iseqs[code[d]].parent = code[prev(d)]
    BY <1>2, <1>8 DEF Linked
  <2>2. CASE j = 0
    <3>1. \A i \in 1 .. Len(s) : s[i].dfp # prev(d)
      BY <1>3, <1>6, <2>2
    <3> QED
      BY <1>6, <2>1, <2>2, <3>1 DEF Findable
  <2>3. CASE j # 0
    <3>1. j \in 1 .. Len(s) /\ s[j].dfp = prev(d)
      BY <1>2, <1>6, <2>3
    <3>2. s[j].iseq = Iseqs[s[k].iseq].parent
      BY <1>3, <2>1, <3>1
    <3>3. \A i \in MethodsOf(s, around) : s[i].dfp \in Chain(s[j].dfp)
      BY <1>5, <2>1, <3>1
    <3>4. OnWay(s, around, method, j)
      BY <1>3, <1>4, <2>1, <3>1, <3>2, <3>3 DEF OnWay
    <3> QED
      BY <1>6, <2>3, <3>4
  <2> QED
    BY <2>2, <2>3
<1> QED
  BY <1>7, <1>8

LEMMA AroundFinds ==
  ASSUME NEW s, NEW code, GoodStack(s, code), NEW around, Linked(around, code), NEW method,
         OnWay(s, around, method, Len(s))
  PROVE  Found(s, around, method, AroundOf(s, method))
<1>1. Len(s) \in Nat
  BY DEF GoodStack
<1>2. PICK out : AroundOf(s, method) = out[Len(s)] /\ out[0] = 0 /\ AroundGoes(s, method, out)
  BY <1>1, AroundEnds
<1>3. PICK P : P = {n \in Nat : \A k \in 0 .. n : OnWay(s, around, method, k) => Found(s, around, method, out[k])}
  OBVIOUS
<1>4. ASSUME NEW k \in Nat, OnWay(s, around, method, k),
             \A j \in 0 .. k - 1 : OnWay(s, around, method, j) => Found(s, around, method, out[j])
      PROVE  Found(s, around, method, out[k])
  <2>1. k \in 1 .. Len(s)
    BY <1>4 DEF OnWay
  <2>2. CASE s[k].iseq = method
    BY <1>2, <1>4, <2>1, <2>2 DEF Found, AroundGoes
  <2>3. CASE s[k].iseq # method
    <3>1. PICK j : j = FrameOf(s, k - 1, prev(s[k].dfp))
      OBVIOUS
    <3>2. /\ j \in 0 .. k - 1
          /\ IF j = 0 THEN ~Findable(s, around) ELSE OnWay(s, around, method, j)
      BY <1>4, <2>3, <3>1, WayGoesOn
    <3>3. out[k] = out[j]
      BY <1>2, <2>1, <2>3, <3>1 DEF AroundGoes
    <3> QED
      BY <1>2, <1>4, <3>2, <3>3 DEF Found
  <2> QED
    BY <2>2, <2>3
<1>5. 0 \in P
  BY <1>3, <1>4
<1>6. ASSUME NEW n \in P PROVE n + 1 \in P
  <2>1. \A k \in 0 .. n + 1 : k \in Nat /\ (k \in 0 .. n \/ k = n + 1) /\ \A j \in 0 .. k - 1 : j \in 0 .. n
    BY <1>3
  <2> QED
    BY <1>3, <1>4, <2>1
<1>7. P = Nat
  BY <1>3, <1>5, <1>6, NumbersByInduction
<1> QED
  BY <1>1, <1>2, <1>3, <1>7

\* What is to be shown, of one stack.
SuperGoes(s, around, methods, got) ==
  /\ got \in 1 .. Len(s) => got \in methods /\ s[got].me /\ \A k \in methods : k <= got
  /\ \A k \in methods :
       (\A d \in around : \E j \in 1 .. Len(s) : s[j].dfp = d) /\ (\A j \in methods : j <= k)
         => got = IF s[k].type = "METHOD" THEN 0 ELSE IF s[k].me THEN k ELSE None

LEMMA SuperIfGood == Pointers /\ Codes => SuperIsOfTheMethod
<1>0. ASSUME \A t \in Threads : InCode(t) =>
               SuperGoes(frames[t], Chain(Top(t).dfp), MethodsOf(frames[t], Chain(Top(t).dfp)),
                         vm_search_superclass(frames[t], FALSE))
      PROVE  SuperIsOfTheMethod
  BY <1>0, Zenon DEF SuperIsOfTheMethod, SuperGoes, MethodsOf
<1> SUFFICES ASSUME Pointers, Codes, NEW t \in Threads, InCode(t), NEW s, s = frames[t],
                    NEW around, around = Chain(Top(t).dfp),
                    NEW got, got = vm_search_superclass(s, FALSE)
             PROVE  SuperGoes(s, around, MethodsOf(s, around), got)
  BY <1>0
<1>1. PICK lev, home, code :
        Shaped(frames, procs, vars_at, lev, home) /\ Coded(frames, procs, vars_at, code)
  BY DEF Pointers, Codes
<1>2. GoodStack(s, code)
  BY <1>1, StackIs
<1>3. PICK N, method : N = Len(s) /\ method = MethodCode(s[N].iseq)
  OBVIOUS
<1>4. N \in 1 .. Len(s) /\ N \in Nat /\ Top(t) = s[N] /\ s[N].iseq \in DOMAIN Iseqs
  BY <1>1, <1>3, RunningStack
<1>5. s[N].dfp \in around /\ Linked(around, code)
  <2>1. s[N].dfp \in Used(frames, vars_at)
    BY <1>1, <1>4, FramePlaces DEF Shaped
  <2> QED
    BY <1>1, <1>4, <2>1, LinksAre
<1>6. OnWay(s, around, method, N)
  <2>1. \A j \in MethodsOf(s, around) : s[j].dfp \in Chain(s[N].dfp)
    BY <1>4 DEF MethodsOf
  <2> QED
    BY <1>3, <1>4, <1>5, <2>1 DEF OnWay
<1>7. PICK a : a = AroundOf(s, method)
  OBVIOUS
<1>8. Found(s, around, method, a)
  BY <1>2, <1>3, <1>5, <1>6, <1>7, AroundFinds
<1>9. /\ ~Iseqs[method].klass => got = None
      /\ Iseqs[method].klass /\ method = local_iseq[method] => got = 0
      /\ Iseqs[method].klass /\ method # local_iseq[method] =>
           got = IF a = 0 THEN None ELSE IF s[a].me THEN a ELSE None
  BY <1>3, <1>7 DEF vm_search_superclass
<1>10. method \in DOMAIN Iseqs /\ method \in MethodEnds
  BY <1>3, <1>4, MethodCodeIs DEF MethodEnds
<1>11. None \notin 1 .. Len(s)
  BY <1>2, NumbersAssumption DEF GoodStack
<1>12. ASSUME OnWay(s, around, method, a), s[a].iseq = method, Iseqs[method].klass
       PROVE  a \in MethodsOf(s, around) /\ \A k \in MethodsOf(s, around) : k <= a
  <2>1. a \in 1 .. Len(s) /\ a \in MethodsOf(s, around)
    BY <1>12 DEF OnWay, MethodsOf
  <2>2. HangsBack(s, a, vars_at) /\ Len(s) \in Nat
    BY <1>2, <2>1 DEF GoodStack, FrameCoded
  <2>3. ASSUME NEW k \in MethodsOf(s, around) PROVE k <= a
    <3>1. k \in 1 .. Len(s) /\ s[k].dfp \in Chain(s[a].dfp)
      BY <1>12 DEF OnWay, MethodsOf
    <3> QED
      BY <2>1, <2>2, <3>1 DEF HangsBack, Chain
  <2> QED
    BY <2>1, <2>3
<1>13. ASSUME got \in 1 .. Len(s)
       PROVE  got \in MethodsOf(s, around) /\ s[got].me /\ \A k \in MethodsOf(s, around) : k <= got
  <2>2. Iseqs[method].klass /\ method # local_iseq[method]
    <3>1. got # None /\ got # 0
      <4>1. got # None
        BY <1>11, <1>13
      <4>2. \A i \in 1 .. Len(s) : i # 0
        OBVIOUS
      <4> QED
        BY <1>13, <4>1, <4>2
    <3> QED
      BY <1>9, <3>1
  <2>3. got = IF a = 0 THEN None ELSE IF s[a].me THEN a ELSE None
    BY <1>9, <2>2
  <2>4. a # 0 /\ s[a].me /\ got = a
    BY <1>11, <1>13, <2>3
  <2>1. Iseqs[method].klass /\ a # 0 /\ got = a /\ s[a].me
    BY <2>2, <2>4
  <2> QED
    BY <1>8, <1>12, <2>1 DEF Found
<1>14. ASSUME NEW k \in MethodsOf(s, around), \A d \in around : \E j \in 1 .. Len(s) : s[j].dfp = d,
              \A j \in MethodsOf(s, around) : j <= k
       PROVE  got = IF s[k].type = "METHOD" THEN 0 ELSE IF s[k].me THEN k ELSE None
  <2>1. OnWay(s, around, method, a) /\ s[a].iseq = method
    BY <1>8, <1>14 DEF Found, Findable
  <2>2. a \in 1 .. Len(s) /\ k \in 1 .. Len(s) /\ Len(s) \in Nat /\ s[k].dfp \in Chain(s[a].dfp)
        /\ s[a].dfp \in around /\ Iseqs[s[k].iseq].klass
    BY <1>2, <1>14, <2>1 DEF OnWay, MethodsOf, GoodStack
  <2>3. Iseqs[method].klass
    <3> SUFFICES ASSUME ~Iseqs[method].klass PROVE FALSE
      OBVIOUS
    <3>1. Iseqs[method].parent = None
      BY <1>10 DEF MethodEnds
    <3>2. method = code[s[a].dfp]
      BY <1>2, <2>1, <2>2 DEF GoodStack, FrameCoded
    <3>3. prev(s[a].dfp) = None
      BY <1>5, <2>2, <3>1, <3>2, PlacesAssumption DEF Linked
    <3>4. s[k].dfp = s[a].dfp
      BY <1>5, <2>2, <3>3 DEF Linked
    <3>5. k = a
      BY <1>2, <2>2, <3>4 DEF GoodStack
    <3> QED
      BY <2>1, <2>2, <3>5
  <2>4. a \in MethodsOf(s, around) /\ k <= a
    BY <1>12, <1>14, <2>1, <2>3
  <2>5. a = k
    BY <1>14, <2>2, <2>4
  <2>6. s[a].type = "METHOD" <=> method = local_iseq[method]
    <3>1. KindFits(s[a])
      BY <1>2, <2>2 DEF GoodStack, FrameCoded
    <3>2. s[a].type = "CFUNC" => s[a].iseq = None
      BY <3>1 DEF KindFits
    <3>3. TypeOf(method) \in {"METHOD", "BLOCK"}
      BY <1>10, <2>3, IseqsAssumption
    <3>4. s[a].type = "METHOD" <=> TypeOf(method) = "METHOD"
      BY <1>10, <2>1, <3>1, <3>2, <3>3, PlacesAssumption DEF KindFits
    <3> QED
      BY <1>10, <3>3, <3>4, LocalIseqIs
  <2>7. a # 0
    BY <2>2
  <2> QED
    BY <1>9, <2>3, <2>5, <2>6, <2>7
<1> QED
  BY <1>13, <1>14 DEF SuperGoes

\* A throw lands in a running frame of the program: break, return and retry find the
\* frame they go to, or the exception is raised before (vm_throw of vm_insnhelper.c).
THEOREM ThrowsAllLand == Spec => []ThrowsLand
<1>1. Spec => []IInv
  BY StateIsGood
<1>2. IInv => ThrowsLand
  BY LandsIfGood DEF IInv
<1> QED
  BY <1>1, <1>2, PTL

\* break ends the lambda it is in, or the call that the activation its block was written in
\* is at, if a block is written there; it is an error where there is none, through all
\* rescue clauses and class bodies between (vm_throw, TAG_BREAK).
THEOREM BreaksEndTheirCall == Spec => []BreakEndsItsCall
<1>1. Spec => []IInv
  BY StateIsGood
<1>2. IInv => BreakEndsItsCall
  BY BreakIfGood DEF IInv
<1> QED
  BY <1>1, <1>2, PTL

\* return leaves the innermost lambda or method around it, in 1.9.2 and 1.9.3 alike
\* where there is one; out of a class body it leaves a lambda or method further down,
\* never beyond the innermost one around the class (vm_throw, TAG_RETURN).
THEOREM ReturnsAreLexical == Spec => []ReturnIsLexical
<1>1. Spec => []IInv
  BY StateIsGood
<1>2. IInv => ReturnIsLexical
  BY ReturnIfGood DEF IInv
<1> QED
  BY <1>1, <1>2, PTL

\* super in a method of define_method goes by the activation of that method around it, or
\* finds none, and whenever all that is around the code still runs on this stack it
\* finds it, if it was called as a method (vm_search_superclass of vm_insnhelper.c).
THEOREM SuperIsLexical == Spec => []SuperIsOfTheMethod
<1>1. Spec => []IInv
  BY StateIsGood
<1>2. IInv => SuperIsOfTheMethod
  BY SuperIfGood DEF IInv
<1> QED
  BY <1>1, <1>2, PTL
=============================================================================
