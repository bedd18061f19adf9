----------------------------- MODULE LuaGCProofs -----------------------------
(***************************************************************************)
(* Theorems about the garbage collector, for any heap, any order of        *)
(* marking and sweeping and any program.                                   *)
(*                                                                         *)
(* Finalizers: each userdata with a __gc is finalized once, those found    *)
(* dead together youngest first, and lua_close leaves none out. This needs *)
(* of the colours only that a userdata which is still to be finalized is   *)
(* never condemned (Spared).                                               *)
(*                                                                         *)
(* The heap: what a program can reach is kept until the state is closed,   *)
(* if lua_setupvalue is not called for closures that share their upvalue.  *)
(* The invariant (HeapInv) is that of a collector with three colours, with *)
(* the exceptions of this one: threads, open upvalues and weak tables stay *)
(* gray, userdata that wait for a finalizer are black without having been  *)
(* traced; each has its step in the atomic part that makes up for it.      *)
(***************************************************************************)
EXTENDS LuaGC, TLAPS

Colours == Whites \cup {"gray", "black"}
NoRepeats(list) == \A i, j \in DOMAIN list : list[i] = list[j] => i = j
Waiting == Elems(tmudata) \cup ((HasGC \cap alive) \ finalized)     \* for their finalizers

FinalsTyped ==
    /\ udlist \in Seq(Udata) /\ tmudata \in Seq(Udata) /\ batch \in Seq(Udata)
    /\ finalized \subseteq Udata /\ calls \in [Udata -> Nat]
    /\ color \in [Obj -> Colours] /\ cw \in Whites

\* A userdata that is there is in one of the two lists, once.
Listing ==
    /\ NoRepeats(udlist) /\ NoRepeats(tmudata) /\ Elems(udlist) \cap Elems(tmudata) = {}
    /\ closing # "closed" => Elems(udlist) \cup Elems(tmudata) = Udata \cap alive
    /\ closing = "closed" => gcstate = "pause" /\ full = "no" /\ running = <<>> /\ tmudata = <<>>

\* FINALIZEDBIT and tmudata tell whether the finalizer has been called.
Counted ==
    /\ Elems(tmudata) \subseteq HasGC \cap finalized
    /\ closing # "closed" => finalized \subseteq alive
    /\ \A u \in Udata : calls[u] = IF u \in (HasGC \cap finalized) \ Elems(tmudata) THEN 1 ELSE 0

\* No sweep frees a userdata that waits for its finalizer.
Spared ==
    closing # "closed" =>
        \A u \in Waiting : ~Dead(u) /\ (gcstate = "atomic4" => ~White(u))

\* What is left of the last batch is in its order.
BatchInOrder ==
    \A i, j \in DOMAIN batch, a, b \in DOMAIN tmudata :
        i < j /\ tmudata[a] = batch[i] /\ tmudata[b] = batch[j] => a < b

FinalsInv == FinalsTyped /\ Listing /\ Counted /\ Spared /\ BatchInOrder

------------------------------------------------------------------------------
(* The lists and the colours *)

\* A part of a list is a list of those members, each once if the list has each once.
LEMMA FilteredIsPart ==
    ASSUME NEW S, NEW q \in Seq(S), NEW T, NEW r \in Filtered(q, T), NoRepeats(q)
    PROVE  r \in Seq(S) /\ Elems(r) = Elems(q) \cap T /\ NoRepeats(r)
<1>1. PICK n \in 0..Len(q) : r \in [1..n -> Elems(q) \cap T]
    BY DEF Filtered
<1>2. Elems(q) \subseteq S
    BY DEF Elems
<1>3. r \in [1..n -> S] /\ n \in Nat
    BY <1>1, <1>2
<1>4. r \in Seq(S) /\ DOMAIN r = 1..n
    BY <1>3
<1>5. ASSUME NEW i \in DOMAIN r, NEW j \in DOMAIN r, i < j
      PROVE  r[i] # r[j]
    <2>1. PICK a \in DOMAIN q, b \in DOMAIN q : a < b /\ r[i] = q[a] /\ r[j] = q[b]
        BY <1>5 DEF Filtered
    <2>2. a # b
        BY <2>1
    <2> QED BY <2>1, <2>2 DEF NoRepeats
<1>6. NoRepeats(r)
    <2>1. \A i, j \in DOMAIN r : i < j \/ j < i \/ i = j
        BY <1>4
    <2> QED BY <1>5, <2>1 DEF NoRepeats
<1> QED BY <1>4, <1>6 DEF Filtered

\* The kinds of objects that are not userdata.
LEMMA OtherKinds ==
    /\ Udata \subseteq Obj /\ UpVals \subseteq Obj /\ None \notin Udata /\ Num \notin Udata
    /\ Udata \cap (Tables \cup Strings \cup Closures \cup UpVals \cup Protos \cup Threads) = {}
<1> DEFINE kinds == <<Tables, Strings, Udata, Closures, UpVals, Protos, Threads>>
<1>1. \A i, j \in 1..7 : i # j => kinds[i] \cap kinds[j] = {}
    BY KindsAssumption
<1>2. /\ kinds[1] \cap kinds[3] = {} /\ kinds[2] \cap kinds[3] = {} /\ kinds[4] \cap kinds[3] = {}
      /\ kinds[5] \cap kinds[3] = {} /\ kinds[6] \cap kinds[3] = {} /\ kinds[7] \cap kinds[3] = {}
    BY <1>1
<1>3. /\ Tables \cap Udata = {} /\ Strings \cap Udata = {} /\ Closures \cap Udata = {}
      /\ UpVals \cap Udata = {} /\ Protos \cap Udata = {} /\ Threads \cap Udata = {}
    BY <1>2
<1>4. Udata \subseteq Obj /\ UpVals \subseteq Obj /\ None \notin Udata /\ Num \notin Udata
    BY KindsAssumption DEF Obj
<1> QED BY <1>3, <1>4

\* Marking makes objects gray or black (reallymarkobject).
LEMMA PaintedColours ==
    ASSUME NEW col \in [Obj -> Colours], NEW M
    PROVE  /\ Painted(col, M) \in [Obj -> Colours]
           /\ \A o \in Obj : Painted(col, M)[o] \in {col[o], "gray", "black"}
           /\ \A u \in Udata \cap M : Painted(col, M)[u] = "black"
<1>1. \A o \in Obj : Painted(col, M)[o] \in {col[o], "gray", "black"}
    BY DEF Painted
<1>2. Painted(col, M) \in [Obj -> Colours]
    BY DEF Painted, Colours
<1>3. \A u \in Udata \cap M : Painted(col, M)[u] = "black"
    BY OtherKinds DEF Painted
<1> QED BY <1>1, <1>2, <1>3

\* The colours that a step gives, but for the flip: a mark, or the current white.
Recoloured ==
    /\ color' \in [Obj -> Colours] /\ cw' = cw
    /\ \A o \in Obj : color'[o] \in {color[o], "gray", "black", cw}

LEMMA Recolours ==
    ASSUME FinalsTyped, cw' = cw
    PROVE  /\ UNCHANGED color => Recoloured
           /\ \A o, c : c \in {color[o], "gray", "black", cw} /\ color' = [color EXCEPT ![o] = c] => Recoloured
           /\ \A M : color' = Painted(color, M) => Recoloured
           /\ \A M, o, c : c \in {"gray", "black", cw} /\ color' = [Painted(color, M) EXCEPT ![o] = c] => Recoloured
           /\ \A T : color' = [o \in Obj |-> IF o \in T THEN cw ELSE color[o]] => Recoloured
           /\ \A M, T : color' = [o \in Obj |-> IF o \in T THEN "black" ELSE Painted(color, M)[o]] => Recoloured
<1> USE DEF FinalsTyped, Recoloured
<1>0. cw \in Colours /\ "gray" \in Colours /\ "black" \in Colours
    BY DEF Colours
<1>1. UNCHANGED color => Recoloured
    OBVIOUS
<1>2. ASSUME NEW o, NEW c \in {color[o], "gray", "black", cw}, color' = [color EXCEPT ![o] = c]
      PROVE  Recoloured
    BY <1>0, <1>2
<1>3. ASSUME NEW M, color' = Painted(color, M)
      PROVE  Recoloured
    BY <1>3, PaintedColours
<1>4. ASSUME NEW M, NEW o, NEW c \in {"gray", "black", cw},
             color' = [Painted(color, M) EXCEPT ![o] = c]
      PROVE  Recoloured
    <2> DEFINE P == Painted(color, M)
    <2>1. P \in [Obj -> Colours] /\ \A p \in Obj : P[p] \in {color[p], "gray", "black"}
        BY PaintedColours
    <2>2. color' = [P EXCEPT ![o] = c]
        BY <1>4
    <2> HIDE DEF P
    <2> QED BY <1>0, <2>1, <2>2
<1>5. ASSUME NEW T, color' = [o \in Obj |-> IF o \in T THEN cw ELSE color[o]]
      PROVE  Recoloured
    BY <1>0, <1>5
<1>6. ASSUME NEW M, NEW T, color' = [o \in Obj |-> IF o \in T THEN "black" ELSE Painted(color, M)[o]]
      PROVE  Recoloured
    <2> DEFINE P == Painted(color, M)
    <2>1. P \in [Obj -> Colours] /\ \A p \in Obj : P[p] \in {color[p], "gray", "black"}
        BY PaintedColours
    <2>2. color' = [o \in Obj |-> IF o \in T THEN "black" ELSE P[o]]
        BY <1>6
    <2> HIDE DEF P
    <2> QED BY <1>0, <2>1, <2>2
<1> QED BY <1>1, <1>2, <1>3, <1>4, <1>5, <1>6

------------------------------------------------------------------------------
(* Steps that leave userdata and finalizers alone but for the marks *)

Quiet ==
    /\ UNCHANGED <<udlist, tmudata, finalized, calls, batch, closing>>
    /\ closing # "closed" /\ Udata \cap alive' = Udata \cap alive
    /\ Recoloured
    /\ gcstate' = "atomic4" =>
          gcstate = "atomic4" /\ \A o \in Obj : color'[o] \in {color[o], "gray", "black"}

LEMMA QuietKeeps == ASSUME FinalsInv, Quiet PROVE FinalsInv'
<1> USE DEF FinalsInv, Quiet, Recoloured
<1>1. FinalsTyped'
    BY DEF FinalsTyped
<1>2. Listing' /\ BatchInOrder'
    BY DEF Listing, BatchInOrder
<1>3. Counted'
    BY DEF Counted, FinalsTyped
<1>4. Waiting' = Waiting /\ Waiting \subseteq Obj
    BY OtherKinds, KindsAssumption DEF Waiting, Elems, FinalsTyped
<1>5. OtherWhite' = OtherWhite /\ OtherWhite \notin {cw, "gray", "black"}
    BY DEF OtherWhite, FinalsTyped, Whites
<1>6. ASSUME NEW u \in Waiting
      PROVE  ~Dead(u)' /\ (gcstate' = "atomic4" => ~White(u)')
    <2>1. ~Dead(u) /\ (gcstate = "atomic4" => ~White(u)) /\ color'[u] \in {color[u], "gray", "black", cw}
        BY <1>4, <1>6 DEF Spared
    <2>2. ~Dead(u)'
        BY <1>5, <2>1 DEF Dead
    <2>3. gcstate' = "atomic4" => ~White(u)'
        BY <1>4, <2>1 DEF White, Whites
    <2> QED BY <2>2, <2>3
<1>7. Spared'
    BY <1>4, <1>6 DEF Spared
<1> QED BY <1>1, <1>2, <1>3, <1>7

\* The steps of the collector that mark, or go on (lgc.c, singlestep).
LEMMA MarkingIsQuiet ==
    ASSUME FinalsInv, closing # "closed",
           \/ StartCycle \/ Propagate \/ AtomicStart \/ AtomicWeak \/ AtomicGray
           \/ FinalizerReturns \/ EndCycle \/ FullGC \/ FullMarks \/ FullEnds
    PROVE  Quiet
<1> USE DEF FinalsInv, heap, marks, finals
<1>1. CASE StartCycle \/ FullMarks
    <2>1. color' = Painted(color, Marked(color, {Main})) /\ cw' = cw /\ gcstate' = "propagate"
        BY <1>1 DEF StartCycle, FullMarks, markroot
    <2>2. Recoloured
        BY <2>1, Recolours
    <2> QED BY <1>1, <2>1, <2>2 DEF StartCycle, FullMarks, Quiet
<1>2. CASE Propagate
    <2>1. PICK o \in gray : propagatemark(o)
        BY <1>2 DEF Propagate
    <2> DEFINE M == Marked(color, Strong(o))
               c == IF o \in Threads \/ o \in WeakKeys \cup WeakValues THEN "gray" ELSE "black"
    <2>2. color' = [Painted(color, M) EXCEPT ![o] = c] /\ c \in {"gray", "black"} /\ cw' = cw
        BY <1>2, <2>1 DEF propagatemark, Propagate
    <2> HIDE DEF M, c
    <2>3. Recoloured
        BY <2>2, Recolours
    <2>4. \A p \in Obj : color'[p] \in {color[p], "gray", "black"}
        <3> DEFINE P == Painted(color, M)
        <3>1. P \in [Obj -> Colours] /\ \A p \in Obj : P[p] \in {color[p], "gray", "black"}
            BY PaintedColours DEF FinalsTyped
        <3>2. color' = [P EXCEPT ![o] = c]
            BY <2>2
        <3> HIDE DEF P
        <3> QED BY <2>2, <3>1, <3>2
    <2> QED BY <1>2, <2>3, <2>4 DEF Propagate, Quiet
<1>3. CASE AtomicStart
    <2>1. \E M : color' = Painted(color, M)
        BY <1>3 DEF AtomicStart
    <2>2. Recoloured
        BY <1>3, <2>1, Recolours DEF AtomicStart
    <2> QED BY <1>3, <2>2 DEF AtomicStart, Quiet
<1>4. CASE AtomicWeak \/ AtomicGray \/ FinalizerReturns \/ EndCycle \/ FullGC \/ FullEnds
    <2>1. Recoloured
        BY <1>4, Recolours DEF AtomicWeak, AtomicGray, FinalizerReturns, EndCycle, FullGC, FullEnds
    <2>2. gcstate' # "atomic4"
        BY <1>4 DEF AtomicWeak, AtomicGray, FinalizerReturns, EndCycle, FullGC, FullEnds, InAtomic
    <2> QED BY <1>4, <2>1, <2>2 DEF AtomicWeak, AtomicGray, FinalizerReturns, EndCycle, FullGC, FullEnds, Quiet
<1> QED BY <1>1, <1>2, <1>3, <1>4

\* Closing upvalues frees some of them, and marks (luaF_close).
LEMMA ClosingUpvals ==
    ASSUME FinalsTyped, cw' = cw, NEW V, V \subseteq UpVals, CloseUpvals(V)
    PROVE  Recoloured /\ Udata \cap alive' = Udata \cap alive /\ alive' \subseteq alive
<1> DEFINE greys == {v \in V : color[v] = "gray"}
           M == Marked(color, {Content(v) : v \in greys})
<1>1. \/ color' = [o \in Obj |-> IF o \in greys THEN "black" ELSE Painted(color, M)[o]]
      \/ color' = [o \in Obj |-> IF o \in greys THEN cw ELSE color[o]]
    BY DEF CloseUpvals
<1>2. Recoloured
    <2> HIDE DEF M, greys
    <2> QED BY <1>1, Recolours
<1>3. alive' = alive \ {v \in V : Dead(v)}
    BY DEF CloseUpvals
<1> QED BY <1>2, <1>3, OtherKinds

\* What Lua code does is quiet, but for making userdata (lapi.c, lvm.c, lfunc.c, lstring.c).
LEMMA ProgramIsQuiet ==
    ASSUME FinalsInv, NEW L, Program(L)
    PROVE  Quiet \/ \E i \in 1..Slots, u \in avail : NewUdata(L, i, u)
<1> USE DEF FinalsInv, heap, marks, finals
<1>0. closing # "closed" /\ ~InAtomic
    BY DEF Program
<1>1. ASSUME NEW i \in 1..Slots, NEW o \in avail, NewObject(L, i, o)
      PROVE  Quiet
    <2>1. Recoloured
        BY <1>1, Recolours DEF NewObject
    <2>2. Udata \cap alive' = Udata \cap alive
        BY <1>1, OtherKinds DEF NewObject, Make
    <2> QED BY <1>0, <1>1, <2>1, <2>2 DEF NewObject, Quiet, InAtomic
<1>2. ASSUME NEW i \in 1..Slots, NEW s \in avail, InternString(L, i, s)
      PROVE  Quiet
    <2> DEFINE c == IF s \notin alive \/ Dead(s) THEN cw ELSE color[s]
    <2>1. color' = [color EXCEPT ![s] = c] /\ c \in {color[s], "gray", "black", cw} /\ cw' = cw
        BY <1>2 DEF InternString
    <2> HIDE DEF c
    <2>2. Recoloured
        BY <2>1, Recolours
    <2>3. Udata \cap alive' = Udata \cap alive
        BY <1>2, OtherKinds DEF InternString
    <2> QED BY <1>0, <1>2, <2>2, <2>3 DEF InternString, Quiet, InAtomic
<1>3. ASSUME NEW i \in 1..Slots, NEW c \in Closures, NEW j \in 1..Slots, NEW v \in UpVals, NewClosure(L, i, c, j, v)
      PROVE  Quiet
    <2>1. PICK found : color' = [color EXCEPT ![c] = cw, ![v] = IF found = {} \/ Dead(v) THEN cw ELSE @]
        BY <1>3 DEF NewClosure
    <2>2. color' \in [Obj -> Colours] /\ \A o \in Obj : color'[o] \in {color[o], cw}
        BY <2>1 DEF FinalsTyped, Colours
    <2>3. Recoloured
        BY <1>3, <2>2 DEF NewClosure, Recoloured
    <2>4. Udata \cap alive' = Udata \cap alive
        BY <1>3, OtherKinds DEF NewClosure
    <2> QED BY <1>0, <1>3, <2>3, <2>4 DEF NewClosure, Quiet, InAtomic
<1>4. ASSUME NEW T, NEW i \in 1..Slots, NEW x, Push(L, i, x) \/ Give(L, T, i, x)
      PROVE  Quiet
    <2>1. Recoloured
        BY <1>4, Recolours DEF Push, Give
    <2> QED BY <1>0, <1>4, <2>1 DEF Push, Give, Quiet, InAtomic
<1>5. ASSUME NEW j, luaF_close(L, j)
      PROVE  Quiet
    <2>1. PICK V : V \subseteq UpVals /\ CloseUpvals(V) /\ cw' = cw
        BY <1>5 DEF luaF_close, OpenOf
    <2>2. Recoloured /\ Udata \cap alive' = Udata \cap alive
        BY <2>1, ClosingUpvals
    <2> QED BY <1>0, <1>5, <2>2 DEF luaF_close, Quiet, InAtomic
<1>6. ASSUME NEW o, NEW v, barrierf(o, v), cw' = cw
      PROVE  Recoloured
    <2>1. \/ \E M : color' = Painted(color, M)
          \/ color' = [color EXCEPT ![o] = cw]
          \/ UNCHANGED color
        BY <1>6 DEF barrierf
    <2> QED BY <1>6, <2>1, Recolours
<1>7. ASSUME NEW t, NEW k, NEW x, SetTable(L, t, k, x)
      PROVE  Quiet
    <2>1. color' = [color EXCEPT ![t] = "gray"] \/ UNCHANGED color
        BY <1>7 DEF SetTable, barrierback
    <2>2. Recoloured
        BY <1>7, <2>1, Recolours DEF SetTable
    <2> QED BY <1>0, <1>7, <2>2 DEF SetTable, Quiet, InAtomic
<1>8. ASSUME NEW o, NEW x, SetField(L, o, x)
      PROVE  Quiet
    BY <1>0, <1>6, <1>8 DEF SetField, Quiet, InAtomic
<1>9. ASSUME NEW c, NEW x, SetUpval(L, c, x) \/ lua_setupvalue(L, c, x)
      PROVE  Quiet
    BY <1>0, <1>6, <1>9 DEF SetUpval, lua_setupvalue, StoreUpval, Quiet, InAtomic
<1> QED BY <1>1, <1>2, <1>3, <1>4, <1>5, <1>7, <1>8, <1>9 DEF Program, Load

------------------------------------------------------------------------------
(* Steps that move userdata between the lists *)

LEMMA Joined ==
    ASSUME NEW S, NEW q \in Seq(S), NEW r \in Seq(S)
    PROVE  /\ q \o r \in Seq(S) /\ Len(q) \in Nat /\ Len(r) \in Nat /\ Len(q \o r) = Len(q) + Len(r)
           /\ \A i \in 1..Len(q) : (q \o r)[i] = q[i]
           /\ \A i \in 1..Len(r) : (q \o r)[Len(q) + i] = r[i]
           /\ Elems(q \o r) = Elems(q) \cup Elems(r)
<1>1. /\ q \o r \in Seq(S) /\ Len(q) \in Nat /\ Len(r) \in Nat /\ Len(q \o r) = Len(q) + Len(r)
      /\ DOMAIN q = 1..Len(q) /\ DOMAIN r = 1..Len(r) /\ DOMAIN (q \o r) = 1..(Len(q) + Len(r))
    OBVIOUS
<1>2. \A i \in 1..Len(q) : (q \o r)[i] = q[i]
    OBVIOUS
<1>3. \A i \in 1..Len(r) : (q \o r)[Len(q) + i] = r[i]
    OBVIOUS
<1> DEFINE joined == q \o r
<1>4. \A i \in 1..Len(q) : i \in DOMAIN joined /\ joined[i] = q[i]
    BY <1>1, <1>2
<1>5. \A i \in 1..Len(r) : Len(q) + i \in DOMAIN joined /\ joined[Len(q) + i] = r[i]
    BY <1>1, <1>3
<1>6. \A k \in DOMAIN joined : k \in 1..Len(q) \/ \E i \in 1..Len(r) : k = Len(q) + i
    <2> SUFFICES ASSUME NEW k \in DOMAIN joined, k \notin 1..Len(q)
                 PROVE  k - Len(q) \in 1..Len(r) /\ k = Len(q) + (k - Len(q))
        OBVIOUS
    <2> QED BY <1>1
<1> HIDE DEF joined
<1>7. Elems(joined) = Elems(q) \cup Elems(r)
    <2>1. Elems(q) \cup Elems(r) \subseteq Elems(joined)
        BY <1>1, <1>4, <1>5 DEF Elems
    <2>2. Elems(joined) \subseteq Elems(q) \cup Elems(r)
        BY <1>1, <1>4, <1>5, <1>6 DEF Elems
    <2> QED BY <2>1, <2>2
<1> QED BY <1>1, <1>2, <1>3, <1>7 DEF joined

\* luaC_separateudata moves the userdata that have a finalizer, in the order of the list.
LEMMA SeparateMoves ==
    ASSUME FinalsTyped, Listing, Counted, closing # "closed", closing' # "closed",
           NEW p, p \subseteq Elems(udlist), Separate(p), calls' = calls, Udata \cap alive' = Udata \cap alive
    PROVE  /\ Elems(tmudata') = Elems(tmudata) \cup ((p \ finalized) \cap HasGC)
           /\ finalized' = finalized \cup p
           /\ udlist' \in Seq(Udata) /\ tmudata' \in Seq(Udata) /\ batch' \in Seq(Udata) /\ finalized' \subseteq Udata
           /\ Listing' /\ Counted' /\ BatchInOrder'
<1> USE DEF FinalsTyped, Listing
<1> DEFINE go == (p \ finalized) \cap HasGC
<1>0. Elems(udlist) \subseteq Udata /\ Udata \subseteq Obj
    BY OtherKinds DEF Elems
<1>1. /\ batch' \in Filtered(udlist, go) /\ tmudata' = tmudata \o batch'
      /\ udlist' \in Filtered(udlist, Obj \ go) /\ finalized' = finalized \cup p
    <2>1. {u \in p : u \notin finalized} = p \ finalized /\ finalized \cup (p \ finalized) = finalized \cup p
        OBVIOUS
    <2> QED BY <2>1 DEF Separate
<1>2. batch' \in Seq(Udata) /\ Elems(batch') = go /\ NoRepeats(batch')
    <2>1. Elems(udlist) \cap go = go
        OBVIOUS
    <2> QED BY <1>1, <2>1, FilteredIsPart
<1>3. udlist' \in Seq(Udata) /\ Elems(udlist') = Elems(udlist) \ go /\ NoRepeats(udlist')
    <2>1. Elems(udlist) \cap (Obj \ go) = Elems(udlist) \ go
        BY <1>0
    <2> QED BY <1>1, <2>1, FilteredIsPart
<1>4. go \cap Elems(tmudata) = {} /\ go \subseteq HasGC
    OBVIOUS
<1> HIDE DEF go
<1>5. /\ tmudata' \in Seq(Udata) /\ Elems(tmudata') = Elems(tmudata) \cup go
      /\ Len(tmudata') = Len(tmudata) + Len(batch') /\ Len(tmudata) \in Nat /\ Len(batch') \in Nat
      /\ \A i \in 1..Len(tmudata) : tmudata'[i] = tmudata[i]
      /\ \A i \in 1..Len(batch') : tmudata'[Len(tmudata) + i] = batch'[i]
    BY <1>1, <1>2, Joined
<1>6. ASSUME NEW k \in DOMAIN tmudata', tmudata'[k] \in go
      PROVE  k - Len(tmudata) \in DOMAIN batch' /\ tmudata'[k] = batch'[k - Len(tmudata)]
    <2>1. k \notin 1..Len(tmudata)
        <3>1. DOMAIN tmudata = 1..Len(tmudata)
            OBVIOUS
        <3>2. \A i \in 1..Len(tmudata) : tmudata'[i] \in Elems(tmudata)
            BY <1>5, <3>1 DEF Elems
        <3> QED BY <1>4, <1>6, <3>2
    <2>2. k \in 1..(Len(tmudata) + Len(batch'))
        BY <1>5
    <2>3. k - Len(tmudata) \in 1..Len(batch') /\ k = Len(tmudata) + (k - Len(tmudata))
        BY <1>5, <2>1, <2>2
    <2>4. DOMAIN batch' = 1..Len(batch')
        BY <1>2
    <2> QED BY <1>5, <2>3, <2>4
<1>7. ASSUME NEW k \in DOMAIN tmudata', tmudata'[k] \notin go
      PROVE  k \in DOMAIN tmudata /\ tmudata'[k] = tmudata[k]
    <2>1. k \in 1..(Len(tmudata) + Len(batch')) /\ DOMAIN tmudata = 1..Len(tmudata)
        BY <1>5
    <2>2. CASE k \in 1..Len(tmudata)
        BY <1>5, <2>1, <2>2
    <2>3. CASE k \notin 1..Len(tmudata)
        <3>1. k - Len(tmudata) \in 1..Len(batch') /\ k = Len(tmudata) + (k - Len(tmudata))
            BY <1>5, <2>1, <2>3
        <3>2. DOMAIN batch' = 1..Len(batch')
            BY <1>2
        <3>3. tmudata'[Len(tmudata) + (k - Len(tmudata))] = batch'[k - Len(tmudata)]
            BY <1>5, <3>1
        <3>4. tmudata'[k] = batch'[k - Len(tmudata)]
            BY <3>1, <3>3
        <3>5. tmudata'[k] \in Elems(batch')
            BY <3>1, <3>2, <3>4 DEF Elems
        <3> QED BY <1>2, <1>7, <3>5
    <2> QED BY <2>2, <2>3
<1>8. NoRepeats(tmudata')
    <2> SUFFICES ASSUME NEW i \in DOMAIN tmudata', NEW j \in DOMAIN tmudata', tmudata'[i] = tmudata'[j]
                 PROVE  i = j
        BY DEF NoRepeats
    <2>0. i \in Int /\ j \in Int
        BY <1>5
    <2>1. CASE tmudata'[i] \in go
        <3>1. i - Len(tmudata) = j - Len(tmudata)
            BY <1>2, <1>6, <2>1 DEF NoRepeats
        <3> QED BY <1>5, <2>0, <3>1
    <2>2. CASE tmudata'[i] \notin go
        BY <1>7, <2>2 DEF NoRepeats
    <2> QED BY <2>1, <2>2
<1>9. BatchInOrder'
    <2> SUFFICES ASSUME NEW i \in DOMAIN batch', NEW j \in DOMAIN batch', NEW a \in DOMAIN tmudata', NEW b \in DOMAIN tmudata',
                        i < j, tmudata'[a] = batch'[i], tmudata'[b] = batch'[j]
                 PROVE  a < b
        BY DEF BatchInOrder
    <2>1. tmudata'[a] \in go /\ tmudata'[b] \in go
        BY <1>2 DEF Elems
    <2>2. a - Len(tmudata) = i /\ b - Len(tmudata) = j
        BY <1>2, <1>6, <2>1 DEF NoRepeats
    <2>3. a \in Int /\ b \in Int
        BY <1>5
    <2> QED BY <1>5, <2>2, <2>3
<1>10. Listing'
    <2>1. Elems(udlist') \cap Elems(tmudata') = {}
        BY <1>3, <1>4, <1>5
    <2>2. go \subseteq Elems(udlist)
        BY DEF go
    <2>3. Elems(udlist') \cup Elems(tmudata') = Udata \cap alive'
        BY <1>3, <1>5, <2>2
    <2> QED BY <1>3, <1>8, <2>1, <2>3
<1>11. Counted'
    <2>1. Elems(tmudata') \subseteq HasGC \cap finalized'
        BY <1>1, <1>5 DEF Counted, go
    <2>2. finalized' \subseteq alive'
        BY <1>0, <1>1 DEF Counted
    <2>3. (HasGC \cap finalized') \ Elems(tmudata') = (HasGC \cap finalized) \ Elems(tmudata)
        <3>1. p \cap Elems(tmudata) = {}
            OBVIOUS
        <3> QED BY <1>1, <1>5, <3>1 DEF go
    <2> QED BY <2>1, <2>2, <2>3 DEF Counted
<1> QED BY <1>0, <1>1, <1>2, <1>3, <1>5, <1>9, <1>10, <1>11 DEF go

\* Making a userdata (lua_newuserdata).
LEMMA NewUdataKeeps ==
    ASSUME FinalsInv, NEW L, NEW i, NEW u \in avail, NewUdata(L, i, u), closing # "closed", ~InAtomic
    PROVE  FinalsInv'
<1> USE DEF FinalsInv, FinalsTyped
<1>1. /\ u \in Udata /\ u \notin alive /\ alive' = alive \cup {u} /\ udlist' = <<u>> \o udlist
      /\ color' = [color EXCEPT ![u] = cw]
      /\ UNCHANGED <<tmudata, finalized, calls, batch, closing, cw, gcstate, full, running>>
    BY DEF NewUdata, Make
<1>2. <<u>> \in Seq(Udata) /\ Elems(<<u>>) = {u}
    BY <1>1 DEF Elems
<1>3. udlist' \in Seq(Udata) /\ Elems(udlist') = {u} \cup Elems(udlist)
    <2> DEFINE one == <<u>>
    <2>1. one \in Seq(Udata) /\ udlist \in Seq(Udata)
        BY <1>2
    <2> HIDE DEF one
    <2>2. one \o udlist \in Seq(Udata) /\ Elems(one \o udlist) = Elems(one) \cup Elems(udlist)
        BY <2>1, Joined
    <2>3. udlist' = one \o udlist /\ Elems(one) = {u}
        BY <1>1, <1>2 DEF one
    <2> QED BY <2>2, <2>3
<1>4. u \notin Elems(udlist) \cup Elems(tmudata) /\ u \notin finalized
    BY <1>1 DEF Listing, Counted
<1>5. NoRepeats(udlist')
    <2>1. /\ DOMAIN udlist' = 1..(Len(udlist) + 1) /\ udlist'[1] = u /\ Len(udlist) \in Nat
          /\ \A k \in 2..(Len(udlist) + 1) : udlist'[k] = udlist[k - 1]
        BY <1>1
    <2>2. \A k \in 2..(Len(udlist) + 1) : k - 1 \in DOMAIN udlist /\ udlist'[k] # u
        BY <1>4, <2>1 DEF Elems
    <2> SUFFICES ASSUME NEW j \in DOMAIN udlist', NEW k \in DOMAIN udlist', udlist'[j] = udlist'[k]
                 PROVE  j = k
        BY DEF NoRepeats
    <2>3. CASE j = 1 \/ k = 1
        BY <2>1, <2>2, <2>3
    <2>4. CASE ~(j = 1 \/ k = 1)
        <3>1. j \in 2..(Len(udlist) + 1) /\ k \in 2..(Len(udlist) + 1)
            BY <2>1, <2>4
        <3>2. j - 1 = k - 1
            BY <2>1, <2>2, <3>1 DEF Listing, NoRepeats
        <3> QED BY <3>1, <3>2
    <2> QED BY <2>3, <2>4
<1>6. FinalsTyped'
    <2>1. cw \in Colours /\ color' \in [Obj -> Colours]
        BY <1>1 DEF Colours
    <2>2. /\ tmudata' \in Seq(Udata) /\ batch' \in Seq(Udata) /\ finalized' \subseteq Udata
          /\ calls' \in [Udata -> Nat] /\ cw' \in Whites
        BY <1>1
    <2> QED BY <1>3, <2>1, <2>2
<1>7. Listing'
    <2>1. NoRepeats(udlist) /\ NoRepeats(tmudata) /\ Elems(udlist) \cap Elems(tmudata) = {}
        BY DEF Listing
    <2>2. Elems(udlist) \cup Elems(tmudata) = Udata \cap alive
        BY DEF Listing
    <2>3. tmudata' = tmudata /\ Elems(tmudata') = Elems(tmudata) /\ closing' # "closed"
        BY <1>1
    <2>4. Elems(udlist') \cap Elems(tmudata') = {}
        BY <1>3, <1>4, <2>1, <2>3
    <2>5. Elems(udlist') \cup Elems(tmudata') = Udata \cap alive'
        BY <1>1, <1>3, <2>2, <2>3
    <2> QED BY <1>5, <2>1, <2>3, <2>4, <2>5 DEF Listing
<1>8. Counted'
    BY <1>1 DEF Counted
<1>9. Spared'
    <2>1. Waiting' \subseteq Waiting \cup {u}
        BY <1>1 DEF Waiting
    <2>2. \A w \in Udata : color'[w] = IF w = u THEN cw ELSE color[w]
        BY <1>1, OtherKinds
    <2>3. Waiting \subseteq Udata /\ gcstate # "atomic4"
        BY KindsAssumption DEF Waiting, Elems, InAtomic
    <2>4. OtherWhite' = OtherWhite /\ cw # OtherWhite
        BY <1>1 DEF OtherWhite
    <2>5. \A w \in Waiting' : color'[w] # OtherWhite
        BY <1>1, <2>1, <2>2, <2>3, <2>4 DEF Spared, Dead
    <2> QED BY <1>1, <2>3, <2>4, <2>5 DEF Spared, Dead
<1>10. BatchInOrder'
    BY <1>1 DEF BatchInOrder
<1> QED BY <1>6, <1>7, <1>8, <1>9, <1>10

\* The userdata found dead wait for their finalizers and are marked (luaC_separateudata, marktmu).
LEMMA AtomicSeparateKeeps ==
    ASSUME FinalsInv, AtomicSeparate, closing # "closed"
    PROVE  FinalsInv'
<1> USE DEF FinalsInv, FinalsTyped
<1> DEFINE p == {u \in Elems(udlist) : White(u)}
           whitened == [o \in Obj |-> IF o \in Elems(tmudata') THEN cw ELSE color[o]]
           M == Marked(whitened, Elems(tmudata'))
<1>1. /\ Separate(p) /\ color' = Painted(whitened, M)
      /\ UNCHANGED <<alive, calls, closing, cw, full, running>> /\ gcstate' = "atomic4"
    BY DEF AtomicSeparate, heap
<1>2. /\ Elems(tmudata') = Elems(tmudata) \cup ((p \ finalized) \cap HasGC)
      /\ finalized' = finalized \cup p
      /\ udlist' \in Seq(Udata) /\ tmudata' \in Seq(Udata) /\ batch' \in Seq(Udata) /\ finalized' \subseteq Udata
      /\ Listing' /\ Counted' /\ BatchInOrder'
    <2> HIDE DEF M, whitened
    <2>1. p \subseteq Elems(udlist)
        OBVIOUS
    <2> HIDE DEF p
    <2> QED BY <1>1, <2>1, SeparateMoves
<1>3. whitened \in [Obj -> Colours]
    BY DEF Colours
<1>4. /\ color' \in [Obj -> Colours]
      /\ \A o \in Obj : color'[o] \in {whitened[o], "gray", "black"}
      /\ \A u \in Udata \cap M : color'[u] = "black"
    BY <1>1, <1>3, PaintedColours
<1>5. \A u \in Elems(tmudata') : u \in Udata /\ u \in Obj /\ u \in M
    <2>1. \A u \in Elems(tmudata') : u \in Udata /\ u \in Obj
        BY <1>2, OtherKinds DEF Elems
    <2>2. \A u \in Elems(tmudata') : u \in Collectable(Elems(tmudata')) /\ whitened[u] \in Whites
        BY <2>1, OtherKinds DEF Collectable
    <2> QED BY <2>1, <2>2 DEF Marked
<1>6. ASSUME NEW u \in Waiting'
      PROVE  u \in Obj /\ color'[u] \in {"gray", "black"}
    <2>1. CASE u \in Elems(tmudata')
        BY <1>4, <1>5, <2>1
    <2>2. CASE u \notin Elems(tmudata')
        <3>1. u \in (HasGC \cap alive) \ (finalized \cup p)
            BY <1>1, <1>2, <2>2 DEF Waiting
        <3>2. u \in Udata /\ u \in Elems(udlist)
            BY <3>1, KindsAssumption DEF Listing, Counted
        <3>3. ~White(u) /\ u \in Obj
            BY <3>1, <3>2, OtherKinds
        <3>4. whitened[u] = color[u] /\ color[u] \in {"gray", "black"}
            BY <2>2, <3>3 DEF White, Colours
        <3> HIDE DEF whitened
        <3> QED BY <1>4, <3>3, <3>4
    <2> QED BY <2>1, <2>2
<1>7. Spared'
    BY <1>6 DEF Spared, Dead, White, Whites, OtherWhite
<1>8. FinalsTyped'
    BY <1>1, <1>2, <1>4
<1> QED BY <1>2, <1>7, <1>8

\* The flip of the whites condemns no userdata that waits: it is not white (atomic).
LEMMA AtomicEndKeeps ==
    ASSUME FinalsInv, AtomicEnd, closing # "closed"
    PROVE  FinalsInv'
<1> USE DEF FinalsInv, FinalsTyped
<1>1. PICK kept : color' = [o \in Obj |-> IF o \in kept /\ White(o) THEN "gray" ELSE color[o]]
    BY DEF AtomicEnd
<1>2. /\ UNCHANGED <<udlist, tmudata, finalized, calls, batch, alive, closing, full, running>>
      /\ cw' = OtherWhite /\ gcstate = "atomic4" /\ gcstate' = "sweepstring"
    BY DEF AtomicEnd, finals
<1>3. FinalsTyped'
    BY <1>1, <1>2 DEF Colours, OtherWhite, Whites
<1>4. Listing' /\ Counted' /\ BatchInOrder'
    BY <1>2 DEF Listing, Counted, BatchInOrder
<1>5. ASSUME NEW u \in Waiting'
      PROVE  ~Dead(u)'
    <2>1. u \in Waiting /\ u \in Obj
        BY <1>2, <1>5, OtherKinds, KindsAssumption DEF Waiting, Elems
    <2>2. color[u] \notin Whites /\ color'[u] = color[u]
        BY <1>1, <1>2, <2>1 DEF Spared, White
    <2> QED BY <1>2, <2>2, <1>3 DEF Dead, OtherWhite, Whites
<1>6. Spared'
    BY <1>2, <1>5 DEF Spared
<1> QED BY <1>3, <1>4, <1>6

\* A sweep frees none that waits, and forgets what it frees (sweeplist, freeobj).
LEMMA SweepKeeps ==
    ASSUME FinalsInv, NEW o, Sweep(o), gcstate \in {"sweepstring", "sweep"}, gcstate' = gcstate, closing # "closed"
    PROVE  FinalsInv'
<1> USE DEF FinalsInv, FinalsTyped
<1> DEFINE visited == {o} \cup OpenOf({o})
           F == {x \in visited : Dead(x)}
<1>1. /\ udlist' \in Filtered(udlist, Obj \ F) /\ finalized' = finalized \ F /\ alive' = alive \ F
      /\ calls' = [u \in Udata |-> IF u \in F THEN 0 ELSE calls[u]]
      /\ color' = [x \in Obj |-> IF x \in visited THEN cw ELSE color[x]]
      /\ UNCHANGED <<tmudata, batch, closing, cw, full, running>>
    BY DEF Sweep, Free
<1>2. Waiting \cap F = {} /\ Waiting \subseteq Obj
    BY OtherKinds, KindsAssumption DEF Spared, Waiting, Elems
<1>3. Recoloured
    <2> HIDE DEF visited
    <2> QED BY <1>1, Recolours
<1> HIDE DEF F, visited
<1>4. udlist' \in Seq(Udata) /\ Elems(udlist') = Elems(udlist) \ F /\ NoRepeats(udlist')
    <2>1. Elems(udlist) \cap (Obj \ F) = Elems(udlist) \ F
        BY OtherKinds DEF Elems
    <2> QED BY <1>1, <2>1, FilteredIsPart DEF Listing
<1>5. Elems(tmudata) \cap F = {}
    BY <1>2 DEF Waiting
<1>6. FinalsTyped'
    BY <1>1, <1>3, <1>4 DEF Recoloured
<1>7. Listing'
    BY <1>1, <1>4, <1>5 DEF Listing
<1>8. Counted'
    BY <1>1, <1>5 DEF Counted
<1>9. Spared'
    <2>1. Waiting' \subseteq Waiting
        BY <1>1 DEF Waiting
    <2>2. OtherWhite' = OtherWhite /\ OtherWhite \notin {cw, "gray", "black"}
        BY <1>1 DEF OtherWhite, Whites
    <2>3. \A u \in Waiting' : color'[u] # OtherWhite
        BY <1>2, <1>3, <2>1, <2>2 DEF Spared, Dead, Recoloured
    <2> QED BY <2>2, <2>3 DEF Spared, Dead
<1>10. BatchInOrder'
    BY <1>1 DEF BatchInOrder
<1> QED BY <1>6, <1>7, <1>8, <1>9, <1>10

\* What GCTM takes from tmudata is its first, and goes back to the list.
LEMMA FirstWaiting ==
    ASSUME FinalsTyped, Listing, tmudata # <<>>
    PROVE  /\ Head(tmudata) = tmudata[1] /\ 1 \in DOMAIN tmudata /\ Head(tmudata) \in Udata
           /\ Tail(tmudata) \in Seq(Udata) /\ NoRepeats(Tail(tmudata))
           /\ Elems(Tail(tmudata)) = Elems(tmudata) \ {Head(tmudata)}
           /\ \A k \in DOMAIN Tail(tmudata) : k + 1 \in DOMAIN tmudata /\ Tail(tmudata)[k] = tmudata[k + 1] /\ k \in Nat
<1> USE DEF FinalsTyped
<1> DEFINE rest == Tail(tmudata)
<1>1. /\ Len(tmudata) \in Nat /\ Len(tmudata) >= 1 /\ DOMAIN tmudata = 1..Len(tmudata)
      /\ rest \in Seq(Udata) /\ DOMAIN rest = 1..(Len(tmudata) - 1)
    OBVIOUS
<1>2. \A k \in DOMAIN rest : rest[k] = tmudata[k + 1]
    OBVIOUS
<1>3. Head(tmudata) = tmudata[1] /\ Head(tmudata) \in Udata
    BY <1>1
<1> HIDE DEF rest
<1>4. \A k \in DOMAIN rest : k + 1 \in DOMAIN tmudata /\ k + 1 # 1 /\ k \in Nat
    BY <1>1
<1>5. NoRepeats(rest)
    <2> SUFFICES ASSUME NEW i \in DOMAIN rest, NEW j \in DOMAIN rest, rest[i] = rest[j]
                 PROVE  i = j
        BY DEF NoRepeats
    <2>1. i + 1 = j + 1
        BY <1>2, <1>4 DEF Listing, NoRepeats
    <2> QED BY <1>4, <2>1
<1>6. Elems(rest) = Elems(tmudata) \ {Head(tmudata)}
    <2>1. Elems(rest) \subseteq Elems(tmudata) \ {Head(tmudata)}
        <3>1. ASSUME NEW k \in DOMAIN rest
              PROVE  rest[k] \in Elems(tmudata) /\ rest[k] # Head(tmudata)
            <4>1. rest[k] = tmudata[k + 1] /\ k + 1 \in DOMAIN tmudata /\ k + 1 # 1 /\ 1 \in DOMAIN tmudata
                BY <1>1, <1>2, <1>4
            <4>2. tmudata[k + 1] # tmudata[1]
                BY <4>1 DEF Listing, NoRepeats
            <4> QED BY <1>3, <4>1, <4>2 DEF Elems
        <3> QED BY <3>1 DEF Elems
    <2>2. ASSUME NEW k \in DOMAIN tmudata, tmudata[k] # Head(tmudata)
          PROVE  k - 1 \in DOMAIN rest /\ tmudata[k] = rest[k - 1]
        <3>0. k # 1 /\ k \in 1..Len(tmudata)
            BY <1>1, <1>3, <2>2
        <3>1. k - 1 \in 1..(Len(tmudata) - 1) /\ (k - 1) + 1 = k
            BY <1>1, <3>0
        <3> QED BY <1>1, <1>2, <3>1
    <2>3. Elems(tmudata) \ {Head(tmudata)} \subseteq Elems(rest)
        BY <2>2 DEF Elems
    <2> QED BY <2>1, <2>3
<1> QED BY <1>1, <1>2, <1>3, <1>4, <1>5, <1>6 DEF rest

\* The first of tmudata is called and goes back to the list (GCTM).
LEMMA GCTMKeeps ==
    ASSUME FinalsInv, GCTM, closing # "closed"
    PROVE  FinalsInv'
<1> USE DEF FinalsInv, FinalsTyped
<1>0. PICK u : u = Head(tmudata)
    OBVIOUS
<1>1. /\ tmudata # <<>> /\ tmudata' = Tail(tmudata) /\ udlist' = <<u>> \o udlist
      /\ color' = [color EXCEPT ![u] = cw] /\ calls' = [calls EXCEPT ![u] = @ + 1]
      /\ UNCHANGED <<alive, finalized, batch, closing, cw, gcstate, full>> /\ gcstate # "atomic4"
    BY <1>0 DEF GCTM, InAtomic
<1>2. /\ u = tmudata[1] /\ 1 \in DOMAIN tmudata /\ u \in Udata /\ u \in Elems(tmudata)
      /\ tmudata' \in Seq(Udata) /\ NoRepeats(tmudata') /\ Elems(tmudata') = Elems(tmudata) \ {u}
      /\ \A k \in DOMAIN tmudata' : k + 1 \in DOMAIN tmudata /\ tmudata'[k] = tmudata[k + 1] /\ k \in Nat
    BY <1>0, <1>1, FirstWaiting DEF Elems
<1>3. <<u>> \in Seq(Udata) /\ Elems(<<u>>) = {u}
    BY <1>2 DEF Elems
<1>4. udlist' \in Seq(Udata) /\ Elems(udlist') = {u} \cup Elems(udlist)
    <2>1. <<u>> \in Seq(Udata) /\ udlist \in Seq(Udata)
        BY <1>3
    <2>2. <<u>> \o udlist \in Seq(Udata) /\ Elems(<<u>> \o udlist) = Elems(<<u>>) \cup Elems(udlist)
        BY <2>1, Joined
    <2> QED BY <1>1, <1>3, <2>2
<1>5. u \notin Elems(udlist)
    BY <1>2 DEF Listing
<1>6. NoRepeats(udlist')
    <2>1. /\ DOMAIN udlist' = 1..(Len(udlist) + 1) /\ udlist'[1] = u /\ Len(udlist) \in Nat
          /\ \A k \in 2..(Len(udlist) + 1) : udlist'[k] = udlist[k - 1]
        BY <1>1, <1>2
    <2>2. \A k \in 2..(Len(udlist) + 1) : k - 1 \in DOMAIN udlist /\ udlist'[k] # u
        BY <1>5, <2>1 DEF Elems
    <2> SUFFICES ASSUME NEW j \in DOMAIN udlist', NEW k \in DOMAIN udlist', udlist'[j] = udlist'[k]
                 PROVE  j = k
        BY DEF NoRepeats
    <2>3. CASE j = 1 \/ k = 1
        BY <2>1, <2>2, <2>3
    <2>4. CASE ~(j = 1 \/ k = 1)
        <3>1. j \in 2..(Len(udlist) + 1) /\ k \in 2..(Len(udlist) + 1)
            BY <2>1, <2>4
        <3>2. j - 1 = k - 1
            BY <2>1, <2>2, <3>1 DEF Listing, NoRepeats
        <3> QED BY <3>1, <3>2
    <2> QED BY <2>3, <2>4
<1>7. FinalsTyped'
    <2>1. calls' \in [Udata -> Nat]
        BY <1>1, <1>2
    <2>2. color' \in [Obj -> Colours]
        BY <1>1 DEF Colours
    <2> QED BY <1>1, <1>2, <1>4, <2>1, <2>2
<1>8. Listing'
    BY <1>1, <1>2, <1>4, <1>5, <1>6 DEF Listing
<1>9. Counted'
    <2>1. u \in HasGC \cap finalized /\ calls[u] = 0
        BY <1>2 DEF Counted
    <2> QED BY <1>1, <1>2, <2>1 DEF Counted
<1>10. Spared'
    <2>1. Waiting' \subseteq Waiting \ {u} /\ Waiting \subseteq Obj
        <3>1. u \in finalized
            BY <1>2 DEF Counted
        <3>2. Waiting' = Waiting \ {u}
            BY <1>1, <1>2, <3>1 DEF Waiting
        <3>3. Waiting \subseteq Obj
            BY OtherKinds, KindsAssumption DEF Waiting, Elems
        <3> QED BY <3>2, <3>3
    <2>2. OtherWhite' = OtherWhite
        BY <1>1 DEF OtherWhite
    <2>3. \A w \in Waiting' : color'[w] = color[w]
        BY <1>1, <2>1
    <2> QED BY <1>1, <2>1, <2>2, <2>3 DEF Spared, Dead
<1>11. BatchInOrder'
    <2> SUFFICES ASSUME NEW i \in DOMAIN batch, NEW j \in DOMAIN batch, NEW a \in DOMAIN tmudata', NEW b \in DOMAIN tmudata',
                        i < j, tmudata'[a] = batch[i], tmudata'[b] = batch[j]
                 PROVE  a < b
        BY <1>1 DEF BatchInOrder
    <2>1. a + 1 < b + 1
        BY <1>2 DEF BatchInOrder
    <2> QED BY <1>2, <2>1
<1> QED BY <1>7, <1>8, <1>9, <1>10, <1>11

\* All userdata that are there and have a finalizer wait for it (lua_close).
LEMMA CloseKeeps ==
    ASSUME FinalsInv, lua_close
    PROVE  FinalsInv' /\ \A u \in HasGC \cap alive : calls[u] = 0 => u \in Elems(tmudata')
<1> USE DEF FinalsInv, FinalsTyped
<1>1. /\ closing = "open" /\ closing' = "closing" /\ Separate(Elems(udlist))
      /\ CloseUpvals(OpenOf({Main})) /\ UNCHANGED <<cw, gcstate, calls, full, running>> /\ gcstate # "atomic4"
    BY DEF lua_close, InAtomic
<1>2. Recoloured /\ Udata \cap alive' = Udata \cap alive
    <2>1. OpenOf({Main}) \subseteq UpVals
        BY DEF OpenOf
    <2> QED BY <1>1, <2>1, ClosingUpvals
<1>3. /\ Elems(tmudata') = Elems(tmudata) \cup ((Elems(udlist) \ finalized) \cap HasGC)
      /\ finalized' = finalized \cup Elems(udlist)
      /\ udlist' \in Seq(Udata) /\ tmudata' \in Seq(Udata) /\ batch' \in Seq(Udata) /\ finalized' \subseteq Udata
      /\ Listing' /\ Counted' /\ BatchInOrder'
    BY <1>1, <1>2, SeparateMoves
<1>4. FinalsTyped'
    BY <1>1, <1>2, <1>3 DEF Recoloured
<1>5. Spared'
    <2>1. Waiting' \subseteq Waiting /\ Waiting \subseteq Obj
        <3>1. HasGC \cap alive' = HasGC \cap alive
            BY <1>2, KindsAssumption
        <3>2. Waiting' \subseteq Waiting
            BY <1>1, <1>3, <3>1 DEF Waiting, Listing
        <3>3. Waiting \subseteq Obj
            BY OtherKinds, KindsAssumption DEF Waiting, Elems
        <3> QED BY <3>2, <3>3
    <2>2. OtherWhite' = OtherWhite /\ OtherWhite \notin {cw, "gray", "black"}
        BY <1>1 DEF OtherWhite, Whites
    <2>3. \A u \in Waiting' : color'[u] # OtherWhite
        BY <1>1, <1>2, <2>1, <2>2 DEF Spared, Dead, Recoloured
    <2> QED BY <1>1, <2>2, <2>3 DEF Spared, Dead
<1>6. ASSUME NEW u \in HasGC \cap alive, calls[u] = 0
      PROVE  u \in Elems(tmudata')
    <2>1. u \in Udata /\ u \in Elems(udlist) \cup Elems(tmudata)
        BY <1>1, KindsAssumption DEF Listing
    <2>2. u \in finalized => u \in Elems(tmudata)
        BY <1>6, <2>1 DEF Counted
    <2> QED BY <1>3, <2>1, <2>2
<1> QED BY <1>3, <1>4, <1>5, <1>6

------------------------------------------------------------------------------
(* The theorems *)

LEMMA FinalsBegin == ASSUME Init PROVE FinalsInv
<1> USE DEF Init
<1>1. udlist \in Seq(Udata) /\ tmudata \in Seq(Udata) /\ batch \in Seq(Udata)
    OBVIOUS
<1>2. finalized \subseteq Udata /\ calls \in [Udata -> Nat] /\ color \in [Obj -> Colours] /\ cw \in Whites
    BY DEF Colours, Whites
<1>3. Listing
    <2>1. Udata \cap {Main} = {}
        BY OtherKinds, KindsAssumption
    <2> QED BY <2>1 DEF Listing, NoRepeats, Elems
<1>4. Counted
    BY DEF Counted, Elems
<1>5. Spared
    <2>1. Waiting = {}
        BY OtherKinds, KindsAssumption DEF Waiting, Elems
    <2> QED BY <2>1 DEF Spared
<1>6. BatchInOrder
    BY DEF BatchInOrder
<1>7. FinalsTyped
    BY <1>1, <1>2 DEF FinalsTyped
<1> QED BY <1>3, <1>4, <1>5, <1>6, <1>7 DEF FinalsInv

\* After luaC_freeall nothing happens any more.
LEMMA ClosedIsLast == ASSUME FinalsInv, closing = "closed" PROVE ~Next
<1>1. gcstate = "pause" /\ full = "no" /\ running = <<>> /\ tmudata = <<>>
    BY DEF FinalsInv, Listing
<1>2. ~Collector
    BY <1>1 DEF Collector, StartCycle, Propagate, AtomicStart, AtomicWeak, AtomicGray, AtomicSeparate, AtomicEnd,
                SweepString, SweepObject, GCTM, EndCycle, FullMarks, FullEnds
<1>3. ~FullGC /\ ~FinalizerReturns /\ ~lua_close /\ ~luaC_freeall /\ \A L : ~Program(L)
    BY <1>1 DEF FullGC, FinalizerReturns, lua_close, luaC_freeall, Program
<1> QED BY <1>2, <1>3 DEF Next

LEMMA FreeallKeeps == ASSUME FinalsInv, luaC_freeall PROVE FinalsInv'
<1> USE DEF FinalsInv
<1>1. /\ closing' = "closed" /\ gcstate' = "pause" /\ tmudata = <<>> /\ running = <<>> /\ full = "no"
      /\ UNCHANGED <<udlist, tmudata, finalized, calls, batch, cw, running, full>>
      /\ color' = [o \in Obj |-> cw]
    BY DEF luaC_freeall, finals
<1>2. FinalsTyped'
    BY <1>1 DEF FinalsTyped, Colours
<1>3. Listing' /\ Counted' /\ Spared' /\ BatchInOrder'
    BY <1>1 DEF Listing, Counted, Spared, BatchInOrder, FinalsTyped
<1> QED BY <1>2, <1>3

\* What each step is, as far as userdata and finalizers are concerned.
LEMMA StepsOfFinals ==
    ASSUME FinalsInv, Next
    PROVE  /\ closing # "closed"
           /\ \/ Quiet
              \/ ~InAtomic /\ \E L, i : \E u \in avail : NewUdata(L, i, u)
              \/ gcstate \in {"sweepstring", "sweep"} /\ gcstate' = gcstate /\ \E o : Sweep(o)
              \/ AtomicSeparate \/ AtomicEnd \/ GCTM \/ lua_close \/ luaC_freeall
<1>0. closing # "closed"
    BY ClosedIsLast
<1>1. CASE \/ StartCycle \/ Propagate \/ AtomicStart \/ AtomicWeak \/ AtomicGray
           \/ FinalizerReturns \/ EndCycle \/ FullGC \/ FullMarks \/ FullEnds
    BY <1>0, <1>1, MarkingIsQuiet
<1>2. CASE SweepString \/ SweepObject
    <2>1. CASE \E o : Sweep(o) /\ UNCHANGED gcstate
        BY <1>0, <1>2, <2>1 DEF SweepString, SweepObject
    <2>2. CASE ~\E o : Sweep(o) /\ UNCHANGED gcstate
        <3>1. /\ UNCHANGED <<alive, cw, marks, finals, closing>> /\ gcstate' \in {"sweep", "finalize"}
            BY <1>2, <2>2 DEF SweepString, SweepObject
        <3>2. Recoloured
            BY <3>1, Recolours DEF marks, FinalsInv
        <3> QED BY <1>0, <3>1, <3>2 DEF Quiet, marks, finals
    <2> QED BY <2>1, <2>2
<1>3. ASSUME NEW L \in Threads \cap alive, Program(L)
      PROVE  Quiet \/ (~InAtomic /\ \E K, i : \E u \in avail : NewUdata(K, i, u))
    BY <1>3, ProgramIsQuiet DEF Program
<1> QED BY <1>0, <1>1, <1>2, <1>3 DEF Next, Collector

LEMMA FinalsGoOn == ASSUME FinalsInv, [Next]_vars PROVE FinalsInv'
<1>1. CASE Next
    BY <1>1, StepsOfFinals, QuietKeeps, NewUdataKeeps, SweepKeeps, AtomicSeparateKeeps, AtomicEndKeeps, GCTMKeeps,
       CloseKeeps, FreeallKeeps
<1>2. CASE UNCHANGED vars
    <2> USE <1>2 DEF vars, heap, marks, finals
    <2>1. FinalsTyped' /\ Listing' /\ Counted'
        BY DEF FinalsInv, FinalsTyped, Listing, Counted
    <2>2. Spared' /\ BatchInOrder'
        BY DEF FinalsInv, Spared, BatchInOrder, Waiting, Dead, White, OtherWhite
    <2> QED BY <2>1, <2>2 DEF FinalsInv
<1> QED BY <1>1, <1>2

LEMMA FinalsInductive == Spec => []FinalsInv
<1>1. Init => FinalsInv
    BY FinalsBegin
<1>2. FinalsInv /\ [Next]_vars => FinalsInv'
    BY FinalsGoOn
<1> QED BY <1>1, <1>2, PTL DEF Spec

\* The finalizer of a userdata is called once at most, however often it is resurrected, in whatever
\* collections it is found, interrupted or full, and when the state is closed (GCTM, FINALIZEDBIT).
THEOREM FinalizersRunOnce == Spec => []FinalizedOnce
<1>1. FinalsInv => FinalizedOnce
    BY DEF FinalsInv, Counted, FinalizedOnce
<1> QED BY <1>1, FinalsInductive, PTL

\* Only GCTM calls a finalizer, that of the first in tmudata.
LEMMA OnlyGCTMCalls ==
    ASSUME FinalsInv, Next, NEW u \in Udata, calls'[u] > calls[u]
    PROVE  GCTM /\ u = Head(tmudata)
<1>1. calls[u] \in Nat /\ calls \in [Udata -> Nat]
    BY DEF FinalsInv, FinalsTyped
<1>2. ~UNCHANGED calls
    BY <1>1
<1>3. ~Quiet /\ ~AtomicSeparate /\ ~AtomicEnd /\ ~lua_close /\ ~luaC_freeall /\ ~\E L, i, v : NewUdata(L, i, v)
    BY <1>2 DEF Quiet, AtomicSeparate, AtomicEnd, lua_close, luaC_freeall, NewUdata, finals
<1>4. ASSUME NEW o, Sweep(o)
      PROVE  FALSE
    <2>1. PICK F : calls' = [v \in Udata |-> IF v \in F THEN 0 ELSE calls[v]]
        BY <1>4 DEF Sweep, Free
    <2>2. calls'[u] = 0 \/ calls'[u] = calls[u]
        BY <2>1
    <2> QED BY <1>1, <2>2
<1>5. GCTM
    BY <1>3, <1>4, StepsOfFinals
<1>6. calls' = [calls EXCEPT ![Head(tmudata)] = @ + 1]
    BY <1>5 DEF GCTM
<1> QED BY <1>1, <1>5, <1>6

\* Of the userdata found dead together the youngest is finalized first, and lua_close finalizes all
\* that are there, whatever the finalizers do meanwhile: in any heap, however the program stores and
\* drops objects between the steps (luaC_separateudata, GCTM, lua_close).
THEOREM FinalizersRunAsPromised == Spec => FinalizersRun
<1>1. ASSUME FinalsInv, Next, NEW i \in DOMAIN batch, NEW j \in DOMAIN batch, i < j, calls'[batch[j]] > calls[batch[j]]
      PROVE  batch[i] \notin Elems(tmudata')
    <2>1. batch[j] \in Udata /\ FinalsTyped /\ Listing /\ BatchInOrder
        BY <1>1 DEF FinalsInv, FinalsTyped
    <2>2. GCTM /\ batch[j] = Head(tmudata)
        BY <1>1, <2>1, OnlyGCTMCalls
    <2>3. /\ tmudata[1] = batch[j] /\ 1 \in DOMAIN tmudata /\ tmudata' = Tail(tmudata)
          /\ \A k \in DOMAIN Tail(tmudata) : k + 1 \in DOMAIN tmudata /\ Tail(tmudata)[k] = tmudata[k + 1] /\ k \in Nat
        BY <2>1, <2>2, FirstWaiting DEF GCTM
    <2>4. ASSUME NEW k \in DOMAIN tmudata', tmudata'[k] = batch[i]
          PROVE  FALSE
        <3>1. k + 1 \in DOMAIN tmudata /\ tmudata[k + 1] = batch[i] /\ ~(k + 1 < 1)
            BY <2>3, <2>4
        <3> QED BY <1>1, <2>1, <2>3, <3>1 DEF BatchInOrder
    <2> QED BY <2>4 DEF Elems
<1>2. ASSUME FinalsInv, Next, closing # closing', closing' = "closing", NEW u \in HasGC \cap alive, calls[u] = 0
      PROVE  u \in Elems(tmudata')
    <2>1. lua_close
        BY <1>2, StepsOfFinals DEF Quiet, NewUdata, Sweep, AtomicSeparate, AtomicEnd, GCTM, luaC_freeall
    <2> QED BY <1>2, <2>1, CloseKeeps
<1>3. ASSUME FinalsInv, Next, closing # closing', closing' = "closed", NEW u \in HasGC \cap alive, u \in finalized
      PROVE  calls[u] = 1
    <2>1. luaC_freeall
        BY <1>3, StepsOfFinals DEF Quiet, NewUdata, Sweep, AtomicSeparate, AtomicEnd, GCTM, lua_close
    <2>2. u \in Udata /\ u \notin Elems(tmudata)
        BY <2>1, KindsAssumption DEF luaC_freeall, Elems
    <2> QED BY <1>3, <2>2 DEF FinalsInv, Counted
<1> DEFINE Youngest == \A i, j \in DOMAIN batch :
                           i < j /\ calls'[batch[j]] > calls[batch[j]] => batch[i] \notin Elems(tmudata')
           Closes == /\ closing # closing' /\ closing' = "closing" =>
                           \A u \in HasGC \cap alive : calls[u] = 0 => u \in Elems(tmudata')
                     /\ closing # closing' /\ closing' = "closed" =>
                           \A u \in HasGC \cap alive : u \in finalized => calls[u] = 1
<1>4. FinalsInv /\ [Next]_vars => [Youngest]_vars /\ [Closes]_vars
    <2>1. FinalsInv /\ Next => Youngest
        BY <1>1
    <2>2. FinalsInv /\ Next => Closes
        BY <1>2, <1>3
    <2> QED BY <2>1, <2>2
<1> HIDE DEF Youngest, Closes
<1>5. Spec => [][Youngest]_vars /\ [][Closes]_vars
    BY <1>4, FinalsInductive, PTL DEF Spec
<1> QED BY <1>5 DEF FinalizersRun, YoungestFirst, CloseFinalizes, Youngest, Closes

------------------------------------------------------------------------------
(* The heap: the invariant *)

Marking == gcstate = "propagate" \/ InAtomic
Sweeping == gcstate \in {"sweepstring", "sweep"}
WeakTables == WeakKeys \cup WeakValues
Listable == Tables \cup Closures \cup Protos \cup Threads    \* the objects with a gclist
Storable == (Obj \ UpVals) \cup {None}                       \* the values of Lua code
Shaded == {o \in alive : ~White(o)}
Opened(v) == at[v] # <<>>

\* What lives as far as the collector knows: neither condemned by the sweep in progress nor found
\* out of reach when the collection began.
Fit == {o \in alive : ~Dead(o) /\ o \notin doomed}

HeapTyped ==
    /\ avail \in Heaps /\ alive \subseteq Obj /\ unswept \subseteq alive /\ doomed \subseteq alive
    /\ gcstate \in {"pause", "propagate", "atomic1", "atomic2", "atomic3", "atomic4",
                    "sweepstring", "sweep", "finalize"}
    /\ key \in [Obj -> Storable \cup {Num}] /\ val \in [Obj -> Value]
    /\ stk \in [Threads -> [1..Slots -> Storable]]
    /\ at \in [UpVals -> {<<>>} \cup (Threads \X (1..Slots))]
    /\ running \in Seq(Udata) /\ full \in {"no", "finish", "collect"} /\ depth \in Nat

\* What the fields of each kind of object refer to; an object that is free refers to nothing.
Entries ==
    /\ \A t \in Tables : val[t] \in Storable /\ (val[t] = None => key[t] = None)
    /\ \A c \in Closures : IF c \in alive THEN val[c] \in UpVals ELSE val[c] = None
    /\ \A u \in Udata : val[u] \in Tables \cup {None}
    /\ \A p \in Protos : val[p] \in Strings \cup Protos \cup {None}
    /\ \A v \in UpVals : val[v] \in Storable
    /\ \A o \in Strings \cup Threads : val[o] = None
    /\ \A o \in Obj \ alive : val[o] = None
    /\ \A T \in Threads \ alive, i \in 1..Slots : stk[T][i] = None

\* An open upvalue is there, with its thread, and the sweep visits it with that.
Places ==
    \A v \in UpVals : Opened(v) => v \in alive \ unswept /\ at[v][1] \in alive

\* What a program can get hold of lives.
Kept ==
    /\ Roots \cup Elems(tmudata) \subseteq Fit
    /\ \A o \in Fit : AnyRefs(o) \subseteq Fit
    /\ ~Sweeping => \A o \in alive : AnyRefs(o) \subseteq alive

Tints ==
    /\ ~Sweeping => \A o \in alive : ~Dead(o)
    /\ \A o \in alive \cap Udata : color[o] # "gray"
    /\ \A o \in alive \cap (Threads \cup WeakTables) : color[o] # "black"
    /\ \A v \in alive \cap UpVals : IF Opened(v) THEN color[v] # "black" ELSE Marking => color[v] # "gray"

\* Between the flip of the whites and the next collection: what has not the current white is still
\* to be visited by the sweep, or waits for its finalizer.
SweepGoesOn ==
    /\ ~Marking => \A o \in alive : \/ color[o] = cw
                                    \/ o \in unswept \cup Elems(tmudata)
                                    \/ o \in UpVals /\ Opened(o) /\ at[o][1] \in unswept
    /\ ~Sweeping /\ ~Marking => unswept = {}
    /\ gcstate = "sweep" => unswept \cap Strings = {}

\* While marking, the lists hold the gray objects, but for upvalues and strings.
Lists ==
    /\ ListsDisjoint
    /\ weak \subseteq WeakTables /\ grayagain \cap WeakTables = {} /\ gray \cup grayagain \cup weak \subseteq Listable
    /\ Marking => /\ \A o \in gray \cup grayagain \cup weak : o \in alive /\ color[o] = "gray"
                  /\ \A o \in Listable \cap alive : color[o] = "gray" => o \in gray \cup grayagain \cup weak
    /\ ~Marking => gray = {}

\* The objects whose references have been followed for good: the black ones, and, from the part of
\* the atomic step on that goes over them again, open upvalues, weak tables and threads.
Done(o) ==
    /\ o \in Shaded \ gray
    /\ \/ color[o] = "black" /\ (o \in Elems(tmudata) => gcstate = "atomic4")
       \/ o \in UpVals /\ InAtomic
       \/ o \in weak /\ gcstate \in {"atomic2", "atomic3", "atomic4"}
       \/ o \in grayagain /\ gcstate \in {"atomic3", "atomic4"}

\* The main thread is marked, and no object that is done refers to a white one.
Traced == Marking => Main \in Shaded /\ \A o \in Obj : Done(o) => Strong(o) \subseteq Shaded

\* An upvalue is marked through a closure, which is black then.
Owned ==
    gcstate = "propagate" =>
        \A v \in UpVals \cap Shaded : \E c \in Closures \cap alive : val[c] = v /\ color[c] = "black"

\* What was out of reach when the collection began stays so, is not marked and is swept.
Doomed ==
    /\ doomed \cap (Strings \cup (HasGC \ finalized)) = {}
    /\ \A v \in UpVals \cap doomed : Opened(v) => at[v][1] \in doomed
    /\ Marking => doomed \cap Shaded = {}
    /\ Sweeping => \A o \in doomed : Dead(o)
    /\ ~Marking /\ ~Sweeping => doomed = {}

HeapInv ==
    /\ HeapTyped /\ Entries /\ Places /\ Kept /\ Tints /\ SweepGoesOn /\ Lists
    /\ Traced /\ Owned /\ Doomed

------------------------------------------------------------------------------
(* The operators *)

\* The kinds of objects are disjoint.
LEMMA Kinds ==
    /\ Tables \cup Strings \cup Udata \cup Closures \cup UpVals \cup Protos \cup Threads = Obj
    /\ None \notin Obj /\ Num \notin Obj /\ Main \in Threads
    /\ WeakTables \subseteq Tables /\ HasGC \subseteq Udata
    /\ \A o \in Tables : o \notin Strings \cup Udata \cup Closures \cup UpVals \cup Protos \cup Threads
    /\ \A o \in Strings : o \notin Udata \cup Closures \cup UpVals \cup Protos \cup Threads
    /\ \A o \in Udata : o \notin Closures \cup UpVals \cup Protos \cup Threads
    /\ \A o \in Closures : o \notin UpVals \cup Protos \cup Threads
    /\ \A o \in UpVals : o \notin Protos \cup Threads
    /\ \A o \in Protos : o \notin Threads
<1> DEFINE kinds == <<Tables, Strings, Udata, Closures, UpVals, Protos, Threads>>
<1>1. \A i, j \in 1..7 : i # j => kinds[i] \cap kinds[j] = {}
    BY KindsAssumption
<1>2. \A i, j \in 1..7 : i # j => \A o \in kinds[i] : o \notin kinds[j]
    BY <1>1
<1>3. /\ kinds[1] = Tables /\ kinds[2] = Strings /\ kinds[3] = Udata /\ kinds[4] = Closures
      /\ kinds[5] = UpVals /\ kinds[6] = Protos /\ kinds[7] = Threads
    OBVIOUS
<1> HIDE DEF kinds
<1>4. \A o \in Tables : o \notin Strings \cup Udata \cup Closures \cup UpVals \cup Protos \cup Threads
    BY <1>2, <1>3
<1>5. \A o \in Strings : o \notin Udata \cup Closures \cup UpVals \cup Protos \cup Threads
    BY <1>2, <1>3
<1>6. \A o \in Udata : o \notin Closures \cup UpVals \cup Protos \cup Threads
    BY <1>2, <1>3
<1>7. \A o \in Closures : o \notin UpVals \cup Protos \cup Threads
    BY <1>2, <1>3
<1>8. \A o \in UpVals : o \notin Protos \cup Threads
    BY <1>2, <1>3
<1>9. \A o \in Protos : o \notin Threads
    BY <1>2, <1>3
<1>10. /\ None \notin Obj /\ Num \notin Obj /\ Main \in Threads
       /\ WeakTables \subseteq Tables /\ HasGC \subseteq Udata
    BY KindsAssumption DEF WeakTables
<1>11. Tables \cup Strings \cup Udata \cup Closures \cup UpVals \cup Protos \cup Threads = Obj
    BY DEF Obj
<1> QED BY <1>4, <1>5, <1>6, <1>7, <1>8, <1>9, <1>10, <1>11

\* What an object of each kind refers to.
RefsAre ==
    /\ \A t \in Tables : AnyRefs(t) = IF val[t] = None THEN {} ELSE {key[t], val[t]} \ {None, Num}
    /\ \A v \in UpVals : AnyRefs(v) = {Content(v)} \ {None, Num}
    /\ \A L \in Threads \ {Main} : AnyRefs(L) = Stack(L) \ {None, Num}
    /\ AnyRefs(Main) = (Stack(Main) \cup Elems(running)) \ {None, Num}
    /\ \A o \in Strings \cup Udata \cup Closures \cup Protos : AnyRefs(o) = {val[o]} \ {None, Num}
    /\ \A o \in Obj \ WeakTables : Strong(o) = AnyRefs(o)
    /\ \A o \in Obj : Strong(o) \subseteq AnyRefs(o)

LEMMA Refs == RefsAre /\ RefsAre'
<1> USE Kinds DEF RefsAre, AnyRefs, Strong, Collectable
<1>1. /\ \A t \in Tables : AnyRefs(t) = IF val[t] = None THEN {} ELSE {key[t], val[t]} \ {None, Num}
      /\ \A t \in Tables : AnyRefs(t)' = IF val'[t] = None THEN {} ELSE {key'[t], val'[t]} \ {None, Num}
    OBVIOUS
<1>2. /\ \A v \in UpVals : Strong(v) = {Content(v)} \ {None, Num} /\ AnyRefs(v) = Strong(v)
      /\ \A v \in UpVals : Strong(v)' = {Content(v)'} \ {None, Num} /\ AnyRefs(v)' = Strong(v)'
    OBVIOUS
<1>3. /\ \A L \in Threads : Strong(L) = (Stack(L) \cup IF L = Main THEN Elems(running) ELSE {}) \ {None, Num} /\ AnyRefs(L) = Strong(L)
      /\ \A L \in Threads : Strong(L)' = (Stack(L)' \cup IF L = Main THEN Elems(running') ELSE {}) \ {None, Num} /\ AnyRefs(L)' = Strong(L)'
    OBVIOUS
<1>4. /\ \A o \in Strings \cup Udata \cup Closures \cup Protos : Strong(o) = {val[o]} \ {None, Num} /\ AnyRefs(o) = Strong(o)
      /\ \A o \in Strings \cup Udata \cup Closures \cup Protos : Strong(o)' = {val'[o]} \ {None, Num} /\ AnyRefs(o)' = Strong(o)'
    OBVIOUS
<1>5. /\ \A t \in Tables : Strong(t) \subseteq AnyRefs(t) /\ (t \notin WeakTables => Strong(t) = AnyRefs(t))
      /\ \A t \in Tables : Strong(t)' \subseteq AnyRefs(t)' /\ (t \notin WeakTables => Strong(t)' = AnyRefs(t)')
    BY DEF WeakTables
<1> QED BY <1>1, <1>2, <1>3, <1>4, <1>5

\* The types of what is stored.
LEMMA Stored ==
    ASSUME HeapTyped, Entries, FinalsTyped
    PROVE  /\ \A o \in Obj : AnyRefs(o) \subseteq Obj
           /\ \A L \in Threads : Stack(L) \subseteq Storable
           /\ \A v \in UpVals : Content(v) \in Storable
           /\ Elems(running) \subseteq Udata /\ Elems(tmudata) \subseteq Udata
           /\ Storable \subseteq Value /\ UpVals \cap Storable = {}
<1>1. Storable \subseteq Value /\ UpVals \cap Storable = {} /\ Value \subseteq Obj \cup {None}
    BY Kinds DEF Storable, Value
<1>0. stk \in [Threads -> [1..Slots -> Storable]]
    BY DEF HeapTyped
<1>2. \A L \in Threads : Stack(L) \subseteq Storable
    <2> SUFFICES ASSUME NEW L \in Threads, NEW i \in 1..Slots
                 PROVE  stk[L][i] \in Storable
        BY DEF Stack
    <2>1. stk[L] \in [1..Slots -> Storable]
        BY <1>0
    <2> QED BY <2>1
<1>3. ASSUME NEW v \in UpVals
      PROVE  Content(v) \in Storable
    <2>1. CASE at[v] = <<>>
        BY <2>1 DEF Content, Entries
    <2>2. CASE at[v] # <<>>
        <3>1. at[v][1] \in Threads /\ at[v][2] \in 1..Slots
            BY <2>2 DEF HeapTyped
        <3>2. stk[at[v][1]] \in [1..Slots -> Storable]
            BY <1>0, <3>1
        <3>3. stk[at[v][1]][at[v][2]] \in Storable
            BY <3>1, <3>2
        <3> QED BY <2>2, <3>3 DEF Content
    <2> QED BY <2>1, <2>2
<1>4. Elems(running) \subseteq Udata /\ Elems(tmudata) \subseteq Udata
    BY DEF Elems, HeapTyped, FinalsTyped
<1>5. ASSUME NEW o \in Obj
      PROVE  AnyRefs(o) \subseteq Obj
    <2>1. val[o] \in Obj \cup {None} /\ key[o] \in Obj \cup {None, Num}
        BY <1>1 DEF HeapTyped, Storable
    <2>2. CASE o \in Tables \cup Strings \cup Udata \cup Closures \cup Protos
        BY <2>1, <2>2, Refs, Kinds DEF RefsAre
    <2>3. CASE o \in UpVals
        BY <1>1, <1>3, <2>3, Refs, Kinds DEF RefsAre
    <2>4. CASE o \in Threads
        BY <1>1, <1>2, <1>4, <2>4, Refs, Kinds DEF RefsAre
    <2> QED BY <2>2, <2>3, <2>4, Kinds
<1> QED BY <1>1, <1>2, <1>3, <1>4, <1>5

\* What reallymarkobject marks, when it is called for S, where upvalues refer to no upvalues and
\* userdata to tables only.
MarksFrom(M, col, S) ==
    /\ M \subseteq Obj /\ \A o \in M : col[o] \in Whites
    /\ \A o \in S \cap Obj : o \in M \/ col[o] \notin Whites
    /\ \A u \in M \cap Udata : val[u] = None \/ val[u] \in M \/ col[val[u]] \notin Whites
    /\ \A v \in M \cap UpVals : v \in S /\ (Content(v) = None \/ Content(v) \in M \/ col[Content(v)] \notin Whites)
    /\ \A T : /\ S \cap Obj \subseteq T
              /\ \A v \in T \cap UpVals : Content(v) \in T \cup {None}
              /\ \A u \in T \cap Udata : val[u] \in T \cup {None}
              => M \subseteq T

LEMMA MarkedObjects ==
    ASSUME HeapTyped, Entries, FinalsTyped, NEW col, NEW S, S \subseteq Value \cup {Num}
    PROVE  MarksFrom(Marked(col, S), col, S)
<1> DEFINE W(T) == {o \in Collectable(T) : col[o] \in Whites}
           direct == W(S)
           below == direct \cup W({Content(v) : v \in direct \cap UpVals})
           M == below \cup W({val[u] : u \in below \cap Udata})
<1>0. Marked(col, S) = M
    BY DEF Marked
<1>1. direct \subseteq S \cap Obj /\ \A o \in direct : col[o] \in Whites
    BY DEF Collectable, Value
<1>2. \A o \in S \cap Obj : o \in direct \/ col[o] \notin Whites
    BY Kinds DEF Collectable
<1>3. \A v \in direct \cap UpVals : Content(v) \in Storable
    BY Stored
<1>4. /\ \A o \in below : o \in direct \/ \E v \in direct \cap UpVals : o = Content(v) /\ o # None
      /\ \A o \in below : col[o] \in Whites
      /\ \A v \in direct \cap UpVals : Content(v) = None \/ Content(v) \in below \/ col[Content(v)] \notin Whites
      /\ direct \subseteq below
    <2>1. \A v \in direct \cap UpVals : Content(v) # Num
        BY <1>3, Kinds DEF Storable, None, Num
    <2> HIDE DEF direct
    <2> QED BY <1>1, <2>1 DEF Collectable
<1> HIDE DEF direct
<1>5. below \subseteq Obj /\ \A v \in below \cap UpVals : v \in direct
    BY <1>1, <1>3, <1>4, Stored DEF Storable
<1>6. \A u \in below \cap Udata : val[u] \in Tables \cup {None}
    BY DEF Entries
<1> HIDE DEF below
<1>7. /\ \A o \in M : o \in below \/ \E u \in below \cap Udata : o = val[u] /\ o # None
      /\ \A o \in M : col[o] \in Whites
      /\ \A u \in below \cap Udata : val[u] = None \/ val[u] \in M \/ col[val[u]] \notin Whites
      /\ below \subseteq M
    BY <1>4, <1>6, Kinds DEF Collectable
<1> HIDE DEF M
<1>8. /\ M \subseteq Obj
      /\ \A o \in M \cap (Udata \cup UpVals) : o \in below
    BY <1>5, <1>6, <1>7, Kinds
<1>9. /\ \A o \in S \cap Obj : o \in M \/ col[o] \notin Whites
      /\ \A u \in M \cap Udata : val[u] = None \/ val[u] \in M \/ col[val[u]] \notin Whites
    BY <1>2, <1>4, <1>7, <1>8
<1>10. \A v \in M \cap UpVals : v \in S /\ (Content(v) = None \/ Content(v) \in M \/ col[Content(v)] \notin Whites)
    BY <1>1, <1>4, <1>5, <1>7, <1>8
<1>11. ASSUME NEW T, S \cap Obj \subseteq T, \A v \in T \cap UpVals : Content(v) \in T \cup {None},
              \A u \in T \cap Udata : val[u] \in T \cup {None}
       PROVE  M \subseteq T
    <2>1. direct \subseteq T
        BY <1>1, <1>11
    <2>2. below \subseteq T
        BY <1>4, <1>11, <2>1
    <2> QED BY <1>7, <1>11, <2>2
<1>12. MarksFrom(M, col, S)
    BY <1>7, <1>8, <1>9, <1>10, <1>11 DEF MarksFrom
<1> QED BY <1>0, <1>12

\* What marking reaches from objects that live lives. The colours may be those of now, but for
\* some that have been made white again.
LEMMA MarksLive ==
    ASSUME HeapTyped, Entries, FinalsTyped, Kept, NEW M, NEW col, NEW S, MarksFrom(M, col, S), S \cap Obj \subseteq Fit,
           \A o \in Obj : col[o] \notin Whites => ~White(o)
    PROVE  /\ M \subseteq Fit /\ S \cap Obj \subseteq Shaded \cup M
           /\ \A o \in M \cap (Udata \cup UpVals) : AnyRefs(o) \subseteq Shaded \cup M
<1>1. ASSUME NEW v \in Fit \cap UpVals
      PROVE  Content(v) \in Fit \cup {None}
    <2>1. Content(v) \in Storable /\ AnyRefs(v) = {Content(v)} \ {None, Num} /\ AnyRefs(v) \subseteq Fit
        BY Stored, Refs DEF RefsAre, Kept
    <2>2. Content(v) # Num
        BY <2>1, Kinds DEF Storable, None, Num
    <2> QED BY <2>1, <2>2
<1>2. ASSUME NEW u \in Fit \cap Udata
      PROVE  val[u] \in Fit \cup {None}
    <2>1. val[u] \in Tables \cup {None} /\ AnyRefs(u) = {val[u]} \ {None, Num} /\ AnyRefs(u) \subseteq Fit
        BY Refs DEF RefsAre, Kept, Entries
    <2>2. val[u] # Num
        BY <2>1, Kinds DEF None, Num
    <2> QED BY <2>1, <2>2
<1>3. M \subseteq Fit
    BY <1>1, <1>2 DEF MarksFrom
<1>4. S \cap Obj \subseteq Shaded \cup M
    <2>1. \A o \in S \cap Obj : o \in M \/ col[o] \notin Whites
        BY DEF MarksFrom
    <2> QED BY <2>1 DEF Shaded, Fit
<1>5. ASSUME NEW v \in M \cap UpVals
      PROVE  AnyRefs(v) \subseteq Shaded \cup M
    <2>1. Content(v) = None \/ Content(v) \in M \/ col[Content(v)] \notin Whites
        BY DEF MarksFrom
    <2>2. AnyRefs(v) = {Content(v)} \ {None, Num} /\ AnyRefs(v) \subseteq Fit /\ AnyRefs(v) \subseteq Obj
        BY <1>3, Refs, Stored, Kinds DEF RefsAre, Kept
    <2> QED BY <2>1, <2>2 DEF Shaded, Fit
<1>6. ASSUME NEW u \in M \cap Udata
      PROVE  AnyRefs(u) \subseteq Shaded \cup M
    <2>1. val[u] = None \/ val[u] \in M \/ col[val[u]] \notin Whites
        BY DEF MarksFrom
    <2>2. AnyRefs(u) = {val[u]} \ {None, Num} /\ AnyRefs(u) \subseteq Fit /\ AnyRefs(u) \subseteq Obj
        BY <1>3, Refs, Stored, Kinds DEF RefsAre, Kept
    <2> QED BY <2>1, <2>2 DEF Shaded, Fit
<1> QED BY <1>3, <1>4, <1>5, <1>6

\* What painting does.
LEMMA PaintedObjects ==
    ASSUME NEW col, NEW M
    PROVE  \A o \in Obj : Painted(col, M)[o] = IF o \notin M THEN col[o]
                                               ELSE IF o \in Udata \/ (o \in UpVals /\ ~Opened(o)) THEN "black"
                                               ELSE "gray"
BY DEF Painted, Opened

\* A step of marking: the objects M are marked, white ones or userdata that are marked again, and
\* some gray ones X blackened, among them upvalues that are closed.
Marks(M, X) ==
    /\ Marking /\ M \subseteq Fit /\ \A o \in M : White(o) \/ o \in Udata
    /\ \A o \in M \cap (Udata \cup UpVals) : AnyRefs(o) \subseteq Shaded \cup M
    /\ X \subseteq Shaded \cap (Listable \cup UpVals)
    /\ cw' = cw /\ alive' = alive /\ doomed' = doomed /\ finalized \subseteq finalized'
    /\ \A o \in Obj : \/ o \notin M \cup X /\ color'[o] = color[o]
                      \/ o \in M /\ (o \in Udata \/ (o \in UpVals /\ ~Opened(o))) /\ color'[o] = "black"
                      \/ o \in M /\ ~(o \in Udata \/ (o \in UpVals /\ ~Opened(o))) /\ color'[o] = "gray"
                      \/ o \in X /\ color'[o] = IF o \in Threads \cup WeakTables THEN "gray" ELSE "black"
    /\ \A v \in UpVals : \/ v \notin X /\ at'[v] = at[v]
                         \/ v \notin M /\ at'[v] = <<>> /\ (v \in X \/ White(v))

LEMMA MarksSets ==
    ASSUME HeapInv, FinalsTyped, NEW M, NEW X, Marks(M, X)
    PROVE  /\ Shaded' = Shaded \cup M /\ M \cap X = {} /\ Fit' = Fit /\ Fit = alive \ doomed
           /\ M \subseteq alive /\ alive \subseteq Obj
           /\ \A o \in alive : ~Dead(o)'
           /\ \A o \in M : o \in Udata \/ color[o] \in Whites
<1> USE DEF Marks, HeapInv
<1>1. alive \subseteq Obj /\ M \subseteq alive /\ cw \in Whites
    BY DEF HeapTyped, Fit, FinalsTyped
<1>2. \A o \in alive : ~Dead(o)
    BY DEF Tints, Marking, Sweeping, InAtomic
<1>3. OtherWhite' = OtherWhite /\ OtherWhite \in Whites
    BY DEF OtherWhite, Whites
<1>4. ASSUME NEW o \in alive
      PROVE  ~Dead(o)' /\ (White(o)' <=> White(o) /\ o \notin M)
    <2>1. White(o) => o \notin X
        BY DEF Shaded
    <2>3. color'[o] = color[o] \/ color'[o] \in {"gray", "black"}
        BY <1>1, <1>4
    <2>4. o \in M \cup X => color'[o] \in {"gray", "black"}
        BY <1>1, <1>4
    <2>5. o \notin M \cup X => color'[o] = color[o]
        BY <1>1, <1>4
    <2>6. {"gray", "black"} \cap Whites = {}
        BY DEF Whites
    <2>7. ~Dead(o)'
        BY <1>2, <1>3, <2>3, <2>6 DEF Dead
    <2>8. White(o)' <=> White(o) /\ o \notin M
        BY <2>1, <2>4, <2>5, <2>6 DEF White, Shaded
    <2> QED BY <2>7, <2>8
<1>5. Shaded' = Shaded \cup M
    BY <1>1, <1>4 DEF Shaded, White
<1>6. M \cap X = {}
    BY Kinds DEF Shaded, Listable
<1>7. Fit = alive \ doomed /\ Fit' = alive \ doomed
    BY <1>2, <1>4 DEF Fit
<1>8. \A o \in M : o \in Udata \/ color[o] \in Whites
    BY DEF White
<1> QED BY <1>1, <1>4, <1>5, <1>6, <1>7, <1>8

LEMMA MarksKeep ==
    ASSUME HeapInv, FinalsTyped, NEW M, NEW X, Marks(M, X), Marking'
    PROVE  Tints' /\ SweepGoesOn' /\ Doomed'
<1> USE DEF HeapInv
<1>1. ~Sweeping' /\ ~Sweeping
    BY DEF Marking, Sweeping, InAtomic, Marks
<1>2. Tints'
    <2>1. alive' = alive /\ alive \subseteq Obj /\ \A o \in alive : ~Dead(o)'
        BY MarksSets DEF Marks
    <2>2. ASSUME NEW u \in alive \cap Udata
          PROVE  color'[u] # "gray"
        <3>1. color[u] # "gray" /\ u \notin Listable \cup UpVals
            BY Kinds DEF Tints, Listable
        <3> QED BY <2>1, <3>1 DEF Marks
    <2>3. ASSUME NEW o \in alive \cap (Threads \cup WeakTables)
          PROVE  color'[o] # "black"
        <3>1. color[o] # "black" /\ o \notin Udata \cup UpVals
            BY Kinds DEF Tints
        <3> QED BY <2>1, <3>1 DEF Marks
    <2>4. ASSUME NEW v \in alive \cap UpVals
          PROVE  IF Opened(v)' THEN color'[v] # "black" ELSE Marking' => color'[v] # "gray"
        <3>1. /\ Opened(v) => color[v] # "black"
              /\ ~Opened(v) => color[v] # "gray"
            BY DEF Tints, Marks
        <3>2. v \notin Threads \cup WeakTables \cup Udata /\ v \in Obj
            BY Kinds
        <3>3. CASE v \notin X /\ at'[v] = at[v]
            <4>1. \/ v \notin M /\ color'[v] = color[v]
                  \/ v \in M /\ color'[v] = IF Opened(v) THEN "gray" ELSE "black"
                BY <3>2, <3>3 DEF Marks
            <4>2. Opened(v)' <=> Opened(v)
                BY <3>3 DEF Opened
            <4> QED BY <3>1, <4>1, <4>2
        <3>4. CASE v \notin M /\ at'[v] = <<>> /\ (v \in X \/ White(v))
            BY <3>1, <3>2, <3>4 DEF Marks, Opened, White, Whites
        <3> QED BY <3>3, <3>4 DEF Marks
    <2> QED BY <1>1, <2>1, <2>2, <2>3, <2>4 DEF Tints
<1>3. SweepGoesOn'
    <2>1. gcstate' # "sweep"
        BY <1>1 DEF Sweeping
    <2> QED BY <2>1 DEF SweepGoesOn
<1>4. Doomed'
    <2>1. doomed \cap (Strings \cup (HasGC \ finalized')) = {} /\ doomed' = doomed
        BY DEF Doomed, Marks
    <2>2. \A v \in UpVals \cap doomed : Opened(v)' => at'[v][1] \in doomed
        BY DEF Doomed, Marks, Opened
    <2>3. doomed \cap Shaded' = {}
        <3>1. Shaded' = Shaded \cup M /\ M \subseteq Fit /\ Marking
            BY MarksSets DEF Marks
        <3> QED BY <3>1 DEF Doomed, Fit
    <2> QED BY <1>1, <2>1, <2>2, <2>3 DEF Doomed
<1> QED BY <1>2, <1>3, <1>4

LEMMA MarksTrace ==
    ASSUME HeapInv, FinalsTyped, NEW M, NEW X, Marks(M, X),
           gray \ X \subseteq gray', M \cap Listable \subseteq gray',
           \A p \in Obj \ (M \cup X) : Done(p)' =>
               (Done(p) /\ Strong(p)' \subseteq Strong(p)) \/ Strong(p)' \subseteq Shaded',
           \A p \in M \cap (Udata \cup UpVals \cup Strings) : Strong(p)' = Strong(p),
           \A p \in X : Done(p)' => Strong(p)' \subseteq Shaded'
    PROVE  Traced'
<1> USE DEF HeapInv
<1>1. Shaded' = Shaded \cup M
    BY MarksSets
<1> SUFFICES ASSUME NEW p \in Obj, Done(p)'
             PROVE  Strong(p)' \subseteq Shaded'
    BY <1>1 DEF Traced, Marks
<1>2. CASE p \in X
    BY <1>2
<1>3. CASE p \notin M \cup X
    <2>1. Done(p) => Strong(p) \subseteq Shaded
        BY DEF Traced, Marks
    <2> QED BY <1>1, <1>3, <2>1
<1>4. CASE p \in M
    <2>1. p \in Udata \cup UpVals \cup Strings
        BY <1>4, Kinds DEF Done, Listable
    <2>2. Strong(p)' = Strong(p) /\ Strong(p) = AnyRefs(p)
        BY <1>4, <2>1, Refs, Kinds DEF RefsAre
    <2>3. CASE p \in Udata \cup UpVals
        BY <1>1, <1>4, <2>2, <2>3 DEF Marks
    <2>6. CASE p \in Strings
        <3>1. AnyRefs(p) = {}
            BY <2>6, Refs DEF RefsAre, Entries
        <3> QED BY <2>2, <3>1
    <2> QED BY <2>1, <2>3, <2>6
<1> QED BY <1>2, <1>3, <1>4

\* The lists of gray objects, when those of M are put into the first.
LEMMA MarksList ==
    ASSUME HeapInv, FinalsTyped, NEW M, NEW X, Marks(M, X), Marking',
           \/ X \subseteq gray /\ gray' = (gray \ X) \cup Listed(M)
           \/ X \cap Listable = {} /\ gray' = gray \cup Listed(M),
           grayagain' = grayagain \cup (X \cap gray \cap Threads), weak' = weak \cup (X \cap gray \cap WeakTables)
    PROVE  Lists' /\ gray \ X \subseteq gray' /\ M \cap Listable \subseteq gray'
<1> USE DEF HeapInv
<1>0. "gray" \notin Whites
    BY DEF Whites
<1>1. Listed(M) = M \cap Listable
    <2>1. M \subseteq Obj
        BY MarksSets
    <2> QED BY <2>1, Kinds DEF Listed, Listable
<1>2. /\ \A p \in gray \cup grayagain \cup weak : p \in alive /\ color[p] = "gray" /\ p \in Listable
      /\ \A p \in Listable \cap alive : color[p] = "gray" => p \in gray \cup grayagain \cup weak
      /\ gray \cap grayagain = {} /\ gray \cap weak = {} /\ grayagain \cap weak = {}
      /\ weak \subseteq WeakTables /\ grayagain \cap WeakTables = {}
    BY DEF Lists, ListsDisjoint, Marks
<1>3. \A p \in M : (color[p] # "gray" \/ p \in Udata) /\ p \in alive /\ p \in Obj /\ p \notin X
    BY MarksSets, <1>0
<1>4. \A p \in gray : p \in gray' \/ p \in X
    BY <1>1
<1>5. \A p \in gray' : (p \in gray /\ p \notin X) \/ p \in M \cap Listable
    BY <1>1, <1>2
<1>6. ListsDisjoint'
    BY <1>2, <1>3, <1>5, Kinds DEF ListsDisjoint, Listable
<1>7. /\ weak' \subseteq WeakTables /\ grayagain' \cap WeakTables = {}
      /\ gray' \cup grayagain' \cup weak' \subseteq Listable
    BY <1>2, <1>5, Kinds DEF Listable
<1>8. ASSUME NEW p \in gray' \cup grayagain' \cup weak'
      PROVE  p \in alive' /\ color'[p] = "gray"
    <2>1. p \in Listable /\ alive' = alive /\ p \in Obj /\ p \notin Udata \cup UpVals
        BY <1>7, <1>8, Kinds DEF Listable, Marks
    <2>2. CASE p \in M
        BY <1>3, <2>1, <2>2 DEF Marks
    <2>3. CASE p \notin M /\ p \in X
        <3>1. p \notin gray' /\ p \in gray
            BY <1>1, <1>5, <2>1, <2>3
        <3>2. p \in Threads \cup WeakTables /\ p \in alive
            BY <1>2, <1>8, <3>1
        <3> QED BY <2>1, <2>3, <3>2 DEF Marks
    <2>4. CASE p \notin M \cup X
        <3>1. p \in gray \cup grayagain \cup weak
            BY <1>5, <1>8, <2>4
        <3> QED BY <1>2, <2>1, <2>4, <3>1 DEF Marks
    <2> QED BY <2>2, <2>3, <2>4
<1>9. ASSUME NEW p \in Listable \cap alive', color'[p] = "gray"
      PROVE  p \in gray' \cup grayagain' \cup weak'
    <2>1. p \in Obj /\ p \notin Udata \cup UpVals /\ p \in alive
        BY Kinds DEF Listable, Marks
    <2>2. CASE p \in M
        BY <1>1, <2>2
    <2>3. CASE p \in X
        <3>1. p \in Threads \cup WeakTables /\ gray' = (gray \ X) \cup Listed(M)
            BY <1>3, <1>9, <2>1, <2>3 DEF Marks
        <3> QED BY <3>1, <2>3, <1>2
    <2>4. CASE p \notin M \cup X
        BY <1>2, <1>4, <1>9, <2>1, <2>4 DEF Marks
    <2> QED BY <2>2, <2>3, <2>4
<1> QED BY <1>1, <1>4, <1>6, <1>7, <1>8, <1>9 DEF Lists

------------------------------------------------------------------------------
(* The steps of the collector that leave the heap as it is *)

LEMMA HeapRests ==
    ASSUME HeapInv, UNCHANGED <<avail, alive, heap>>, running' \in Seq(Udata),
           unswept' \subseteq alive, \A v \in UpVals : Opened(v) => v \notin unswept',
           doomed' \subseteq alive,
           gcstate' \in {"pause", "propagate", "atomic1", "atomic2", "atomic3", "atomic4",
                         "sweepstring", "sweep", "finalize"},
           full' \in {"no", "finish", "collect"}, depth' \in Nat
    PROVE  HeapTyped' /\ Entries' /\ Places'
<1> USE DEF HeapInv, heap
<1>1. HeapTyped'
    BY DEF HeapTyped
<1>2. Entries'
    BY DEF Entries
<1>3. Places'
    BY DEF Places, Opened
<1> QED BY <1>1, <1>2, <1>3

LEMMA RefsRest ==
    ASSUME UNCHANGED <<heap, running>>
    PROVE  /\ \A o : AnyRefs(o)' = AnyRefs(o) /\ Strong(o)' = Strong(o)
           /\ Roots' = Roots
BY DEF heap, AnyRefs, Strong, Content, Stack, Roots

LEMMA KeptRests ==
    ASSUME HeapInv, UNCHANGED <<alive, heap, running, tmudata>>, Fit' = Fit, ~Sweeping
    PROVE  Kept'
<1>1. Roots' = Roots /\ Elems(tmudata') = Elems(tmudata)
    BY RefsRest
<1>2. \A o : AnyRefs(o)' = AnyRefs(o)
    BY RefsRest
<1>3. /\ Roots \cup Elems(tmudata) \subseteq Fit /\ \A o \in Fit : AnyRefs(o) \subseteq Fit
      /\ \A o \in alive : AnyRefs(o) \subseteq alive
    BY DEF HeapInv, Kept
<1> QED BY <1>1, <1>2, <1>3 DEF Kept

\* propagatemark, in the incremental phase and in the atomic step.
LEMMA PropagateKeepsHeap == ASSUME HeapInv, FinalsTyped, Propagate PROVE HeapInv'
<1> USE DEF HeapInv
<1>1. PICK o \in gray : propagatemark(o)
    BY DEF Propagate
<1> DEFINE M == Marked(color, Strong(o))
<1>2. /\ Marking /\ Marking' /\ ~Sweeping /\ UNCHANGED <<avail, alive, cw, gcstate, unswept, heap, finals, full, depth, closing, doomed>>
      /\ UNCHANGED <<at, key, val, running, tmudata, finalized>>
    BY DEF Propagate, Marking, InAtomic, Sweeping, finals, heap
<1>3. o \in Listable /\ o \in Obj /\ o \in Shaded /\ color[o] = "gray" /\ o \in Fit
    <2>1. o \in Listable /\ o \in alive /\ color[o] = "gray"
        BY <1>2 DEF Lists
    <2>2. o \in Obj /\ o \in Shaded
        BY <2>1, Kinds DEF Listable, Shaded, White, Whites
    <2>3. o \notin doomed /\ ~Dead(o)
        BY <1>2, <2>2 DEF Doomed, Tints, Shaded
    <2> QED BY <2>1, <2>2, <2>3 DEF Fit
<1>4. Strong(o) \subseteq Fit /\ Strong(o) \subseteq Obj
    BY <1>3, Refs, Stored DEF RefsAre, Kept
<1>5. /\ MarksFrom(M, color, Strong(o)) /\ M \subseteq Fit /\ Strong(o) \subseteq Shaded \cup M
      /\ \A p \in M \cap (Udata \cup UpVals) : AnyRefs(p) \subseteq Shaded \cup M
    <2>1. MarksFrom(M, color, Strong(o))
        BY <1>4, MarkedObjects DEF Value
    <2>2. Strong(o) \cap Obj \subseteq Fit /\ Strong(o) \cap Obj = Strong(o)
        BY <1>4
    <2>3. \A p \in Obj : color[p] \notin Whites => ~White(p)
        BY DEF White
    <2> QED BY <2>1, <2>2, <2>3, MarksLive
<1> HIDE DEF M
<1>6. color' = [Painted(color, M) EXCEPT ![o] = IF o \in Threads \cup WeakTables THEN "gray" ELSE "black"]
    BY <1>1 DEF propagatemark, M, WeakTables
<1>7. o \notin M /\ \A p \in M : White(p)
    BY <1>3, <1>5 DEF MarksFrom, Whites, White
<1>8. Marks(M, {o})
    <2> DEFINE P == Painted(color, M)
    <2>1. \A p \in Obj : P[p] = IF p \notin M THEN color[p]
                                ELSE IF p \in Udata \/ (p \in UpVals /\ ~Opened(p)) THEN "black" ELSE "gray"
        BY PaintedObjects
    <2>2. \A p \in Obj \ {o} : color'[p] = P[p]
        BY <1>6 DEF Painted
    <2>3. color'[o] = IF o \in Threads \cup WeakTables THEN "gray" ELSE "black"
        BY <1>3, <1>6 DEF Painted
    <2> HIDE DEF P
    <2>4. \A v \in UpVals : v # o
        BY <1>3, Kinds DEF Listable
    <2> QED BY <1>2, <1>3, <1>5, <1>7, <2>1, <2>2, <2>3, <2>4 DEF Marks
<1>9. Tints' /\ SweepGoesOn' /\ Doomed'
    BY <1>2, <1>8, MarksKeep
<1>10. /\ gray' = (gray \ {o}) \cup Listed(M)
       /\ grayagain' = grayagain \cup ({o} \cap gray \cap Threads) /\ weak' = weak \cup ({o} \cap gray \cap WeakTables)
    BY <1>1 DEF propagatemark, M, WeakTables
<1>11. Lists' /\ gray \ {o} \subseteq gray' /\ M \cap Listable \subseteq gray'
    BY <1>2, <1>8, <1>10, MarksList
<1>12. Shaded' = Shaded \cup M /\ Fit' = Fit /\ M \subseteq alive
    BY <1>8, MarksSets
<1>13. Strong(o) \subseteq Shaded'
    BY <1>5, <1>12
<1>14. \A p : Strong(p)' = Strong(p)
    BY <1>2, RefsRest
<1>15. \A p \in Obj \ (M \cup {o}) : Done(p)' => Done(p)
    <2> SUFFICES ASSUME NEW p \in Obj \ (M \cup {o}), Done(p)'
                 PROVE  Done(p)
        OBVIOUS
    <2>1. color'[p] = color[p] /\ p \in Shaded /\ p \notin gray
        BY <1>8, <1>11, <1>12 DEF Marks, Done
    <2>2. (p \in weak' => p \in weak) /\ (p \in grayagain' => p \in grayagain)
        BY <1>10
    <2> QED BY <1>2, <2>1, <2>2 DEF Done, InAtomic
<1>16. Traced'
    BY <1>8, <1>11, <1>13, <1>14, <1>15, MarksTrace
<1>17. HeapTyped' /\ Entries' /\ Places'
    <2>1. HeapTyped /\ Places
        OBVIOUS
    <2> QED BY <1>2, <2>1, HeapRests DEF HeapTyped, Places
<1>18. Kept'
    BY <1>2, <1>12, KeptRests
<1>19. Owned'
    <2> SUFFICES ASSUME gcstate' = "propagate", NEW v \in UpVals \cap Shaded'
                 PROVE  \E c \in Closures \cap alive' : val'[c] = v /\ color'[c] = "black"
        BY DEF Owned
    <2>1. CASE v \in Shaded
        <3>1. PICK c \in Closures \cap alive : val[c] = v /\ color[c] = "black"
            BY <1>2, <2>1 DEF Owned
        <3>2. c \in Obj /\ color'[c] = "black"
            BY <1>3, <1>5, <1>8, <3>1, Kinds DEF Marks, MarksFrom, Whites
        <3> QED BY <1>2, <3>1, <3>2
    <2>2. CASE v \in M
        <3>1. v \in Strong(o)
            BY <1>5, <2>2 DEF MarksFrom
        <3>2. v \in AnyRefs(o) /\ v \notin Storable
            BY <1>3, <3>1, Refs, Kinds DEF RefsAre, Storable
        <3>3. val[o] = v /\ o \in Closures
            <4>1. CASE o \in Tables
                BY <3>2, <4>1, Refs, Kinds DEF RefsAre, Entries, HeapTyped
            <4>2. CASE o \in Threads
                BY <3>2, <4>2, Refs, Stored, Kinds DEF RefsAre
            <4>3. CASE o \in Protos
                BY <3>2, <4>3, Refs, Kinds DEF RefsAre, Entries
            <4>4. CASE o \in Closures
                BY <3>2, <4>4, Refs DEF RefsAre
            <4> QED BY <1>3, <4>1, <4>2, <4>3, <4>4 DEF Listable
        <3>4. color'[o] = "black"
            BY <1>3, <1>7, <1>8, <3>3, Kinds DEF Marks
        <3> QED BY <1>2, <1>3, <3>3, <3>4 DEF Shaded
    <2> QED BY <1>12, <2>1, <2>2
<1> QED BY <1>9, <1>11, <1>16, <1>17, <1>18, <1>19

\* What the steps of the atomic part have in common.
LEMMA AtomicRests ==
    ASSUME HeapInv, FinalsTyped, NEW M, Marks(M, {}), InAtomic', Lists', Traced',
           UNCHANGED <<avail, alive, unswept, heap, running, doomed, full, depth>>,
           Elems(tmudata') \subseteq Fit
    PROVE  HeapInv'
<1> USE DEF HeapInv
<1>1. Marking' /\ ~Sweeping /\ ~Sweeping' /\ gcstate' # "propagate" /\ UNCHANGED <<at, running>>
    BY DEF Marking, Sweeping, InAtomic, Marks, heap
<1>2. HeapTyped' /\ Entries' /\ Places'
    <2>1. HeapTyped /\ Places
        OBVIOUS
    <2> QED BY <2>1, HeapRests DEF HeapTyped, Places, InAtomic
<1>3. Kept'
    <2>1. Fit' = Fit /\ Roots' = Roots /\ \A o : AnyRefs(o)' = AnyRefs(o)
        BY MarksSets, RefsRest
    <2> QED BY <1>1, <2>1 DEF Kept
<1>4. Tints' /\ SweepGoesOn' /\ Doomed'
    BY <1>1, MarksKeep
<1>5. Owned'
    BY <1>1 DEF Owned
<1> QED BY <1>2, <1>3, <1>4, <1>5

\* remarkupvals: what open upvalues hold that are gray.
LEMMA AtomicStartKeepsHeap == ASSUME HeapInv, FinalsTyped, AtomicStart PROVE HeapInv'
<1> USE DEF HeapInv
<1> DEFINE greys == {u \in UpVals \cap alive : at[u] # <<>> /\ color[u] = "gray"}
           S == {Content(v) : v \in greys}
           M == Marked(color, S)
<1>1. /\ gcstate = "propagate" /\ gcstate' = "atomic1" /\ gray = {} /\ gray' = Listed(M) /\ color' = Painted(color, M)
      /\ UNCHANGED <<avail, alive, cw, unswept, heap, grayagain, weak, finals, full, depth, closing, doomed>>
      /\ UNCHANGED <<at, running, tmudata, finalized>>
    BY DEF AtomicStart, finals, heap
<1>2. Marking /\ Marking' /\ InAtomic' /\ ~Sweeping
    BY <1>1 DEF Marking, InAtomic, Sweeping
<1>3. \A v \in greys : v \in Fit /\ AnyRefs(v) = {Content(v)} \ {None, Num} /\ Content(v) \in Storable
    <2>1. \A v \in greys : v \in alive /\ ~White(v)
        BY DEF White, Whites
    <2>2. \A v \in greys : v \in Fit
        BY <1>2, <2>1 DEF Doomed, Tints, Shaded, Fit
    <2> QED BY <2>2, Refs, Stored DEF RefsAre
<1> HIDE DEF greys
<1>4. S \cap Obj \subseteq Fit /\ S \subseteq Value
    <2>1. \A v \in greys : Content(v) \in Obj => Content(v) \in Fit
        BY <1>3, Kinds DEF Kept
    <2> QED BY <1>3, <2>1, Stored
<1>5. /\ M \subseteq Fit /\ S \cap Obj \subseteq Shaded \cup M /\ \A p \in M : White(p)
      /\ \A p \in M \cap (Udata \cup UpVals) : AnyRefs(p) \subseteq Shaded \cup M
    <2> HIDE DEF S
    <2>1. MarksFrom(M, color, S)
        BY <1>4, MarkedObjects
    <2>2. \A p \in Obj : color[p] \notin Whites => ~White(p)
        BY DEF White
    <2>3. \A p \in M : White(p)
        BY <2>1 DEF MarksFrom, White
    <2> QED BY <1>4, <2>1, <2>2, <2>3, MarksLive
<1> HIDE DEF M
<1>6. Marks(M, {})
    BY <1>1, <1>2, <1>5, PaintedObjects DEF Marks
<1>7. Lists' /\ M \cap Listable \subseteq gray'
    BY <1>1, <1>2, <1>6, MarksList
<1>8. Shaded' = Shaded \cup M
    BY <1>6, MarksSets
<1>9. Traced'
    <2>1. \A p : Strong(p)' = Strong(p)
        BY <1>1, RefsRest
    <2>2. ASSUME NEW p \in Obj \ (M \cup {}), Done(p)'
          PROVE  Done(p) \/ Strong(p)' \subseteq Shaded'
        <3>1. color'[p] = color[p] /\ p \in Shaded /\ p \notin gray
            BY <1>1, <1>6, <1>8, <2>2 DEF Marks, Done
        <3>2. CASE color[p] = "black"
            <4>1. p \notin Elems(tmudata)
                BY <1>1, <2>2, <3>1, <3>2, OtherKinds DEF Done, Listable, Elems, FinalsTyped, Lists
            <4> QED BY <3>1, <3>2, <4>1 DEF Done
        <3>3. CASE color[p] # "black"
            <4>1. p \in UpVals
                BY <1>1, <2>2, <3>1, <3>3 DEF Done
            <4>2. color[p] = "gray"
                BY <3>1, <3>3 DEF FinalsTyped, Colours, Shaded, White
            <4>3. p \in greys
                BY <1>2, <3>1, <4>1, <4>2 DEF greys, Tints, Shaded, Opened
            <4>4. AnyRefs(p) \subseteq S \cap Obj
                BY <1>3, <4>3 DEF Storable
            <4> QED BY <1>5, <1>8, <2>1, <4>1, <4>4, Refs DEF RefsAre
        <3> QED BY <3>2, <3>3
    <2> QED BY <1>1, <1>6, <1>7, <2>1, <2>2, MarksTrace
<1>10. Elems(tmudata') \subseteq Fit
    BY <1>1 DEF Kept
<1> QED BY <1>1, <1>2, <1>6, <1>7, <1>9, <1>10, AtomicRests

\* remark weak tables, remark gray again.
LEMMA AtomicListsKeepHeap == ASSUME HeapInv, FinalsTyped, AtomicWeak \/ AtomicGray PROVE HeapInv'
<1> USE DEF HeapInv
<1>1. /\ gray = {} /\ UNCHANGED <<avail, alive, cw, unswept, heap, color, finals, full, depth, closing, doomed>>
      /\ UNCHANGED <<at, running, tmudata, finalized>>
      /\ \/ gcstate = "atomic1" /\ gcstate' = "atomic2" /\ gray' = weak /\ weak' = {} /\ grayagain' = grayagain
         \/ gcstate = "atomic2" /\ gcstate' = "atomic3" /\ gray' = grayagain /\ grayagain' = {} /\ weak' = weak
    BY DEF AtomicWeak, AtomicGray, finals, heap
<1>2. Marking /\ Marking' /\ InAtomic /\ InAtomic' /\ ~Sweeping
    BY <1>1 DEF Marking, InAtomic, Sweeping
<1>3. Marks({}, {})
    BY <1>1, <1>2 DEF Marks
<1>4. Lists'
    BY <1>1, <1>2 DEF Lists, ListsDisjoint
<1>5. Shaded' = Shaded
    BY <1>3, MarksSets
<1>6. Traced'
    <2>1. \A p : Strong(p)' = Strong(p)
        BY <1>1, RefsRest
    <2>2. ASSUME NEW p, Done(p)'
          PROVE  Done(p)
        BY <1>1, <1>2, <1>5, <2>2 DEF Done
    <2> QED BY <1>1, <1>3, <2>1, <2>2, MarksTrace
<1>7. Elems(tmudata') \subseteq Fit
    BY <1>1 DEF Kept
<1> QED BY <1>1, <1>2, <1>3, <1>4, <1>6, <1>7, AtomicRests

\* luaC_separateudata, marktmu: all that wait for their finalizers are marked again.
LEMMA AtomicSeparateKeepsHeap ==
    ASSUME HeapInv, FinalsInv, closing = "open", AtomicSeparate
    PROVE  HeapInv'
<1> USE DEF HeapInv, FinalsInv
<1> DEFINE p == {u \in Elems(udlist) : White(u)}
           T == Elems(tmudata')
           whitened == [o \in Obj |-> IF o \in T THEN cw ELSE color[o]]
           M == Marked(whitened, T)
<1>1. /\ gcstate = "atomic3" /\ gcstate' = "atomic4" /\ gray = {} /\ gray' = Listed(M)
      /\ color' = Painted(whitened, M) /\ Separate(p)
      /\ UNCHANGED <<avail, alive, cw, unswept, heap, grayagain, weak, running, calls, full, depth, closing, doomed>>
      /\ UNCHANGED at
    BY DEF AtomicSeparate, heap
<1>2. Marking /\ Marking' /\ InAtomic' /\ ~Sweeping /\ ~Sweeping'
    BY <1>1 DEF Marking, InAtomic, Sweeping
<1>3. T = Elems(tmudata) \cup ((p \ finalized) \cap HasGC) /\ finalized' = finalized \cup p
    <2> HIDE DEF M, whitened, T
    <2>1. p \subseteq Elems(udlist)
        OBVIOUS
    <2> HIDE DEF p
    <2>2. Elems(tmudata') = Elems(tmudata) \cup ((p \ finalized) \cap HasGC) /\ finalized' = finalized \cup p
        BY <1>1, <2>1, SeparateMoves
    <2> QED BY <2>2 DEF T
<1>4. p \subseteq alive \cap Udata
    BY <1>1 DEF Listing
<1> HIDE DEF p, T
<1>5. T \subseteq Fit /\ T \subseteq Udata
    <2>1. Elems(tmudata) \subseteq Fit /\ Elems(tmudata) \subseteq Udata
        BY Stored DEF Kept
    <2>2. (p \ finalized) \cap HasGC \subseteq Fit
        BY <1>2, <1>4 DEF Doomed, Tints, Fit
    <2> QED BY <1>3, <1>4, <2>1, <2>2
<1>6. cw \in Whites /\ Udata \subseteq Obj /\ \A o \in Obj : whitened[o] = IF o \in T THEN cw ELSE color[o]
    BY OtherKinds DEF FinalsTyped
<1> HIDE DEF whitened
<1>7. /\ MarksFrom(M, whitened, T) /\ M \subseteq Fit /\ T \subseteq M
      /\ \A o \in M \cap (Udata \cup UpVals) : AnyRefs(o) \subseteq Shaded \cup M
    <2>1. T \subseteq Value
        BY <1>5, <1>6 DEF Value
    <2>2. MarksFrom(M, whitened, T)
        BY <2>1, MarkedObjects
    <2> HIDE DEF M
    <2>3. \A o \in Obj : whitened[o] \notin Whites => ~White(o)
        BY <1>6 DEF White
    <2>4. T \cap Obj = T
        BY <1>5, <1>6
    <2>5. T \subseteq M
        BY <1>6, <2>2, <2>4 DEF MarksFrom
    <2> QED BY <1>5, <2>2, <2>3, <2>4, <2>5, MarksLive
<1> HIDE DEF M
<1>8. Marks(M, {})
    <2>1. \A o \in M : White(o) \/ o \in Udata
        BY <1>5, <1>6, <1>7 DEF MarksFrom, White
    <2>2. \A o \in Obj : o \notin M => color'[o] = color[o]
        BY <1>1, <1>6, <1>7, PaintedObjects
    <2>3. \A o \in M : color'[o] = IF o \in Udata \/ (o \in UpVals /\ ~Opened(o)) THEN "black" ELSE "gray"
        BY <1>1, <1>7, PaintedObjects DEF MarksFrom
    <2> QED BY <1>1, <1>2, <1>3, <1>7, <2>1, <2>2, <2>3 DEF Marks
<1>9. Lists' /\ M \cap Listable \subseteq gray'
    BY <1>1, <1>2, <1>8, MarksList
<1>10. Shaded' = Shaded \cup M
    BY <1>8, MarksSets
<1>11. Traced'
    <2>1. \A o : Strong(o)' = Strong(o)
        BY <1>1, RefsRest
    <2>2. ASSUME NEW o \in Obj \ (M \cup {}), Done(o)'
          PROVE  Done(o)
        <3>1. color'[o] = color[o] /\ o \in Shaded /\ o \notin gray /\ o \notin Elems(tmudata)
            BY <1>1, <1>3, <1>7, <1>8, <1>10, <2>2 DEF Marks, Done
        <3> QED BY <1>1, <2>2, <3>1 DEF Done, InAtomic
    <2> QED BY <1>1, <1>8, <1>9, <2>1, <2>2, MarksTrace
<1>12. Elems(tmudata') \subseteq Fit
    BY <1>5 DEF T
<1>13. running' = running
    BY <1>1
<1> QED BY <1>1, <1>2, <1>8, <1>9, <1>11, <1>12, <1>13, AtomicRests

\* At the end of the atomic step all that is marked has been traced.
LEMMA AllTraced ==
    ASSUME HeapInv, FinalsInv, closing = "open", gcstate = "atomic4", gray = {}
    PROVE  /\ \A o \in Shaded : Strong(o) \subseteq Shaded
           /\ Roots \cup Elems(tmudata) \subseteq Shaded
           /\ WeakTables \cap Shaded \subseteq weak
<1> USE DEF HeapInv, FinalsInv
<1>1. Marking /\ InAtomic
    BY DEF Marking, InAtomic
<1>2. ASSUME NEW o \in Shaded
      PROVE  /\ Strong(o) \subseteq Shaded
             /\ o \in WeakTables => o \in weak
    <2>1. o \in alive /\ o \in Obj /\ color[o] \in {"gray", "black"}
        BY DEF Shaded, HeapTyped, FinalsTyped, Colours, White
    <2>2. CASE o \in Strings
        <3>1. Strong(o) = {}
            BY <2>1, <2>2, Refs, Kinds DEF RefsAre, Entries
        <3> QED BY <2>2, <3>1, Kinds
    <2>3. CASE o \in Udata
        <3>1. Done(o)
            BY <2>1, <2>3 DEF Tints, Done
        <3> QED BY <1>1, <2>1, <2>3, <3>1, Kinds DEF Traced
    <2>4. CASE o \in UpVals
        <3>1. Done(o)
            BY <1>1, <2>1, <2>4 DEF Done
        <3> QED BY <1>1, <2>1, <2>4, <3>1, Kinds DEF Traced
    <2>5. CASE o \in Listable
        <3>1. color[o] = "gray" => o \in grayagain \cup weak
            BY <1>1, <2>1, <2>5 DEF Lists
        <3>2. Done(o)
            BY <2>1, <2>5, <3>1 DEF Done
        <3>3. o \in WeakTables => o \in weak
            BY <2>1, <3>1 DEF Tints, Lists
        <3> QED BY <1>1, <2>1, <3>2, <3>3 DEF Traced
    <2> QED BY <2>1, <2>2, <2>3, <2>4, <2>5, Kinds DEF Listable
<1>3. Main \in Shaded /\ Elems(running) \subseteq Shaded
    <2>1. Main \in Shaded
        BY <1>1 DEF Traced
    <2>2. Elems(running) \subseteq Strong(Main)
        BY Stored, Kinds DEF Strong, Collectable
    <2> QED BY <1>2, <2>1, <2>2
<1>4. Elems(tmudata) \subseteq Shaded
    BY DEF Spared, Waiting, Shaded, Kept, Fit
<1> QED BY <1>2, <1>3, <1>4 DEF Roots

\* cleartable and the flip of the whites: what is not marked is condemned.
LEMMA AtomicEndKeepsHeap ==
    ASSUME HeapInv, FinalsInv, closing = "open", AtomicEnd
    PROVE  HeapInv'
<1> USE DEF HeapInv
<1> DEFINE kept == (UNION {{key[t], val[t]} : t \in weak \ Cleared}) \cap Strings
<1>1. /\ gcstate = "atomic4" /\ gcstate' = "sweepstring" /\ gray = {} /\ cw' = OtherWhite
      /\ key' = [t \in Obj |-> IF t \in Cleared THEN None ELSE key[t]]
      /\ val' = [t \in Obj |-> IF t \in Cleared THEN None ELSE val[t]]
      /\ color' = [o \in Obj |-> IF o \in kept /\ White(o) THEN "gray" ELSE color[o]]
      /\ unswept' = alive \ (Elems(tmudata) \cup {v \in UpVals : at[v] # <<>>})
      /\ UNCHANGED <<avail, alive, stk, at, gray, grayagain, weak, finals, full, depth, closing, doomed>>
      /\ UNCHANGED <<running, tmudata, finalized>>
    BY DEF AtomicEnd, finals
<1>0. \A q : q \in kept <=> q \in Strings /\ \E t \in weak \ Cleared : q = key[t] \/ q = val[t]
    <2> DEFINE pairs == {{key[t], val[t]} : t \in weak \ Cleared}
    <2>1. kept = (UNION pairs) \cap Strings
        OBVIOUS
    <2>2. \A e : e \in pairs <=> \E t \in weak \ Cleared : e = {key[t], val[t]}
        OBVIOUS
    <2> HIDE DEF kept, pairs
    <2>3. ASSUME NEW q, q \in kept
          PROVE  q \in Strings /\ \E t \in weak \ Cleared : q = key[t] \/ q = val[t]
        <3>1. PICK e \in pairs : q \in e
            BY <2>1, <2>3
        <3>2. PICK t \in weak \ Cleared : e = {key[t], val[t]}
            BY <2>2, <3>1
        <3> QED BY <2>1, <2>3, <3>1, <3>2
    <2>4. ASSUME NEW q \in Strings, NEW t \in weak \ Cleared, q = key[t] \/ q = val[t]
          PROVE  q \in kept
        <3>1. {key[t], val[t]} \in pairs /\ q \in {key[t], val[t]}
            BY <2>2, <2>4
        <3>2. q \in UNION pairs
            BY <3>1
        <3> QED BY <2>1, <3>2
    <2> QED BY <2>3, <2>4
<1> HIDE DEF kept
<1>2. Marking /\ ~Marking' /\ ~Sweeping /\ Sweeping'
    BY <1>1 DEF Marking, InAtomic, Sweeping
<1>3. /\ \A o \in Shaded : Strong(o) \subseteq Shaded
      /\ Roots \cup Elems(tmudata) \subseteq Shaded /\ WeakTables \cap Shaded \subseteq weak
    BY <1>1, AllTraced
<1>4. weak \subseteq WeakTables /\ weak \subseteq Shaded /\ Shaded \subseteq Fit /\ alive \subseteq Obj
    <2>1. weak \subseteq WeakTables /\ alive \subseteq Obj
        BY DEF Lists, HeapTyped
    <2>2. weak \subseteq Shaded
        BY <1>2 DEF Lists, Shaded, White, Whites
    <2>3. Shaded \subseteq Fit
        BY <1>2 DEF Doomed, Tints, Shaded, Fit
    <2> QED BY <2>1, <2>2, <2>3
<1>5. Cleared \subseteq weak /\ Cleared \cap (Obj \ Tables) = {}
    BY <1>4, Kinds DEF Cleared
<1>6. ASSUME NEW t \in weak \ Cleared, NEW q \in AnyRefs(t)
      PROVE  q \in Fit /\ (q \in kept \/ q \in Shaded)
    <2>1. t \in Fit /\ q \in Fit /\ t \in Tables
        BY <1>4, <1>6, Kinds DEF Kept
    <2>2. AnyRefs(t) = IF val[t] = None THEN {} ELSE {key[t], val[t]} \ {None, Num}
        BY <2>1, Refs DEF RefsAre
    <2>3. val[t] # None /\ q \in {key[t], val[t]}
        BY <1>6, <2>2
    <2>4. ~iscleared(key[t], TRUE) /\ ~iscleared(val[t], FALSE)
        BY <1>6, <2>3 DEF Cleared
    <2>5. q \in Obj /\ q \in alive
        BY <1>4, <2>1 DEF Fit
    <2>6. q \in Strings \/ ~White(q)
        BY <2>3, <2>4, <2>5 DEF iscleared
    <2>7. q \in Strings => q \in kept
        BY <1>0, <1>6, <2>3
    <2> QED BY <2>1, <2>5, <2>6, <2>7 DEF Shaded
<1>7. kept \subseteq Fit /\ kept \subseteq Strings
    <2> SUFFICES ASSUME NEW q \in kept
                 PROVE  q \in Fit /\ q \in Strings
        OBVIOUS
    <2>1. PICK t \in weak \ Cleared : q \in {key[t], val[t]} /\ q \in Strings
        BY <1>0
    <2>2. t \in Tables
        BY <1>4, <2>1, Kinds
    <2>3. val[t] # None /\ q \notin {None, Num}
        BY <2>1, <2>2, Kinds DEF Entries
    <2>4. q \in AnyRefs(t)
        BY <2>1, <2>2, <2>3, Refs DEF RefsAre
    <2> QED BY <1>6, <2>1, <2>4
<1>8. cw \in Whites /\ OtherWhite \in Whites /\ OtherWhite # cw /\ OtherWhite' = cw /\ cw' = OtherWhite
    BY <1>1 DEF OtherWhite, FinalsInv, FinalsTyped, Whites
<1>9. ASSUME NEW o \in alive
      PROVE  /\ color'[o] = IF o \in kept /\ White(o) THEN "gray" ELSE color[o]
             /\ ~Dead(o)' <=> o \in Shaded \cup kept
    <2>1. color'[o] = IF o \in kept /\ White(o) THEN "gray" ELSE color[o]
        BY <1>1, <1>4, <1>9
    <2>2. color[o] # OtherWhite
        BY <1>2, <1>9 DEF Tints, Dead
    <2>3. White(o) <=> color[o] = cw
        BY <1>8, <2>2 DEF White, OtherWhite, Whites
    <2>4. cw # "gray"
        BY <1>8 DEF Whites
    <2> QED BY <1>8, <1>9, <2>1, <2>3, <2>4 DEF Dead, Shaded
<1>10. Fit' = Shaded \cup kept
    <2>1. alive' = alive /\ doomed' = doomed
        BY <1>1
    <2>2. \A o \in Fit' : o \in Shaded \cup kept
        BY <1>9, <2>1 DEF Fit
    <2>3. \A o \in Shaded \cup kept : o \in alive /\ o \notin doomed
        BY <1>4, <1>7 DEF Fit
    <2>4. \A o \in Shaded \cup kept : o \in Fit'
        BY <1>9, <2>1, <2>3 DEF Fit
    <2> QED BY <2>2, <2>4
<1>11. HeapTyped'
    <2>1. None \in Storable /\ None \in Value
        BY DEF Storable, Value
    <2>2. key' \in [Obj -> Storable \cup {Num}] /\ val' \in [Obj -> Value]
        BY <1>1, <2>1 DEF HeapTyped
    <2> QED BY <1>1, <2>2 DEF HeapTyped
<1>12. Entries'
    <2>1. \A o \in Obj \ Tables : val'[o] = val[o]
        BY <1>1, <1>5
    <2>2. \A t \in Tables : val'[t] \in {None, val[t]} /\ (val'[t] = None => key'[t] = None)
        BY <1>1, Kinds DEF Entries
    <2>3. \A t \in Tables : val'[t] \in Storable /\ (val'[t] = None => key'[t] = None)
        BY <2>2 DEF Entries, Storable
    <2>4. \A o \in Obj \ alive : val'[o] = None
        BY <1>1 DEF Entries
    <2>5. \A o \in Closures \cup Udata \cup Protos \cup UpVals \cup Strings \cup Threads : val'[o] = val[o]
        BY <2>1, Kinds
    <2>6. Entries /\ UNCHANGED <<alive, stk>>
        BY <1>1
    <2> HIDE DEF HeapInv
    <2> QED BY <2>3, <2>4, <2>5, <2>6 DEF Entries
<1>13. Places'
    BY <1>1 DEF Places, Opened
<1>14. Kept'
    <2>1. Roots' = Roots /\ Elems(tmudata') = Elems(tmudata)
        BY <1>1 DEF Roots, Elems
    <2>2. ASSUME NEW o \in Fit'
          PROVE  AnyRefs(o)' \subseteq Fit'
        <3>1. o \in Obj /\ o \in alive
            BY <1>4, <1>7, <1>10, <2>2 DEF Fit
        <3>2. CASE o \in kept
            <4>1. o \in Strings /\ val'[o] = None
                BY <1>7, <1>12, <3>2 DEF Entries
            <4> QED BY <4>1, Refs DEF RefsAre
        <3>3. CASE o \in Shaded /\ o \in Tables
            <4>1. CASE o \in Cleared
                <5>1. val'[o] = None
                    BY <1>1, <3>1, <4>1
                <5> QED BY <3>3, <5>1, Refs DEF RefsAre
            <4>2. CASE o \notin Cleared
                <5>1. val'[o] = val[o] /\ key'[o] = key[o]
                    BY <1>1, <3>1, <4>2
                <5>2. AnyRefs(o)' = AnyRefs(o)
                    BY <3>3, <5>1, Refs DEF RefsAre
                <5>3. CASE o \in WeakTables
                    BY <1>3, <1>6, <1>10, <3>3, <4>2, <5>2, <5>3
                <5>4. CASE o \notin WeakTables
                    BY <1>3, <1>10, <3>1, <3>3, <5>2, <5>4, Refs DEF RefsAre
                <5> QED BY <5>3, <5>4
            <4> QED BY <4>1, <4>2
        <3>4. CASE o \in Shaded /\ o \notin Tables
            <4>1. \A q \in Obj \ Tables : val'[q] = val[q]
                BY <1>1, <1>5
            <4>2. UNCHANGED <<stk, at, running>>
                BY <1>1
            <4>3. AnyRefs(o)' = AnyRefs(o)
                BY <3>1, <3>4, <4>1, <4>2, Kinds DEF AnyRefs, Strong, Content, Stack
            <4>4. AnyRefs(o) = Strong(o)
                BY <3>4 DEF AnyRefs
            <4> QED BY <1>3, <1>10, <3>4, <4>3, <4>4
        <3> QED BY <1>10, <2>2, <3>2, <3>3, <3>4
    <2> QED BY <1>2, <1>3, <1>10, <2>1, <2>2 DEF Kept
<1>15. Tints'
    <2>1. \A o \in alive \ Strings : color'[o] = color[o]
        BY <1>7, <1>9
    <2>2. alive' = alive /\ at' = at
        BY <1>1
    <2> QED BY <1>2, <2>1, <2>2, Kinds DEF Tints, Opened
<1>16. SweepGoesOn'
    <2>1. ASSUME NEW o \in alive
          PROVE  \/ o \in unswept' \cup Elems(tmudata')
                 \/ o \in UpVals /\ Opened(o) /\ at[o][1] \in unswept'
        <3>1. CASE o \in unswept' \cup Elems(tmudata)
            BY <1>1, <3>1
        <3>2. CASE o \notin unswept' \cup Elems(tmudata)
            <4>1. o \in UpVals /\ Opened(o)
                BY <1>1, <3>2 DEF Opened
            <4>2. at[o][1] \in alive /\ at[o][1] \in Threads
                BY <4>1 DEF Places, HeapTyped, Opened
            <4>3. at[o][1] \notin UpVals /\ at[o][1] \notin Elems(tmudata)
                BY <4>2, Stored, Kinds DEF FinalsInv
            <4> QED BY <1>1, <4>1, <4>2, <4>3
        <3> QED BY <3>1, <3>2
    <2> QED BY <1>1, <1>2, <2>1 DEF SweepGoesOn, Opened
<1>17. Lists'
    BY <1>1, <1>2 DEF Lists, ListsDisjoint
<1>18. Traced' /\ Owned'
    BY <1>1, <1>2 DEF Traced, Owned
<1>19. Doomed'
    <2>1. ASSUME NEW o \in doomed
          PROVE  Dead(o)'
        <3>1. o \in alive /\ o \notin Shaded /\ o \notin kept
            BY <1>2, <1>7, <2>1 DEF Doomed, HeapTyped
        <3> QED BY <1>9, <3>1
    <2> QED BY <1>1, <1>2, <2>1 DEF Doomed, Opened
<1> QED BY <1>11, <1>12, <1>13, <1>14, <1>15, <1>16, <1>17, <1>18, <1>19

\* What is reached is the least set that holds S and what its members refer to.
LEMMA Reached ==
    ASSUME NEW S
    PROVE  LET R == Reach(S)
           IN  /\ S \cap alive \subseteq R /\ R \subseteq alive
               /\ \A o \in R : AnyRefs(o) \cap alive \subseteq R
               /\ \A X \in SUBSET alive :
                    S \cap alive \subseteq X /\ (\A p \in X : AnyRefs(p) \cap alive \subseteq X) => R \subseteq X
<1> DEFINE R == Reach(S)
           Holds(X) == S \cap alive \subseteq X /\ \A p \in X : AnyRefs(p) \cap alive \subseteq X
<1>1. R = {o \in alive : \A X \in SUBSET alive : Holds(X) => o \in X}
    BY DEF Reach
<1> HIDE DEF R
<1>2. S \cap alive \subseteq R /\ R \subseteq alive
    BY <1>1
<1>3. ASSUME NEW o \in R, NEW q \in AnyRefs(o) \cap alive
      PROVE  q \in R
    <2>1. ASSUME NEW X \in SUBSET alive, Holds(X)
          PROVE  q \in X
        <3>1. o \in X
            BY <1>1, <2>1
        <3> QED BY <1>3, <2>1, <3>1
    <2> HIDE DEF Holds
    <2> QED BY <1>1, <2>1
<1>4. ASSUME NEW X \in SUBSET alive, Holds(X)
      PROVE  R \subseteq X
    <2> HIDE DEF Holds
    <2> QED BY <1>1, <1>4
<1> QED BY <1>2, <1>3, <1>4 DEF R

\* markroot: only the main thread is marked, and what cannot be reached any more is out of reach
\* for good.
LEMMA MarkrootKeepsHeap ==
    ASSUME HeapInv, FinalsInv, gcstate \in {"pause", "finalize"}, closing = "open",
           markroot, doomed' = OutOfReach, full' \in {"no", "finish", "collect"}, depth' \in Nat,
           UNCHANGED <<avail, alive, cw, unswept, heap, finals>>
    PROVE  HeapInv'
<1> USE DEF HeapInv, FinalsInv
<1>1. /\ ~Marking /\ ~Sweeping /\ Marking' /\ ~Sweeping' /\ ~InAtomic' /\ gcstate' = "propagate"
      /\ UNCHANGED <<at, running, tmudata, finalized>>
    BY DEF markroot, Marking, InAtomic, Sweeping, heap, finals
<1>2. /\ unswept = {} /\ doomed = {} /\ Fit = alive /\ alive \subseteq Obj /\ Main \in alive
      /\ \A o \in alive : color[o] = cw \/ o \in Elems(tmudata)
    <2>1. unswept = {} /\ doomed = {} /\ Fit = alive
        BY <1>1 DEF SweepGoesOn, Doomed, Tints, Fit
    <2>2. \A o \in alive : color[o] = cw \/ o \in Elems(tmudata)
        BY <1>1, <2>1 DEF SweepGoesOn
    <2>3. Main \in alive
        BY <2>1 DEF Kept, Roots
    <2> QED BY <2>1, <2>2, <2>3 DEF HeapTyped
<1>3. Elems(tmudata) \subseteq Udata /\ cw \in Whites
    BY Stored DEF FinalsTyped
<1> DEFINE M == Marked(color, {Main})
<1>4. M = {Main}
    <2>1. MarksFrom(M, color, {Main})
        BY MarkedObjects, Kinds DEF Value
    <2> HIDE DEF M
    <2>2. M \subseteq {Main}
        <3> DEFINE S == {Main}
        <3>1. S \cap UpVals = {} /\ S \cap Udata = {}
            BY Kinds
        <3>2. MarksFrom(M, color, S)
            BY <2>1
        <3> HIDE DEF S
        <3>3. M \subseteq S
            BY <3>1, <3>2 DEF MarksFrom
        <3> QED BY <3>3 DEF S
    <2>3. color[Main] = cw
        BY <1>2, <1>3, Kinds
    <2>4. Main \in M
        BY <1>3, <2>1, <2>3, Kinds DEF MarksFrom
    <2> QED BY <2>2, <2>4
<1>5. /\ gray' = {Main} /\ grayagain' = {} /\ weak' = {}
      /\ \A o \in Obj : color'[o] = IF o = Main THEN "gray" ELSE color[o]
    <2>1. gray' = Listed(M) /\ grayagain' = {} /\ weak' = {} /\ color' = Painted(color, M)
        BY DEF markroot
    <2>2. Listed(M) = {Main}
        BY <1>4, Kinds DEF Listed
    <2>3. \A o \in Obj : color'[o] = IF o = Main THEN "gray" ELSE color[o]
        <3>1. Main \notin Udata /\ Main \notin UpVals
            BY Kinds
        <3>2. \A o : o \in M <=> o = Main
            BY <1>4
        <3> HIDE DEF M
        <3> QED BY <2>1, <3>1, <3>2, PaintedObjects
    <2> QED BY <2>1, <2>2, <2>3
<1> HIDE DEF M
<1>6. \A o \in alive : color'[o] = IF o = Main THEN "gray" ELSE IF o \in Elems(tmudata) THEN color[o] ELSE cw
    BY <1>2, <1>5
<1>7. Main \in Shaded' /\ \A o \in Shaded' : o = Main \/ o \in Elems(tmudata)
    <2>1. alive' = alive /\ "gray" \notin Whites
        BY DEF Whites
    <2> QED BY <1>2, <1>3, <1>6, <2>1 DEF Shaded, White
<1>8. \A o \in alive : ~Dead(o)'
    <2>1. OtherWhite' = OtherWhite /\ OtherWhite # "gray" /\ OtherWhite # cw
        BY <1>3 DEF OtherWhite, Whites
    <2>2. \A o \in alive : color[o] # OtherWhite
        BY <1>1 DEF Tints, Dead
    <2> QED BY <1>2, <1>5, <2>1, <2>2 DEF Dead
<1> DEFINE R == Reach(MayStay)
<1>9. /\ MayStay \cap alive \subseteq R /\ R \subseteq alive
      /\ \A o \in R : AnyRefs(o) \cap alive \subseteq R
    BY Reached
<1>10. doomed' = alive \ (R \cup OpenOf(R))
    BY DEF OutOfReach
<1> HIDE DEF R
<1>11. Fit' = R \cup OpenOf(R)
    <2>1. Fit' = alive \ doomed'
        BY <1>8 DEF Fit
    <2>2. OpenOf(R) \subseteq alive
        BY DEF OpenOf
    <2> QED BY <1>9, <1>10, <2>1, <2>2
<1>12. HeapTyped' /\ Entries' /\ Places'
    <2>1. doomed' \subseteq alive
        BY <1>10
    <2>2. HeapTyped
        OBVIOUS
    <2> QED BY <1>1, <1>2, <2>1, <2>2, HeapRests DEF HeapTyped
<1>13. Kept'
    <2>1. Roots' = Roots /\ Elems(tmudata') = Elems(tmudata) /\ \A o : AnyRefs(o)' = AnyRefs(o)
        BY <1>1, RefsRest
    <2>2. Roots \cup Elems(tmudata) \subseteq MayStay \cap alive
        BY <1>2 DEF Kept, MayStay
    <2>3. \A o \in alive : AnyRefs(o) \subseteq alive
        BY <1>1 DEF Kept
    <2>4. \A o \in R : AnyRefs(o) \subseteq R
        BY <1>9, <2>3
    <2>5. ASSUME NEW v \in OpenOf(R)
          PROVE  AnyRefs(v) \subseteq R
        <3>1. v \in UpVals /\ at[v] # <<>> /\ at[v][1] \in R
            BY DEF OpenOf
        <3>2. at[v][1] \in Threads /\ at[v][2] \in 1..Slots
            BY <3>1 DEF HeapTyped
        <3>3. Content(v) \in Stack(at[v][1])
            BY <3>1, <3>2 DEF Content, Stack
        <3>4. AnyRefs(v) \subseteq AnyRefs(at[v][1])
            BY <3>1, <3>2, <3>3, Refs DEF RefsAre
        <3> QED BY <2>4, <3>1, <3>4
    <2> QED BY <1>1, <1>9, <1>11, <2>1, <2>2, <2>3, <2>4, <2>5 DEF Kept
<1>14. Tints'
    <2>1. alive' = alive /\ at' = at
        BY <1>1
    <2>2. \A u \in alive \cap Udata : color'[u] # "gray"
        BY <1>1, <1>2, <1>5, Kinds DEF Tints
    <2>3. \A o \in alive \cap (Threads \cup WeakTables) : color'[o] # "black"
        BY <1>1, <1>2, <1>5, Kinds DEF Tints
    <2>4. \A v \in alive \cap UpVals : color'[v] = cw
        BY <1>3, <1>6, Kinds
    <2>5. cw # "gray" /\ cw # "black"
        BY <1>3 DEF Whites
    <2> QED BY <1>8, <2>1, <2>2, <2>3, <2>4, <2>5 DEF Tints, Opened
<1>15. SweepGoesOn' /\ Lists'
    <2>1. SweepGoesOn'
        BY <1>1 DEF SweepGoesOn
    <2>2. ASSUME NEW o \in Listable \cap alive, color'[o] = "gray"
          PROVE  o = Main
        <3>1. o \notin Elems(tmudata) /\ cw # "gray"
            BY <1>3, Kinds DEF Listable, Whites
        <3> QED BY <1>6, <2>2, <3>1
    <2>3. Main \in Listable /\ Main \notin WeakTables /\ color'[Main] = "gray"
        BY <1>5, Kinds DEF Listable
    <2>4. alive' = alive
        OBVIOUS
    <2>5. Lists'
        BY <1>1, <1>2, <1>5, <2>2, <2>3, <2>4 DEF Lists, ListsDisjoint
    <2> QED BY <2>1, <2>5
<1>16. Traced'
    <2>1. ASSUME NEW o, Done(o)'
          PROVE  FALSE
        <3>1. o \in Elems(tmudata)
            BY <1>5, <1>7, <2>1 DEF Done
        <3>2. o \notin Elems(tmudata')
            BY <1>1, <1>3, <1>5, <2>1, <3>1, Kinds DEF Done
        <3> QED BY <1>1, <3>1, <3>2
    <2> QED BY <1>7, <2>1 DEF Traced
<1>17. Owned'
    BY <1>3, <1>7, Kinds DEF Owned
<1>18. Doomed'
    <2>1. doomed' \cap MayStay = {} /\ doomed' \cap R = {}
        BY <1>9, <1>10
    <2>2. doomed' \cap (Strings \cup (HasGC \ finalized')) = {}
        BY <1>1, <2>1 DEF MayStay
    <2>3. \A v \in UpVals \cap doomed' : Opened(v)' => at'[v][1] \in doomed'
        <3> SUFFICES ASSUME NEW v \in UpVals \cap doomed', Opened(v)
                     PROVE  at[v][1] \in doomed'
            BY <1>1 DEF Opened
        <3>1. at[v][1] \in alive /\ at[v][1] \in Threads
            BY DEF Places, HeapTyped, Opened
        <3>2. at[v][1] \notin R
            BY <1>10 DEF OpenOf, Opened
        <3>3. at[v][1] \notin OpenOf(R)
            BY <3>1, Kinds DEF OpenOf
        <3> QED BY <1>10, <3>1, <3>2, <3>3
    <2>4. doomed' \cap Shaded' = {}
        BY <1>7, <2>1 DEF MayStay, Roots
    <2> QED BY <1>1, <2>2, <2>3, <2>4 DEF Doomed
<1> QED BY <1>12, <1>13, <1>14, <1>15, <1>16, <1>17, <1>18

\* The steps that only go on: EndCycle, FullEnds, the end of the sweep of the strings.
LEMMA TurnsKeepHeap ==
    ASSUME HeapInv,
           UNCHANGED <<avail, alive, color, cw, unswept, heap, running, gray, grayagain, weak, tmudata, finalized, doomed>>,
           full' \in {"no", "finish", "collect"}, depth' \in Nat,
           \/ gcstate' = gcstate
           \/ gcstate = "finalize" /\ gcstate' = "pause"
           \/ gcstate = "sweepstring" /\ gcstate' = "sweep" /\ unswept \cap Strings = {}
    PROVE  HeapInv'
<1> USE DEF HeapInv
<1>1. HeapTyped' /\ Entries' /\ Places'
    <2>1. HeapTyped /\ Places
        OBVIOUS
    <2> QED BY <2>1, HeapRests DEF HeapTyped, Places
<1>2. /\ Fit' = Fit /\ Shaded' = Shaded /\ (Sweeping' <=> Sweeping) /\ (Marking' <=> Marking) /\ (InAtomic' <=> InAtomic)
      /\ UNCHANGED at
    BY DEF Fit, Dead, OtherWhite, Shaded, White, Sweeping, Marking, InAtomic, heap
<1>3. Kept'
    <2>1. Roots' = Roots /\ Elems(tmudata') = Elems(tmudata) /\ \A o : AnyRefs(o)' = AnyRefs(o)
        BY RefsRest
    <2> QED BY <1>2, <2>1 DEF Kept
<1>4. Tints'
    BY <1>2 DEF Tints, Dead, OtherWhite, Opened
<1>5. SweepGoesOn'
    BY <1>2 DEF SweepGoesOn, Opened, Elems
<1>6. Lists'
    BY <1>2 DEF Lists, ListsDisjoint
<1>7. Traced'
    <2>1. \A o : Strong(o)' = Strong(o)
        BY RefsRest
    <2>2. \A o : Marking /\ Done(o)' => Done(o)
        BY <1>2 DEF Done, Marking, InAtomic
    <2> QED BY <1>2, <2>1, <2>2 DEF Traced
<1>8. Owned'
    <2>1. gcstate' = "propagate" => gcstate = "propagate" /\ val' = val
        BY DEF heap
    <2> QED BY <1>2, <2>1 DEF Owned
<1>9. Doomed'
    BY <1>2 DEF Doomed, Dead, OtherWhite, Opened
<1> QED BY <1>1, <1>3, <1>4, <1>5, <1>6, <1>7, <1>8, <1>9

\* The end of the sweep: nothing is condemned any more.
LEMMA SweptKeepsHeap ==
    ASSUME HeapInv, FinalsInv, closing = "open", gcstate = "sweep", gcstate' = "finalize", unswept = {},
           UNCHANGED <<avail, alive, cw, unswept, heap, marks, finals, full, depth, doomed>>
    PROVE  HeapInv'
<1> USE DEF HeapInv, FinalsInv
<1>1. /\ ~Marking /\ ~Marking' /\ ~Sweeping' /\ Sweeping
      /\ UNCHANGED <<at, color, gray, grayagain, weak, tmudata, running, finalized, val>>
    BY DEF Sweeping, Marking, InAtomic, heap, marks, finals
<1>2. \A o \in alive : ~Dead(o) /\ ~Dead(o)'
    <2>1. \A o \in alive : color[o] = cw \/ o \in Elems(tmudata)
        BY <1>1 DEF SweepGoesOn
    <2>2. \A o \in Elems(tmudata) : ~Dead(o)
        BY DEF Spared, Waiting
    <2>3. OtherWhite # cw
        BY DEF OtherWhite, FinalsTyped, Whites
    <2> QED BY <1>1, <2>1, <2>2, <2>3 DEF Dead, OtherWhite
<1>3. doomed = {} /\ Fit = alive /\ Fit' = alive
    <2>1. doomed = {}
        BY <1>1, <1>2 DEF Doomed, HeapTyped
    <2> QED BY <1>2, <2>1 DEF Fit
<1>4. HeapTyped' /\ Entries' /\ Places'
    <2>1. HeapTyped
        OBVIOUS
    <2> QED BY <2>1, <1>1, HeapRests DEF HeapTyped
<1>5. Kept'
    <2>1. Roots' = Roots /\ Elems(tmudata') = Elems(tmudata) /\ \A o : AnyRefs(o)' = AnyRefs(o)
        BY <1>1, RefsRest
    <2> QED BY <1>3, <2>1 DEF Kept
<1>6. Tints'
    BY <1>1, <1>2 DEF Tints, Opened
<1>7. SweepGoesOn'
    BY <1>1 DEF SweepGoesOn, Opened
<1>8. Lists'
    BY <1>1 DEF Lists, ListsDisjoint
<1>9. Traced' /\ Owned' /\ Doomed'
    BY <1>1, <1>3 DEF Traced, Owned, Doomed
<1> QED BY <1>4, <1>5, <1>6, <1>7, <1>8, <1>9

\* A finalizer returns: its userdata leaves the stack.
LEMMA ReturnKeepsHeap ==
    ASSUME HeapInv, FinalsTyped, FinalizerReturns
    PROVE  HeapInv'
<1> USE DEF HeapInv
<1>1. /\ running # <<>> /\ running' = SubSeq(running, 1, Len(running) - 1)
      /\ UNCHANGED <<avail, alive, cw, gcstate, unswept, heap, marks, udlist, tmudata, finalized, full, depth, doomed>>
      /\ UNCHANGED <<at, key, val, stk, color, gray, grayagain, weak>>
    BY DEF FinalizerReturns, heap, marks
<1>2. running' \in Seq(Udata) /\ Elems(running') \subseteq Elems(running)
    <2>1. running \in Seq(Udata)
        BY DEF HeapTyped
    <2>2. running' \in Seq(Udata) /\ \A i \in DOMAIN running' : i \in DOMAIN running /\ running'[i] = running[i]
        BY <1>1, <2>1
    <2> QED BY <2>2 DEF Elems
<1>3. HeapTyped' /\ Entries' /\ Places'
    <2>1. HeapTyped /\ Places
        OBVIOUS
    <2> QED BY <1>1, <1>2, <2>1, HeapRests DEF HeapTyped, Places
<1>4. /\ Fit' = Fit /\ Shaded' = Shaded /\ (Sweeping' <=> Sweeping) /\ (Marking' <=> Marking)
    BY <1>1 DEF Fit, Dead, OtherWhite, Shaded, White, Sweeping, Marking, InAtomic
<1>5. \A o : AnyRefs(o)' \subseteq AnyRefs(o) /\ Strong(o)' \subseteq Strong(o)
    <2>1. \A o : Stack(o)' = Stack(o) /\ Content(o)' = Content(o)
        BY <1>1 DEF Stack, Content
    <2>2. \A o : Strong(o)' \subseteq Strong(o)
        BY <1>1, <1>2, <2>1 DEF Strong, Collectable
    <2> QED BY <1>1, <2>2 DEF AnyRefs, Collectable
<1>6. Kept'
    <2>1. Roots' \subseteq Roots
        BY <1>2 DEF Roots
    <2>2. Elems(tmudata') = Elems(tmudata)
        BY <1>1
    <2> QED BY <1>1, <1>4, <1>5, <2>1, <2>2 DEF Kept
<1>7. Tints' /\ SweepGoesOn'
    BY <1>1, <1>4 DEF Tints, SweepGoesOn, Dead, OtherWhite, Opened, Elems
<1>8. Lists' /\ Owned'
    BY <1>1, <1>4 DEF Lists, ListsDisjoint, Owned
<1>9. Traced'
    <2>1. \A o : Done(o)' => Done(o)
        BY <1>1, <1>4 DEF Done, InAtomic, Elems
    <2> QED BY <1>4, <1>5, <2>1 DEF Traced
<1>10. Doomed'
    BY <1>1, <1>4 DEF Doomed, Dead, OtherWhite, Opened
<1> QED BY <1>3, <1>6, <1>7, <1>8, <1>9, <1>10

\* A finalizer is called: its userdata goes from tmudata to the stack.
LEMMA GCTMKeepsHeap ==
    ASSUME HeapInv, FinalsInv, closing = "open", GCTM
    PROVE  HeapInv'
<1> USE DEF HeapInv, FinalsInv
<1>0. PICK u : u = Head(tmudata)
    OBVIOUS
<1>1. /\ tmudata # <<>> /\ tmudata' = Tail(tmudata) /\ running' = Append(running, u) /\ color' = [color EXCEPT ![u] = cw]
      /\ gcstate = "finalize"
      /\ UNCHANGED <<avail, alive, cw, gcstate, unswept, heap, gray, grayagain, weak, finalized, full, depth, doomed>>
      /\ UNCHANGED <<at, key, val, stk>>
    BY <1>0 DEF GCTM, heap
<1>2. u \in Elems(tmudata) /\ Elems(tmudata') = Elems(tmudata) \ {u} /\ u \in Udata
    <2>1. u = tmudata[1] /\ 1 \in DOMAIN tmudata /\ Elems(tmudata') = Elems(tmudata) \ {u}
        BY <1>0, <1>1, FirstWaiting DEF FinalsTyped
    <2> QED BY <2>1, Stored DEF Elems
<1>3. running' \in Seq(Udata) /\ Elems(running') = Elems(running) \cup {u}
    <2>1. running \in Seq(Udata)
        BY DEF HeapTyped
    <2>2. /\ running' \in Seq(Udata) /\ Len(running) \in Nat /\ DOMAIN running' = 1..(Len(running) + 1)
          /\ DOMAIN running = 1..Len(running)
          /\ running'[Len(running) + 1] = u /\ \A i \in DOMAIN running : running'[i] = running[i]
        BY <1>1, <1>2, <2>1
    <2>3. \A x \in Elems(running') : x = u \/ x \in Elems(running)
        BY <2>2 DEF Elems
    <2>4. \A x \in Elems(running) : x \in Elems(running')
        BY <2>2 DEF Elems
    <2>5. u \in Elems(running')
        BY <2>2 DEF Elems
    <2> QED BY <2>2, <2>3, <2>4, <2>5
<1>4. ~Marking /\ ~Sweeping /\ ~Marking' /\ ~Sweeping' /\ unswept = {} /\ doomed = {} /\ Fit = alive /\ alive \subseteq Obj
    <2>1. ~Marking /\ ~Sweeping /\ ~Marking' /\ ~Sweeping'
        BY <1>1 DEF Marking, Sweeping, InAtomic
    <2>2. doomed = {} /\ unswept = {}
        BY <2>1 DEF Doomed, SweepGoesOn
    <2> QED BY <2>1, <2>2 DEF Tints, Fit, HeapTyped
<1>5. \A o \in alive : color'[o] = IF o = u THEN cw ELSE color[o]
    BY <1>1, <1>4 DEF FinalsTyped
<1>6. \A o \in alive : ~Dead(o)'
    <2>1. OtherWhite' = OtherWhite /\ OtherWhite # cw
        BY <1>1 DEF OtherWhite, FinalsTyped, Whites
    <2> QED BY <1>4, <1>5, <2>1 DEF Tints, Dead
<1>7. Fit' = alive
    BY <1>1, <1>4, <1>6 DEF Fit
<1>8. HeapTyped' /\ Entries' /\ Places'
    <2>1. HeapTyped /\ Places
        OBVIOUS
    <2> QED BY <1>1, <1>3, <2>1, HeapRests DEF HeapTyped, Places
<1>9. Kept'
    <2>1. \A o : AnyRefs(o)' \subseteq AnyRefs(o) \cup {u}
        <3>1. \A o : Stack(o)' = Stack(o) /\ Content(o)' = Content(o)
            BY <1>1 DEF Stack, Content
        <3>2. \A o : Strong(o)' \subseteq Strong(o) \cup {u}
            BY <1>1, <1>3, <3>1 DEF Strong, Collectable
        <3> QED BY <1>1, <3>2 DEF AnyRefs, Collectable
    <2>2. Roots' \cup Elems(tmudata') = Roots \cup Elems(tmudata)
        BY <1>2, <1>3 DEF Roots
    <2>3. u \in alive
        BY <1>2, <1>4 DEF Kept
    <2> QED BY <1>1, <1>4, <1>7, <2>1, <2>2, <2>3 DEF Kept
<1>10. Tints'
    <2>1. cw # "gray" /\ cw # "black"
        BY DEF FinalsTyped, Whites
    <2>2. alive' = alive /\ at' = at
        BY <1>1
    <2> QED BY <1>4, <1>5, <1>6, <2>1, <2>2 DEF Tints, Opened
<1>11. SweepGoesOn'
    <2>1. \A o \in alive : color'[o] = cw \/ o \in Elems(tmudata')
        BY <1>2, <1>4, <1>5 DEF SweepGoesOn
    <2> QED BY <1>1, <1>4, <2>1 DEF SweepGoesOn
<1>12. Lists'
    BY <1>1, <1>4 DEF Lists, ListsDisjoint
<1>13. Traced' /\ Owned' /\ Doomed'
    BY <1>1, <1>4 DEF Traced, Owned, Doomed, Marking
<1> QED BY <1>8, <1>9, <1>10, <1>11, <1>12, <1>13

\* A full collection begins: a cycle that has only marked is given up, and all is swept (luaC_fullgc).
LEMMA FullGCKeepsHeap ==
    ASSUME HeapInv, FinalsInv, closing = "open", FullGC
    PROVE  HeapInv'
<1> USE DEF HeapInv, FinalsInv
<1>1. /\ full' = "finish" /\ depth' = Len(running) /\ ~InAtomic
      /\ UNCHANGED <<avail, alive, cw, heap, color, finals, closing>>
      /\ UNCHANGED <<at, key, val, running, tmudata, finalized>>
    BY DEF FullGC, heap, finals
<1>2. depth' \in Nat
    BY <1>1 DEF HeapTyped
<1>3. CASE gcstate \notin {"pause", "propagate"}
    <2>1. UNCHANGED <<unswept, gray, grayagain, weak, gcstate, doomed>>
        BY <1>3 DEF FullGC
    <2> QED BY <1>1, <1>2, <2>1, TurnsKeepHeap
<1>4. CASE gcstate \in {"pause", "propagate"}
    <2>1. /\ unswept' = alive \ (Elems(tmudata) \cup {v \in UpVals : at[v] # <<>>})
          /\ gray' = {} /\ grayagain' = {} /\ weak' = {} /\ gcstate' = "sweepstring" /\ doomed' = {}
        BY <1>4 DEF FullGC
    <2>2. ~Sweeping /\ Sweeping' /\ ~Marking'
        BY <1>4, <2>1 DEF Sweeping, Marking, InAtomic
    <2>3. Fit' = alive
        <3>1. \A o \in alive : ~Dead(o)'
            BY <1>1, <2>2 DEF Tints, Dead, OtherWhite
        <3> QED BY <1>1, <2>1, <3>1 DEF Fit
    <2>4. HeapTyped' /\ Entries' /\ Places'
        <3>1. HeapTyped
            OBVIOUS
        <3>2. unswept' \subseteq alive /\ \A v \in UpVals : Opened(v) => v \notin unswept'
            BY <2>1 DEF Opened
        <3>3. running' \in Seq(Udata)
            BY <1>1, <3>1 DEF HeapTyped
        <3>4. UNCHANGED <<avail, alive, heap>> /\ doomed' \subseteq alive
            BY <1>1, <2>1
        <3> QED BY <1>1, <1>2, <2>1, <3>2, <3>3, <3>4, HeapRests
    <2>5. Kept'
        <3>1. Roots' = Roots /\ Elems(tmudata') = Elems(tmudata) /\ \A o : AnyRefs(o)' = AnyRefs(o)
            BY <1>1, RefsRest
        <3>2. Fit \subseteq alive /\ alive' = alive
            BY <1>1 DEF Fit
        <3> QED BY <2>2, <2>3, <3>1, <3>2 DEF Kept
    <2>6. Tints'
        BY <1>1, <2>2 DEF Tints, Opened
    <2>7. SweepGoesOn'
        <3>1. ASSUME NEW o \in alive
              PROVE  \/ o \in unswept' \cup Elems(tmudata')
                     \/ o \in UpVals /\ Opened(o) /\ at[o][1] \in unswept'
            <4>1. CASE o \in unswept' \cup Elems(tmudata)
                BY <1>1, <4>1
            <4>2. CASE o \notin unswept' \cup Elems(tmudata)
                <5>1. o \in UpVals /\ Opened(o)
                    BY <2>1, <4>2 DEF Opened
                <5>2. at[o][1] \in alive /\ at[o][1] \in Threads
                    BY <5>1 DEF Places, HeapTyped, Opened
                <5>3. at[o][1] \notin UpVals /\ at[o][1] \notin Elems(tmudata)
                    BY <5>2, Stored, Kinds
                <5> QED BY <2>1, <5>1, <5>2, <5>3
            <4> QED BY <4>1, <4>2
        <3> QED BY <1>1, <2>1, <2>2, <3>1 DEF SweepGoesOn, Opened
    <2>8. Lists' /\ Traced' /\ Owned' /\ Doomed'
        BY <2>1, <2>2 DEF Lists, ListsDisjoint, Traced, Owned, Doomed
    <2> QED BY <2>4, <2>5, <2>6, <2>7, <2>8
<1> QED BY <1>3, <1>4

------------------------------------------------------------------------------
(* The sweep *)

\* sweeplist visits an object, and with a thread its open upvalues; what is dead is freed.
LEMMA SweepKeepsHeap ==
    ASSUME HeapInv, FinalsInv, Sweeping, gcstate' = gcstate, NEW o \in unswept, Sweep(o)
    PROVE  HeapInv'
<1> USE DEF HeapInv
<1> DEFINE visited == {o} \cup OpenOf({o})
           F == {p \in visited : Dead(p)}
           orphan(v) == v \in UpVals \ F /\ at[v] # <<>> /\ at[v][1] \in F
<1>1. /\ alive' = alive \ F
      /\ val' = [p \in Obj |-> IF p \in F THEN None ELSE IF orphan(p) THEN Content(p) ELSE val[p]]
      /\ key' = [p \in Obj |-> IF p \in F THEN None ELSE key[p]]
      /\ stk' = [L \in Threads |-> IF L \in F THEN [i \in 1..Slots |-> None] ELSE stk[L]]
      /\ at' = [v \in UpVals |-> IF v \in F \/ orphan(v) THEN <<>> ELSE at[v]]
      /\ finalized' = finalized \ F /\ doomed' = doomed \ F
      /\ color' = [p \in Obj |-> IF p \in visited THEN cw ELSE color[p]]
      /\ unswept' = unswept \ {o}
      /\ UNCHANGED <<avail, cw, gray, grayagain, weak, tmudata, running, full, depth>>
    BY DEF Sweep, Free
<1>2. o \in alive /\ alive \subseteq Obj /\ ~Marking /\ ~Marking' /\ Sweeping' /\ o \in Obj
    <2>1. ~Marking /\ ~Marking' /\ Sweeping'
        BY DEF Sweeping, Marking, InAtomic
    <2> QED BY <2>1 DEF HeapTyped
<1>3. /\ \A p : p \in visited <=> p = o \/ (p \in UpVals /\ p \in alive /\ Opened(p) /\ at[p][1] = o)
      /\ \A p : p \in F <=> p \in visited /\ Dead(p)
    BY DEF OpenOf, Opened
<1>4. \A p : orphan(p) <=> p \in UpVals /\ p \notin F /\ Opened(p) /\ at[p][1] \in F
    BY DEF Opened
<1> HIDE DEF visited, F, orphan
<1>5. F \subseteq alive /\ F \cap Fit = {} /\ F \cap (unswept \ {o}) = {}
    BY <1>2, <1>3 DEF Fit, Places
<1>6. \A p \in F : p \in Threads => p = o
    BY <1>3, Kinds
<1>7. \A v : orphan(v) => v \in UpVals /\ at[v][1] = o /\ v \in visited /\ ~Dead(v)
    <2> SUFFICES ASSUME NEW v, orphan(v)
                 PROVE  v \in UpVals /\ at[v][1] = o /\ v \in visited /\ ~Dead(v)
        OBVIOUS
    <2>1. v \in UpVals /\ Opened(v) /\ at[v][1] \in F /\ v \notin F
        BY <1>4
    <2>2. v \in alive /\ at[v][1] \in Threads
        BY <2>1 DEF Places, HeapTyped, Opened
    <2> QED BY <1>3, <1>6, <2>1, <2>2
<1>8. cw \in Whites /\ OtherWhite' = OtherWhite /\ OtherWhite # cw
    BY <1>1 DEF FinalsInv, FinalsTyped, OtherWhite, Whites
<1>9. \A p \in alive' : color'[p] = IF p \in visited THEN cw ELSE color[p]
    BY <1>1, <1>2
<1>10. \A p \in alive' : Dead(p)' <=> Dead(p)
    BY <1>1, <1>3, <1>8, <1>9 DEF Dead
<1>11. Fit' = Fit
    BY <1>1, <1>5, <1>10 DEF Fit
<1>12. HeapTyped'
    <2>1. doomed' \subseteq alive' /\ unswept' \subseteq alive' /\ alive' \subseteq Obj
        BY <1>1, <1>2, <1>5 DEF HeapTyped
    <2>2. None \in Storable /\ None \in Value
        BY DEF Storable, Value
    <2>3. key' \in [Obj -> Storable \cup {Num}]
        BY <1>1, <2>2 DEF HeapTyped
    <2>4. val' \in [Obj -> Value]
        <3>1. \A p : orphan(p) => Content(p) \in Value
            BY <1>7, Stored DEF FinalsInv
        <3> QED BY <1>1, <2>2, <3>1 DEF HeapTyped
    <2>5. stk' \in [Threads -> [1..Slots -> Storable]]
        BY <1>1, <2>2 DEF HeapTyped
    <2>6. at' \in [UpVals -> {<<>>} \cup (Threads \X (1..Slots))]
        BY <1>1 DEF HeapTyped
    <2> QED BY <1>1, <2>1, <2>3, <2>4, <2>5, <2>6 DEF HeapTyped
<1>13. \A p \in Obj : val'[p] = IF p \in F THEN None ELSE IF orphan(p) THEN Content(p) ELSE val[p]
    BY <1>1
<1>14. Entries'
    <2>1. \A t \in Tables : val'[t] \in Storable /\ (val'[t] = None => key'[t] = None)
        <3>1. \A t \in Tables : t \in Obj /\ ~orphan(t)
            BY <1>7, Kinds
        <3>2. \A t \in Tables : key'[t] = IF t \in F THEN None ELSE key[t]
            BY <1>1, <3>1
        <3> QED BY <1>13, <3>1, <3>2 DEF Entries, Storable
    <2>2. \A v \in UpVals : val'[v] \in Storable
        BY <1>13, Stored, Kinds DEF Entries, Storable, FinalsInv
    <2>3. \A p \in Obj \ UpVals : val'[p] = IF p \in F THEN None ELSE val[p]
        BY <1>7, <1>13
    <2>4. \A c \in Closures : IF c \in alive' THEN val'[c] \in UpVals ELSE val'[c] = None
        BY <1>1, <2>3, Kinds DEF Entries
    <2>5. /\ \A u \in Udata : val'[u] \in Tables \cup {None}
          /\ \A p \in Protos : val'[p] \in Strings \cup Protos \cup {None}
          /\ \A p \in Strings \cup Threads : val'[p] = None
        BY <2>3, Kinds DEF Entries
    <2>6. \A p \in Obj \ alive' : val'[p] = None
        <3>1. \A p \in Obj \ alive : ~orphan(p)
            BY <1>2, <1>3, <1>7
        <3> QED BY <1>1, <1>13, <3>1 DEF Entries
    <2>7. \A T \in Threads \ alive', i \in 1..Slots : stk'[T][i] = None
        BY <1>1 DEF Entries
    <2> QED BY <2>1, <2>2, <2>4, <2>5, <2>6, <2>7 DEF Entries
<1>15. \A v \in UpVals : Opened(v)' => Opened(v) /\ at'[v] = at[v] /\ v \notin F /\ at[v][1] \notin F
    BY <1>1, <1>4 DEF Opened
<1>16. Places'
    BY <1>1, <1>15 DEF Places
<1>17. ASSUME NEW p \in Fit
       PROVE  AnyRefs(p)' = AnyRefs(p)
    <2>1. p \in Obj /\ p \notin F /\ p \in alive
        BY <1>2, <1>5 DEF Fit
    <2>2. CASE p \in UpVals
        <3>1. Content(p)' = Content(p)
            <4>1. CASE orphan(p)
                BY <1>1, <1>13, <2>1, <2>2, <4>1 DEF Content
            <4>2. CASE ~orphan(p) /\ Opened(p)
                <5>1. at'[p] = at[p] /\ at[p][1] \notin F /\ at[p][1] \in Threads
                    BY <1>1, <1>4, <2>1, <2>2, <4>2 DEF Opened, HeapTyped
                <5>2. stk'[at[p][1]] = stk[at[p][1]]
                    BY <1>1, <5>1
                <5> QED BY <4>2, <5>1, <5>2 DEF Content, Opened
            <4>3. CASE ~orphan(p) /\ ~Opened(p)
                BY <1>1, <1>13, <2>1, <2>2, <4>3 DEF Content, Opened
            <4> QED BY <4>1, <4>2, <4>3
        <3>2. AnyRefs(p) = {Content(p)} \ {None, Num}
            BY <2>2, Refs DEF RefsAre
        <3>3. AnyRefs(p)' = {Content(p)'} \ {None, Num}
            BY <2>2, Refs DEF RefsAre
        <3> QED BY <3>1, <3>2, <3>3
    <2>3. CASE p \in Threads
        <3>1. stk'[p] = stk[p] /\ running' = running
            BY <1>1, <2>1, <2>3
        <3>2. Stack(p)' = Stack(p)
            BY <3>1 DEF Stack
        <3> QED BY <3>1, <3>2, <2>3, Kinds DEF AnyRefs, Strong
    <2>4. CASE p \notin UpVals /\ p \notin Threads
        <3>1. val'[p] = val[p] /\ key'[p] = key[p]
            BY <1>1, <1>7, <1>13, <2>1, <2>4
        <3>2. CASE p \in Tables
            <4>1. /\ AnyRefs(p) = (IF val[p] = None THEN {} ELSE {key[p], val[p]} \ {None, Num})
                  /\ AnyRefs(p)' = (IF val'[p] = None THEN {} ELSE {key'[p], val'[p]} \ {None, Num})
                BY <3>2, Refs DEF RefsAre
            <4> QED BY <3>1, <4>1
        <3>3. CASE p \in Strings \cup Udata \cup Closures \cup Protos
            <4>1. AnyRefs(p) = {val[p]} \ {None, Num} /\ AnyRefs(p)' = {val'[p]} \ {None, Num}
                BY <3>3, Refs DEF RefsAre
            <4> QED BY <3>1, <4>1
        <3> QED BY <2>1, <2>4, <3>2, <3>3 DEF Obj
    <2> QED BY <2>2, <2>3, <2>4
<1>18. Kept'
    <2>1. Roots' = Roots /\ Elems(tmudata') = Elems(tmudata)
        BY <1>1 DEF Roots
    <2> QED BY <1>2, <1>11, <1>17, <2>1 DEF Kept
<1>19. Tints'
    <2>1. cw # "gray" /\ cw # "black"
        BY <1>8 DEF Whites
    <2> QED BY <1>1, <1>2, <1>9, <1>15, <2>1 DEF Tints
<1>20. SweepGoesOn'
    <2>1. ASSUME NEW p \in alive'
          PROVE  \/ color'[p] = cw' \/ p \in unswept' \cup Elems(tmudata')
                 \/ p \in UpVals /\ Opened(p)' /\ at'[p][1] \in unswept'
        <3>1. CASE p \in visited
            BY <1>1, <1>9, <3>1
        <3>2. CASE p \notin visited
            <4>1. color'[p] = color[p] /\ p \in alive /\ p # o
                BY <1>1, <1>3, <1>9, <3>2
            <4>2. CASE color[p] = cw \/ p \in unswept \cup Elems(tmudata)
                BY <1>1, <4>1, <4>2
            <4>3. CASE p \in UpVals /\ Opened(p) /\ at[p][1] \in unswept
                <5>1. at[p][1] # o
                    BY <1>3, <3>2, <4>1, <4>3
                <5>2. at'[p] = at[p]
                    BY <1>1, <1>7, <3>2, <4>1, <4>3
                <5> QED BY <1>1, <4>3, <5>1, <5>2 DEF Opened
            <4> QED BY <1>2, <4>1, <4>2, <4>3 DEF SweepGoesOn
        <3> QED BY <3>1, <3>2
    <2>2. gcstate' = "sweep" => unswept' \cap Strings = {}
        BY <1>1 DEF SweepGoesOn
    <2> QED BY <1>2, <2>1, <2>2 DEF SweepGoesOn
<1>21. Lists'
    BY <1>1, <1>2 DEF Lists, ListsDisjoint
<1>22. Traced' /\ Owned'
    BY <1>2 DEF Traced, Owned, Marking
<1>23. Doomed'
    <2>1. doomed' \cap (Strings \cup (HasGC \ finalized')) = {}
        BY <1>1 DEF Doomed
    <2>2. \A v \in UpVals \cap doomed' : Opened(v)' => at'[v][1] \in doomed'
        BY <1>1, <1>15 DEF Doomed
    <2>3. \A p \in doomed' : Dead(p)'
        BY <1>1, <1>10 DEF Doomed, HeapTyped
    <2> QED BY <1>2, <2>1, <2>2, <2>3 DEF Doomed
<1> QED BY <1>12, <1>14, <1>16, <1>18, <1>19, <1>20, <1>21, <1>22, <1>23

------------------------------------------------------------------------------
(* What Lua code does *)

\* A thread that runs lives, and so does what is on its stack.
LEMMA RunningLives ==
    ASSUME HeapInv, FinalsTyped, NEW L \in Threads, L = Main \/ L \in Stack(Main)
    PROVE  /\ L \in Fit /\ Stack(L) \subseteq Fit \cup {None} /\ Stack(L) \subseteq Storable
           /\ Elems(running) \subseteq Fit /\ Fit \subseteq alive /\ alive \subseteq Obj
<1> USE DEF HeapInv
<1>1. \A T \in Threads : T \in Fit => Stack(T) \subseteq Fit \cup {None}
    <2>1. \A T \in Threads : Stack(T) \subseteq Storable /\ Num \notin Storable
        BY Stored, Kinds DEF Storable, None, Num
    <2>2. \A T \in Threads : Stack(T) \ {None, Num} \subseteq AnyRefs(T)
        BY Refs DEF RefsAre
    <2> QED BY <2>1, <2>2 DEF Kept
<1>2. Main \in Fit /\ Elems(running) \subseteq Fit
    BY DEF Kept, Roots
<1>3. L \in Fit
    BY <1>1, <1>2, Kinds
<1> QED BY <1>1, <1>2, <1>3, Stored DEF Fit, HeapTyped

\* An upvalue refers to what it holds.
LEMMA SameContent ==
    ASSUME NEW v \in UpVals, Content(v)' = Content(v)
    PROVE  AnyRefs(v)' = AnyRefs(v) /\ Strong(v)' = Strong(v)
<1>1. AnyRefs(v) = {Content(v)} \ {None, Num} /\ Strong(v) = AnyRefs(v)
    BY Kinds DEF AnyRefs, Strong, Collectable
<1>2. AnyRefs(v)' = {Content(v)'} \ {None, Num} /\ Strong(v)' = AnyRefs(v)'
    BY Kinds DEF AnyRefs, Strong, Collectable
<1> QED BY <1>1, <1>2

\* A stack slot gets x.
LEMMA Pushed ==
    ASSUME HeapTyped, NEW T \in Threads, NEW i \in 1..Slots, NEW x, stk' = [stk EXCEPT ![T][i] = x],
           UNCHANGED <<key, val, at, running>>
    PROVE  /\ \A o \in Obj : AnyRefs(o)' \subseteq AnyRefs(o) \cup ({x} \ {None, Num})
           /\ \A o \in Obj : o \in Threads \/ (o \in UpVals /\ Opened(o)) \/ (AnyRefs(o)' = AnyRefs(o) /\ Strong(o)' = Strong(o))
           /\ \A o \in Obj : o = T \/ o \in UpVals \/ AnyRefs(o)' = AnyRefs(o)
<1>1. \A K \in Threads : \A j \in 1..Slots : stk'[K][j] = IF K = T /\ j = i THEN x ELSE stk[K][j]
    BY DEF HeapTyped
<1>2. \A K \in Threads : Stack(K)' \subseteq Stack(K) \cup {x} /\ (K = T \/ Stack(K)' = Stack(K))
    <2> SUFFICES ASSUME NEW K \in Threads
                 PROVE  Stack(K)' \subseteq Stack(K) \cup {x} /\ (K = T \/ Stack(K)' = Stack(K))
        OBVIOUS
    <2>1. \A j \in 1..Slots : stk'[K][j] \in {x, stk[K][j]} /\ (K = T \/ stk'[K][j] = stk[K][j])
        BY <1>1
    <2> QED BY <2>1 DEF Stack
<1>3. ASSUME NEW v \in UpVals
      PROVE  Content(v)' \in {x, Content(v)} /\ (~Opened(v) => Content(v)' = Content(v))
    <2>1. CASE Opened(v)
        <3>1. at[v][1] \in Threads /\ at[v][2] \in 1..Slots /\ at' = at
            BY <2>1 DEF HeapTyped, Opened
        <3>2. Content(v)' = stk'[at[v][1]][at[v][2]] /\ Content(v) = stk[at[v][1]][at[v][2]]
            BY <2>1, <3>1 DEF Content, Opened
        <3> QED BY <1>1, <2>1, <3>1, <3>2
    <2>2. CASE ~Opened(v)
        BY <2>2 DEF Content, Opened
    <2> QED BY <2>1, <2>2
<1>4. ASSUME NEW o \in Obj
      PROVE  /\ AnyRefs(o)' \subseteq AnyRefs(o) \cup ({x} \ {None, Num})
             /\ o \in Threads \/ (o \in UpVals /\ Opened(o)) \/ (AnyRefs(o)' = AnyRefs(o) /\ Strong(o)' = Strong(o))
             /\ o = T \/ o \in UpVals \/ AnyRefs(o)' = AnyRefs(o)
    <2>1. CASE o \in Threads
        <3>1. /\ AnyRefs(o) = (Stack(o) \cup IF o = Main THEN Elems(running) ELSE {}) \ {None, Num}
              /\ AnyRefs(o)' = (Stack(o)' \cup IF o = Main THEN Elems(running) ELSE {}) \ {None, Num}
            BY <2>1, Kinds DEF AnyRefs, Strong, Collectable
        <3> QED BY <1>2, <2>1, <3>1
    <2>2. CASE o \in UpVals
        <3>1. /\ AnyRefs(o) = {Content(o)} \ {None, Num} /\ AnyRefs(o)' = {Content(o)'} \ {None, Num}
              /\ Strong(o) = AnyRefs(o) /\ Strong(o)' = AnyRefs(o)'
            BY <2>2, Kinds DEF AnyRefs, Strong, Collectable
        <3> QED BY <1>3, <2>2, <3>1
    <2>3. CASE o \notin Threads \cup UpVals
        BY <2>3 DEF AnyRefs, Strong, Collectable
    <2> QED BY <2>1, <2>2, <2>3
<1> QED BY <1>4

\* The objects N are made, or dead strings and upvalues used again; nothing else changes its mark.
LEMMA MakesKeep ==
    ASSUME HeapInv, FinalsInv, ~InAtomic, NEW N, N \subseteq Obj, alive' = alive \cup N, N \cap doomed = {},
           \A o \in Obj : color'[o] = IF o \in N /\ (o \notin alive \/ Dead(o)) THEN cw ELSE color[o],
           UNCHANGED <<gcstate, cw, unswept, gray, grayagain, weak, tmudata, finalized, running, doomed>>,
           \A v \in UpVals : IF v \in N /\ v \notin alive THEN Opened(v)' ELSE at'[v] = at[v],
           \A c \in Closures \cap alive : val'[c] = val[c],
           \A o \in alive : o \in Threads \/ (o \in UpVals /\ Opened(o)) \/ Strong(o)' = Strong(o),
           \A o \in alive : AnyRefs(o)' \subseteq AnyRefs(o) \cup Fit \cup N,
           \A o \in N : AnyRefs(o)' \subseteq Fit \cup N
    PROVE  Kept' /\ Tints' /\ SweepGoesOn' /\ Lists' /\ Traced' /\ Owned' /\ Doomed'
<1> USE DEF HeapInv
<1>1. alive \subseteq Obj /\ unswept \subseteq alive /\ doomed \subseteq alive
    BY DEF HeapTyped
<1>2. cw \in Whites /\ OtherWhite' = OtherWhite /\ OtherWhite # cw /\ "gray" \notin Whites /\ "black" \notin Whites
    BY DEF FinalsInv, FinalsTyped, OtherWhite, Whites
<1>3. (Marking' <=> Marking) /\ (Sweeping' <=> Sweeping) /\ ~InAtomic' /\ ~(Marking /\ Sweeping)
    BY DEF Marking, Sweeping, InAtomic
<1>4. \A o \in alive' : Dead(o)' <=> Dead(o) /\ o \notin N /\ o \in alive
    BY <1>1, <1>2 DEF Dead
<1>5. Fit' = Fit \cup N
    BY <1>1, <1>4 DEF Fit
<1>6. Shaded' = Shaded
    <2>1. \A o \in alive' : White(o)' <=> White(o) \/ o \notin alive
        BY <1>1, <1>2 DEF White, Dead, OtherWhite, Whites
    <2> QED BY <2>1 DEF Shaded
<1>7. Kept'
    <2>1. Roots' = Roots /\ Elems(tmudata') = Elems(tmudata)
        BY DEF Roots
    <2>2. Fit \subseteq alive
        BY DEF Fit
    <2> QED BY <1>3, <1>5, <2>1, <2>2 DEF Kept
<1>8. Tints'
    <2>1. ~Sweeping' => \A o \in alive' : ~Dead(o)'
        BY <1>3, <1>4 DEF Tints
    <2>2. \A o \in alive' : color'[o] = cw \/ (o \in alive /\ color'[o] = color[o])
        BY <1>1
    <2>3. \A v \in UpVals : v \in alive => (Opened(v)' <=> Opened(v))
        BY DEF Opened
    <2> QED BY <1>2, <1>3, <2>1, <2>2, <2>3 DEF Tints
<1>9. SweepGoesOn'
    <2>1. ASSUME ~Marking, NEW o \in alive'
          PROVE  \/ color'[o] = cw \/ o \in unswept \cup Elems(tmudata)
                 \/ o \in UpVals /\ Opened(o)' /\ at'[o][1] \in unswept
        <3>1. CASE o \notin alive \/ Dead(o)
            <4>1. o \in N => color'[o] = cw
                BY <1>1, <2>1, <3>1
            <4>2. o \notin N => o \in alive /\ color'[o] = color[o]
                BY <1>1, <2>1
            <4>3. o \in UpVals /\ o \in alive => at'[o] = at[o]
                OBVIOUS
            <4> QED BY <2>1, <4>1, <4>2, <4>3 DEF SweepGoesOn, Opened
        <3>2. CASE o \in alive /\ ~Dead(o)
            <4>1. color'[o] = color[o] /\ (o \in UpVals => at'[o] = at[o])
                BY <1>1, <3>2
            <4> QED BY <2>1, <3>2, <4>1 DEF SweepGoesOn, Opened
        <3> QED BY <3>1, <3>2
    <2> QED BY <1>3, <2>1 DEF SweepGoesOn
<1>10. Lists'
    <2>1. ListsDisjoint'
        BY DEF Lists, ListsDisjoint
    <2>2. Marking => \A o \in alive : color'[o] = color[o]
        BY <1>1, <1>3 DEF Tints
    <2>3. \A o \in alive' : o \in alive \/ color'[o] = cw
        BY <1>1
    <2> QED BY <1>2, <1>3, <2>1, <2>2, <2>3 DEF Lists
<1>11. Traced'
    <2> SUFFICES ASSUME Marking
                 PROVE  Main \in Shaded' /\ \A o \in Obj : Done(o)' => Strong(o)' \subseteq Shaded'
        BY <1>3 DEF Traced
    <2>1. Main \in Shaded'
        BY <1>6 DEF Traced
    <2>2. ASSUME NEW o \in Obj, Done(o)'
          PROVE  Strong(o)' \subseteq Shaded'
        <3>1. o \in Shaded /\ o \in alive
            BY <1>6, <2>2 DEF Done, Shaded
        <3>2. color'[o] = color[o]
            BY <1>3, <2>2, <3>1 DEF Tints
        <3>3. color[o] = "black" /\ Done(o)
            BY <1>3, <2>2, <3>1, <3>2 DEF Done, InAtomic, Marking
        <3>4. Strong(o)' = Strong(o)
            BY <3>1, <3>3 DEF Tints
        <3> QED BY <1>6, <3>3, <3>4 DEF Traced
    <2> QED BY <2>1, <2>2
<1>12. Owned'
    <2> SUFFICES ASSUME gcstate = "propagate", NEW v \in UpVals \cap Shaded
                 PROVE  \E c \in Closures \cap alive' : val'[c] = v /\ color'[c] = "black"
        BY <1>6 DEF Owned
    <2>1. PICK c \in Closures \cap alive : val[c] = v /\ color[c] = "black"
        BY DEF Owned
    <2>2. ~Dead(c)
        BY <1>2, <2>1 DEF Dead, OtherWhite, Whites
    <2> QED BY <1>1, <2>1, <2>2
<1>13. Doomed'
    <2>1. doomed \cap (Strings \cup (HasGC \ finalized')) = {}
        BY DEF Doomed
    <2>2. \A v \in UpVals \cap doomed : Opened(v)' => at'[v][1] \in doomed
        BY <1>1 DEF Doomed, Opened
    <2>3. Sweeping => \A o \in doomed : Dead(o)'
        BY <1>1, <1>4 DEF Doomed
    <2> QED BY <1>3, <1>6, <2>1, <2>2, <2>3 DEF Doomed
<1> QED BY <1>7, <1>8, <1>9, <1>10, <1>11, <1>12, <1>13

\* What is free refers to nothing.
LEMMA FreeRefers ==
    ASSUME HeapInv
    PROVE  \A o \in Obj \ alive : AnyRefs(o) = {}
<1> USE DEF HeapInv
<1> SUFFICES ASSUME NEW o \in Obj \ alive
             PROVE  AnyRefs(o) = {}
    OBVIOUS
<1>1. val[o] = None
    BY DEF Entries
<1>2. CASE o \in UpVals
    <2>1. at[o] = <<>>
        BY <1>2 DEF Places, Opened
    <2> QED BY <1>1, <1>2, <2>1, Refs DEF RefsAre, Content
<1>3. CASE o \in Threads
    <2>1. o # Main
        BY DEF Kept, Roots, Fit
    <2>2. Stack(o) \subseteq {None}
        BY <1>3 DEF Entries, Stack
    <2> QED BY <1>3, <2>1, <2>2, Refs DEF RefsAre
<1> QED BY <1>1, <1>2, <1>3, Refs, Kinds DEF RefsAre

\* The types when only a stack slot changes, and objects may be made.
LEMMA PushedTypes ==
    ASSUME HeapInv, NEW T \in Threads \cap alive, NEW i \in 1..Slots, NEW x \in Storable,
           stk' = [stk EXCEPT ![T][i] = x], NEW N, N \subseteq Obj, N \cap Closures \subseteq alive, alive' = alive \cup N,
           UNCHANGED <<avail, gcstate, key, val, at, unswept, running, full, depth, doomed>>
    PROVE  HeapTyped' /\ Entries' /\ Places'
<1> USE DEF HeapInv
<1>1. stk' \in [Threads -> [1..Slots -> Storable]]
    BY DEF HeapTyped
<1>2. HeapTyped'
    BY <1>1 DEF HeapTyped
<1>3. \A K \in Threads \ alive', j \in 1..Slots : stk'[K][j] = None
    BY DEF HeapTyped, Entries
<1>4. Entries'
    BY <1>3, Kinds DEF Entries
<1>5. Places'
    BY DEF Places, Opened
<1> QED BY <1>2, <1>4, <1>5

\* A new object, or a string that is used again, is put on the stack (luaC_link, luaS_newlstr).
LEMMA NewKeepsHeap ==
    ASSUME HeapInv, FinalsInv, ~InAtomic, NEW L \in Threads \cap alive, L = Main \/ L \in Stack(Main),
           NEW i \in 1..Slots, NEW o \in avail,
           NewObject(L, i, o) \/ NewUdata(L, i, o) \/ InternString(L, i, o)
    PROVE  HeapInv'
<1> USE DEF HeapInv
<1>1. /\ UNCHANGED <<avail, cw, gcstate, unswept, key, val, at, gray, grayagain, weak, tmudata, finalized, running, full, depth, doomed>>
      /\ alive' = alive \cup {o} /\ stk' = [stk EXCEPT ![L][i] = o]
      /\ o \in Tables \cup Protos \cup Threads \cup Udata \cup Strings
      /\ o \in Strings \/ o \notin alive
    BY DEF NewObject, NewUdata, InternString, Make, finals
<1>2. o \in Obj /\ o \in Storable /\ o \notin Closures \cup UpVals
    BY <1>1, Kinds DEF Storable
<1>3. \A p \in Obj : color'[p] = IF p \in {o} /\ (p \notin alive \/ Dead(p)) THEN cw ELSE color[p]
    BY <1>2 DEF NewObject, NewUdata, InternString, Make, FinalsInv, FinalsTyped
<1>4. o \notin doomed
    BY <1>1 DEF Doomed, HeapTyped
<1>5. HeapTyped' /\ Entries' /\ Places'
    BY <1>1, <1>2, PushedTypes
<1>6. /\ \A p \in Obj : AnyRefs(p)' \subseteq AnyRefs(p) \cup ({o} \ {None, Num})
      /\ \A p \in Obj : p \in Threads \/ (p \in UpVals /\ Opened(p)) \/ (AnyRefs(p)' = AnyRefs(p) /\ Strong(p)' = Strong(p))
      /\ \A p \in Obj : p = L \/ p \in UpVals \/ AnyRefs(p)' = AnyRefs(p)
    BY <1>1, Pushed
<1>7. AnyRefs(o)' = {}
    <2>1. o # L /\ o \notin UpVals
        BY <1>1, <1>2, Kinds
    <2>2. AnyRefs(o) = {}
        BY <1>1, <1>2, FreeRefers, Refs DEF RefsAre, Entries
    <2> QED BY <1>2, <1>6, <2>1, <2>2
<1>8. alive \subseteq Obj
    BY DEF HeapTyped
<1>9. Kept' /\ Tints' /\ SweepGoesOn' /\ Lists' /\ Traced' /\ Owned' /\ Doomed'
    <2>1. \A v \in UpVals : IF v \in {o} /\ v \notin alive THEN Opened(v)' ELSE at'[v] = at[v]
        BY <1>1, <1>2
    <2>2. \A p \in alive : p \in Threads \/ (p \in UpVals /\ Opened(p)) \/ Strong(p)' = Strong(p)
        BY <1>6, <1>8
    <2>3. \A p \in alive : AnyRefs(p)' \subseteq AnyRefs(p) \cup Fit \cup {o}
        BY <1>6, <1>8
    <2>4. \A p \in {o} : AnyRefs(p)' \subseteq Fit \cup {o}
        BY <1>7
    <2>5. {o} \subseteq Obj /\ {o} \cap doomed = {} /\ \A c \in Closures \cap alive : val'[c] = val[c]
        BY <1>1, <1>2, <1>4
    <2> QED BY <1>1, <1>3, <2>1, <2>2, <2>3, <2>4, <2>5, MakesKeep
<1> QED BY <1>5, <1>9

\* A value that lives is put on a stack (Load, Give).
LEMMA PushKeepsHeap ==
    ASSUME HeapInv, FinalsInv, ~InAtomic, NEW T \in Threads \cap alive, NEW i \in 1..Slots,
           NEW x \in Storable, x \in Fit \cup {None}, stk' = [stk EXCEPT ![T][i] = x],
           UNCHANGED <<avail, alive, cw, gcstate, unswept, key, val, at, marks, finals, full, depth, doomed>>
    PROVE  HeapInv'
<1> USE DEF HeapInv
<1>1. /\ UNCHANGED <<avail, cw, gcstate, unswept, key, val, at, gray, grayagain, weak, tmudata, finalized, running, full, depth, doomed, color>>
      /\ alive' = alive \cup {}
    BY DEF marks, finals
<1>2. HeapTyped' /\ Entries' /\ Places'
    <2>1. PICK N : N = {}
        OBVIOUS
    <2>2. N \subseteq Obj /\ N \cap Closures \subseteq alive /\ alive' = alive \cup N
        BY <1>1, <2>1
    <2> QED BY <1>1, <2>2, PushedTypes
<1>3. /\ \A p \in Obj : AnyRefs(p)' \subseteq AnyRefs(p) \cup ({x} \ {None, Num})
      /\ \A p \in Obj : p \in Threads \/ (p \in UpVals /\ Opened(p)) \/ (AnyRefs(p)' = AnyRefs(p) /\ Strong(p)' = Strong(p))
    BY <1>1, Pushed
<1>4. alive \subseteq Obj
    BY DEF HeapTyped
<1>5. Kept' /\ Tints' /\ SweepGoesOn' /\ Lists' /\ Traced' /\ Owned' /\ Doomed'
    <2>1. \A p \in alive : p \in Threads \/ (p \in UpVals /\ Opened(p)) \/ Strong(p)' = Strong(p)
        BY <1>3, <1>4
    <2>2. \A p \in alive : AnyRefs(p)' \subseteq AnyRefs(p) \cup Fit \cup {}
        BY <1>3, <1>4
    <2> QED BY <1>1, <2>1, <2>2, MakesKeep
<1> QED BY <1>2, <1>5

\* What Lua code can put on a stack lives.
LEMMA ReadsLive ==
    ASSUME HeapInv, FinalsTyped, NEW L \in Threads, L = Main \/ L \in Stack(Main), NEW x \in Reads(L)
    PROVE  x \in Storable /\ x \in Fit \cup {None}
<1> USE DEF HeapInv
<1>1. /\ Stack(L) \subseteq Fit \cup {None} /\ Stack(L) \subseteq Storable
      /\ Elems(running) \subseteq Fit /\ Elems(running) \subseteq Udata
      /\ \A o \in Fit : AnyRefs(o) \subseteq Fit
      /\ Fit \subseteq Obj /\ Num \notin Storable
    BY RunningLives, Stored, Kinds DEF Kept, Storable, None, Num
<1>2. Stack(L) \cap Obj \subseteq Fit
    BY <1>1, Kinds
<1>3. CASE x \in {None} \cup Elems(running) \cup Stack(L)
    BY <1>1, <1>3, Kinds DEF Storable
<1>4. CASE x \in UNION {Stack(T) : T \in Stack(L) \cap Threads}
    <2>1. PICK T \in Stack(L) \cap Threads : x \in Stack(T)
        BY <1>4
    <2>2. T \in Fit /\ Stack(T) \subseteq Storable /\ Stack(T) \ {None, Num} \subseteq AnyRefs(T)
        BY <1>2, Kinds, Stored, Refs DEF RefsAre
    <2> QED BY <1>1, <2>1, <2>2
<1>5. CASE x \in Collectable(UNION {{key[t], val[t]} : t \in Stack(L) \cap Tables})
    <2>1. PICK t \in Stack(L) \cap Tables : x \in {key[t], val[t]} /\ x \notin {None, Num}
        BY <1>5 DEF Collectable
    <2>2. t \in Fit /\ t \in Obj
        BY <1>2, Kinds
    <2>3. val[t] # None
        BY <2>1 DEF Entries
    <2>4. x \in AnyRefs(t)
        BY <2>1, <2>3, Refs DEF RefsAre
    <2>5. x \in Storable
        BY <2>1, <2>2 DEF Entries, HeapTyped
    <2> QED BY <1>1, <2>2, <2>4, <2>5
<1>6. CASE x \in {val[o] : o \in Stack(L) \cap (Udata \cup Protos)}
    <2>1. PICK o \in Stack(L) \cap (Udata \cup Protos) : x = val[o]
        BY <1>6
    <2>2. o \in Fit /\ val[o] \in Storable /\ AnyRefs(o) = {val[o]} \ {None, Num}
        BY <1>2, Kinds, Refs DEF RefsAre, Entries, Storable
    <2> QED BY <1>1, <2>1, <2>2
<1>7. CASE x \in {Content(val[c]) : c \in Stack(L) \cap Closures}
    <2>1. PICK c \in Stack(L) \cap Closures : x = Content(val[c])
        BY <1>7
    <2>2. c \in Fit /\ c \in alive
        BY <1>2, Kinds DEF Fit
    <2>3. val[c] \in UpVals /\ AnyRefs(c) = {val[c]} \ {None, Num}
        BY <2>2, Refs DEF RefsAre, Entries
    <2>4. val[c] \in Fit
        BY <1>1, <2>2, <2>3, Kinds
    <2>5. Content(val[c]) \in Storable /\ AnyRefs(val[c]) = {Content(val[c])} \ {None, Num}
        BY <2>3, Stored, Refs DEF RefsAre
    <2> QED BY <1>1, <2>1, <2>4, <2>5
<1> QED BY <1>3, <1>4, <1>5, <1>6, <1>7 DEF Reads

\* A closure and its upvalue, which may be an open one that is found again (luaF_findupval).
LEMMA NewClosureKeepsHeap ==
    ASSUME HeapInv, FinalsInv, ~InAtomic, NEW L \in Threads \cap alive, L = Main \/ L \in Stack(Main),
           NEW i \in 1..Slots, NEW c \in Closures, NEW j \in 1..Slots, NEW v \in UpVals, NewClosure(L, i, c, j, v)
    PROVE  HeapInv'
<1> USE DEF HeapInv
<1> DEFINE found == {u \in OpenOf({L}) : at[u] = <<L, j>>}
<1>1. /\ UNCHANGED <<avail, cw, gcstate, unswept, key, gray, grayagain, weak, tmudata, finalized, running, full, depth, doomed>>
      /\ alive' = alive \cup {c, v} /\ stk' = [stk EXCEPT ![L][i] = c] /\ at' = [at EXCEPT ![v] = <<L, j>>]
      /\ val' = [val EXCEPT ![c] = v]
      /\ color' = [color EXCEPT ![c] = cw, ![v] = IF found = {} \/ Dead(v) THEN cw ELSE @]
      /\ c \notin alive /\ IF found # {} THEN v \in found ELSE v \notin alive
    BY DEF NewClosure, finals
<1>2. \/ found # {} /\ v \in alive /\ Opened(v) /\ at[v] = <<L, j>> /\ v \notin unswept
      \/ found = {} /\ v \notin alive
    BY <1>1 DEF OpenOf, Opened, Places
<1> HIDE DEF found
<1>3. /\ c \in Obj /\ v \in Obj /\ c # v /\ c \in Storable /\ v \in Value /\ c \notin Threads \cup UpVals
      /\ v \notin Closures \cup Threads /\ alive \subseteq Obj /\ unswept \subseteq alive /\ doomed \subseteq alive
      /\ None \notin {c, v}
    BY Kinds DEF Storable, Value, HeapTyped
<1>4. L \in Fit /\ Stack(L) \subseteq Fit \cup {None} /\ Stack(L) \subseteq Storable
    BY RunningLives DEF FinalsInv
<1>5. {c, v} \cap doomed = {} /\ {c, v} \subseteq Obj
    <2>1. c \notin doomed
        BY <1>1, <1>3
    <2>2. v \notin doomed
        BY <1>2, <1>3, <1>4 DEF Doomed, Fit
    <2> QED BY <1>3, <2>1, <2>2
<1>6. \A p \in Obj : color'[p] = IF p \in {c, v} /\ (p \notin alive \/ Dead(p)) THEN cw ELSE color[p]
    <2>1. color \in [Obj -> Colours]
        BY DEF FinalsInv, FinalsTyped
    <2>2. color'[c] = cw /\ color'[v] = (IF found = {} \/ Dead(v) THEN cw ELSE color[v])
        BY <1>1, <1>3, <2>1
    <2>3. \A p \in Obj \ {c, v} : color'[p] = color[p]
        BY <1>1, <2>1
    <2> QED BY <1>1, <1>2, <2>2, <2>3
<1>7. /\ \A p \in Obj : val'[p] = IF p = c THEN v ELSE val[p]
      /\ \A u \in UpVals : at'[u] = IF u = v THEN <<L, j>> ELSE at[u]
      /\ \A K \in Threads : \A k \in 1..Slots : stk'[K][k] = IF K = L /\ k = i THEN c ELSE stk[K][k]
    BY <1>1 DEF HeapTyped
<1>8. HeapTyped'
    <2>1. alive' \subseteq Obj /\ unswept' \subseteq alive' /\ doomed' \subseteq alive'
        BY <1>1, <1>3
    <2>2. stk' \in [Threads -> [1..Slots -> Storable]]
        BY <1>1, <1>3 DEF HeapTyped
    <2>3. val' \in [Obj -> Value] /\ at' \in [UpVals -> {<<>>} \cup (Threads \X (1..Slots))]
        BY <1>1, <1>3 DEF HeapTyped
    <2> QED BY <1>1, <2>1, <2>2, <2>3 DEF HeapTyped
<1>9. Entries'
    <2>1. \A t \in Tables : val'[t] \in Storable /\ (val'[t] = None => key'[t] = None)
        BY <1>1, <1>7, Kinds DEF Entries
    <2>2. \A d \in Closures : IF d \in alive' THEN val'[d] \in UpVals ELSE val'[d] = None
        BY <1>1, <1>3, <1>7, Kinds DEF Entries
    <2>3. /\ \A u \in Udata : val'[u] \in Tables \cup {None}
          /\ \A p \in Protos : val'[p] \in Strings \cup Protos \cup {None}
          /\ \A u \in UpVals : val'[u] \in Storable
          /\ \A o \in Strings \cup Threads : val'[o] = None
        BY <1>7, Kinds DEF Entries
    <2>4. \A o \in Obj \ alive' : val'[o] = None
        BY <1>1, <1>7 DEF Entries
    <2>5. \A T \in Threads \ alive', k \in 1..Slots : stk'[T][k] = None
        BY <1>1, <1>7 DEF Entries
    <2> QED BY <2>1, <2>2, <2>3, <2>4, <2>5 DEF Entries
<1>10. Places'
    <2> SUFFICES ASSUME NEW u \in UpVals, Opened(u)'
                 PROVE  u \in alive' \ unswept' /\ at'[u][1] \in alive'
        BY DEF Places
    <2>1. CASE u = v
        BY <1>1, <1>2, <1>3, <1>7, <2>1
    <2>2. CASE u # v
        BY <1>1, <1>7, <2>2 DEF Places, Opened
    <2> QED BY <2>1, <2>2
<1>11. \A u \in UpVals : IF u \in {c, v} /\ u \notin alive THEN Opened(u)' ELSE at'[u] = at[u]
    BY <1>1, <1>2, <1>3, <1>7 DEF Opened
<1>12. ASSUME NEW p \in alive
       PROVE  /\ p \in Threads \/ (p \in UpVals /\ Opened(p)) \/ Strong(p)' = Strong(p)
              /\ AnyRefs(p)' \subseteq AnyRefs(p) \cup Fit \cup {c, v}
    <2>1. p \in Obj /\ p # c /\ val'[p] = val[p] /\ key' = key /\ running' = running
        BY <1>1, <1>3, <1>7
    <2>2. CASE p \in Threads
        <3>1. \A k \in 1..Slots : stk'[p][k] \in {c, stk[p][k]}
            BY <1>7, <2>2
        <3>2. Stack(p)' \subseteq Stack(p) \cup {c}
            BY <3>1 DEF Stack
        <3> QED BY <2>1, <2>2, <3>2, Kinds DEF AnyRefs, Strong, Collectable
    <2>3. CASE p \in UpVals /\ ~Opened(p)
        <3>1. Content(p)' = Content(p)
            BY <1>11, <2>1, <2>3 DEF Content, Opened
        <3> QED BY <2>3, <3>1, SameContent
    <2>4. CASE p \in UpVals /\ Opened(p)
        <3>1. at'[p] = at[p] /\ at[p][1] \in Threads /\ at[p][2] \in 1..Slots
            BY <1>11, <2>4 DEF HeapTyped, Opened
        <3>2. Content(p)' \in {c, Content(p)}
            BY <1>7, <2>4, <3>1 DEF Content, Opened
        <3>3. AnyRefs(p) = {Content(p)} \ {None, Num} /\ AnyRefs(p)' = {Content(p)'} \ {None, Num}
            BY <2>4, Refs DEF RefsAre
        <3> QED BY <2>4, <3>2, <3>3
    <2>5. CASE p \notin Threads \cup UpVals
        BY <2>1, <2>5 DEF AnyRefs, Strong, Collectable
    <2> QED BY <2>2, <2>3, <2>4, <2>5
<1>13. ASSUME NEW p \in {c, v}
       PROVE  AnyRefs(p)' \subseteq Fit \cup {c, v}
    <2>1. CASE p = c
        <3>1. AnyRefs(c)' = {val'[c]} \ {None, Num}
            BY Refs DEF RefsAre
        <3> QED BY <1>3, <1>7, <2>1, <3>1
    <2>2. CASE p = v
        <3>1. at'[v] = <<L, j>> /\ stk'[L][j] \in {c, stk[L][j]}
            BY <1>7
        <3>2. Content(v)' = stk'[L][j] /\ stk[L][j] \in Stack(L)
            BY <3>1 DEF Content, Stack
        <3>3. AnyRefs(v)' = {Content(v)'} \ {None, Num}
            BY Refs DEF RefsAre
        <3> QED BY <1>4, <2>2, <3>1, <3>2, <3>3
    <2> QED BY <2>1, <2>2
<1>14. \A d \in Closures \cap alive : val'[d] = val[d]
    BY <1>1, <1>3, <1>7
<1>15. Kept' /\ Tints' /\ SweepGoesOn' /\ Lists' /\ Traced' /\ Owned' /\ Doomed'
    BY <1>1, <1>5, <1>6, <1>11, <1>12, <1>13, <1>14, MakesKeep
<1> QED BY <1>8, <1>9, <1>10, <1>15

------------------------------------------------------------------------------
(* Upvalues that are closed *)

\* What a closed upvalue refers to is what it referred to when it was open.
LEMMA ClosedRefers ==
    ASSUME HeapInv, NEW V, V \subseteq UpVals, NEW F, F \subseteq V, UNCHANGED <<key, stk, running>>,
           \A o \in Obj : val'[o] = IF o \in F THEN None ELSE IF o \in V THEN Content(o) ELSE val[o],
           \A v \in UpVals : at'[v] = IF v \in V THEN <<>> ELSE at[v]
    PROVE  \A o \in Obj \ F : AnyRefs(o)' = AnyRefs(o) /\ Strong(o)' = Strong(o)
<1> USE DEF HeapInv
<1> SUFFICES ASSUME NEW o \in Obj \ F
             PROVE  AnyRefs(o)' = AnyRefs(o) /\ Strong(o)' = Strong(o)
    OBVIOUS
<1>1. CASE o \in UpVals
    <2>1. Content(o)' = Content(o)
        <3>1. CASE o \in V
            <4>1. at'[o] = <<>> /\ val'[o] = Content(o)
                BY <1>1, <3>1
            <4> QED BY <4>1 DEF Content
        <3>2. CASE o \notin V
            BY <1>1, <3>2 DEF Content
        <3> QED BY <3>1, <3>2
    <2> QED BY <1>1, <2>1, SameContent
<1>2. CASE o \in Threads
    BY <1>2, Kinds DEF AnyRefs, Strong, Collectable, Stack
<1>3. CASE o \notin UpVals \cup Threads
    <2>1. val'[o] = val[o] /\ key'[o] = key[o]
        BY <1>3
    <2> QED BY <1>3, <2>1 DEF AnyRefs, Strong, Collectable
<1> QED BY <1>1, <1>2, <1>3

\* luaF_close: dead upvalues are freed, gray ones become black and mark what they hold, or white
\* between collections (luaF_linkup).
LEMMA CloseKeepsHeap ==
    ASSUME HeapInv, FinalsInv, ~InAtomic, NEW L \in Threads \cap alive, L = Main \/ L \in Stack(Main),
           NEW i \in 1..Slots, luaF_close(L, i)
    PROVE  HeapInv'
<1> USE DEF HeapInv
<1> DEFINE V == {v \in OpenOf({L}) : at[v][2] >= i}
           F == {v \in V : Dead(v)}
           greys == {v \in V : color[v] = "gray"}
           S == {Content(v) : v \in greys}
           M == Marked(color, S)
<1>1. /\ UNCHANGED <<avail, cw, gcstate, unswept, key, stk, grayagain, weak, tmudata, finalized, running, full, depth>>
      /\ alive' = alive \ F /\ doomed' = doomed \ F
      /\ val' = [o \in Obj |-> IF o \in F THEN None ELSE IF o \in V THEN Content(o) ELSE val[o]]
      /\ at' = [v \in UpVals |-> IF v \in V THEN <<>> ELSE at[v]]
      /\ IF gcstate = "propagate"
         THEN /\ color' = [o \in Obj |-> IF o \in greys THEN "black" ELSE Painted(color, M)[o]]
              /\ gray' = gray \cup Listed(M)
         ELSE color' = [o \in Obj |-> IF o \in greys THEN cw ELSE color[o]] /\ gray' = gray
    BY DEF luaF_close, CloseUpvals, finals
<1>2. /\ \A v \in V : v \in alive /\ v \in UpVals /\ Opened(v) /\ at[v][1] = L /\ v \notin unswept
      /\ L \in Fit /\ alive \subseteq Obj /\ unswept \subseteq alive /\ doomed \subseteq alive
    BY RunningLives DEF OpenOf, Opened, Places, HeapTyped, FinalsInv
<1>3. \A v \in V : v \in Obj /\ v \notin Threads \cup Closures \cup Udata \cup Tables \cup Strings \cup Protos
    BY <1>2, Kinds
<1>4. /\ \A v \in V : v \notin doomed /\ color[v] # "black" /\ (v \in greys \/ White(v))
      /\ cw \in Whites /\ "gray" \notin Whites /\ "black" \notin Whites
    <2>1. \A v \in V : v \notin doomed /\ color[v] # "black"
        BY <1>2 DEF Doomed, Fit, Tints
    <2>2. \A v \in V : v \in Obj /\ color[v] \in Colours
        BY <1>3 DEF FinalsInv, FinalsTyped
    <2> QED BY <2>1, <2>2 DEF FinalsInv, FinalsTyped, Colours, White, Whites
<1>5. F \subseteq V /\ F \cap Fit = {} /\ (~Sweeping => F = {}) /\ doomed' = doomed
    BY <1>1, <1>2, <1>4 DEF Tints, Fit
<1>6. (Sweeping' <=> Sweeping) /\ (Marking' <=> Marking) /\ (Marking <=> gcstate = "propagate")
    BY <1>1 DEF Sweeping, Marking, InAtomic
<1>7. \A v \in greys : v \in V /\ color[v] = "gray" /\ v \in Fit
    BY <1>2, <1>4 DEF Fit, Dead, OtherWhite, Whites
<1>8. \A v \in V : v \in greys <=> color[v] = "gray"
    OBVIOUS
<1>9. \A v \in V : v \in F <=> Dead(v)
    OBVIOUS
<1> HIDE DEF V, F, greys
<1>10. /\ \A o \in Obj : val'[o] = IF o \in F THEN None ELSE IF o \in V THEN Content(o) ELSE val[o]
       /\ \A v \in UpVals : at'[v] = IF v \in V THEN <<>> ELSE at[v]
    BY <1>1
<1>11. \A o \in Obj \ F : AnyRefs(o)' = AnyRefs(o) /\ Strong(o)' = Strong(o)
    <2>1. V \subseteq UpVals
        BY <1>2
    <2> QED BY <1>1, <1>5, <1>10, <2>1, ClosedRefers
<1>12. HeapTyped'
    <2>1. \A v \in V : Content(v) \in Value
        BY <1>2, Stored DEF FinalsInv
    <2>2. val' \in [Obj -> Value] /\ at' \in [UpVals -> {<<>>} \cup (Threads \X (1..Slots))]
        BY <1>1, <2>1 DEF HeapTyped, Value
    <2>3. unswept' \subseteq alive' /\ doomed' \subseteq alive' /\ alive' \subseteq Obj
        BY <1>1, <1>2, <1>4, <1>5
    <2> QED BY <1>1, <2>2, <2>3 DEF HeapTyped
<1>13. Entries'
    <2>1. \A o \in Obj \ V : val'[o] = val[o]
        BY <1>5, <1>10
    <2>2. \A v \in UpVals : val'[v] \in Storable
        <3>1. \A v \in V : Content(v) \in Storable
            BY <1>2, Stored DEF FinalsInv
        <3> QED BY <1>10, <3>1, Kinds DEF Entries, Storable
    <2>3. \A o \in Tables \cup Closures \cup Udata \cup Protos \cup Strings \cup Threads :
            o \in Obj /\ o \notin V /\ o \notin F
        BY <1>3, <1>5, Kinds
    <2>4. \A o \in Obj \ alive' : val'[o] = None
        <3>1. \A o \in Obj \ alive : o \notin V
            BY <1>2
        <3> QED BY <1>1, <1>10, <2>1, <3>1 DEF Entries
    <2>5. \A T \in Threads \ alive', k \in 1..Slots : stk'[T][k] = None
        BY <1>1, <2>3 DEF Entries
    <2>6. \A o \in Tables \cup Closures \cup Udata \cup Protos \cup Strings \cup Threads :
            val'[o] = val[o] /\ (o \in alive' <=> o \in alive)
        BY <1>1, <2>1, <2>3
    <2> HIDE DEF HeapInv
    <2>7. Entries /\ key' = key
        BY <1>1 DEF HeapInv
    <2> QED BY <2>2, <2>4, <2>5, <2>6, <2>7 DEF Entries
<1>14. Places'
    <2> SUFFICES ASSUME NEW v \in UpVals, Opened(v)'
                 PROVE  v \in alive' \ unswept' /\ at'[v][1] \in alive'
        BY DEF Places
    <2>1. v \notin V /\ at'[v] = at[v] /\ Opened(v)
        BY <1>10 DEF Opened
    <2>2. at[v][1] \in Threads /\ at[v][1] \in alive /\ v \in alive \ unswept
        BY <2>1 DEF Places, HeapTyped, Opened
    <2> QED BY <1>1, <1>3, <1>5, <2>1, <2>2

<1>15. ASSUME Fit' = Fit
       PROVE  Kept'
    <2>1. Roots' = Roots /\ Elems(tmudata') = Elems(tmudata)
        BY <1>1 DEF Roots
    <2>2. \A o \in Fit : AnyRefs(o)' = AnyRefs(o)
        BY <1>2, <1>5, <1>11 DEF Fit
    <2>3. ~Sweeping' => alive' = alive /\ \A o \in alive : AnyRefs(o)' = AnyRefs(o)
        BY <1>1, <1>2, <1>5, <1>6, <1>11
    <2> QED BY <1>6, <1>15, <2>1, <2>2, <2>3 DEF Kept
<1>16. CASE gcstate = "propagate"
    <2>1. /\ \A o \in Obj : color'[o] = IF o \in greys THEN "black" ELSE Painted(color, M)[o]
          /\ gray' = gray \cup Listed(M) /\ Marking /\ Marking' /\ F = {} /\ alive' = alive
        BY <1>1, <1>5, <1>6, <1>16 DEF Sweeping
    <2>2. S \subseteq Storable /\ S \cap Obj \subseteq Fit
        <3> SUFFICES ASSUME NEW v \in greys
                     PROVE  Content(v) \in Storable /\ (Content(v) \in Obj => Content(v) \in Fit)
            OBVIOUS
        <3>1. v \in UpVals /\ v \in Fit
            BY <1>2, <1>7
        <3>2. AnyRefs(v) = {Content(v)} \ {None, Num} /\ AnyRefs(v) \subseteq Fit
            BY <3>1, Refs DEF RefsAre, Kept
        <3> QED BY <3>1, <3>2, Stored, Kinds DEF FinalsInv
    <2>3. \A v \in greys : Content(v) \in S
        OBVIOUS
    <2> HIDE DEF S
    <2>4. MarksFrom(M, color, S)
        BY <2>2, MarkedObjects, Stored DEF FinalsInv
    <2>5. /\ M \subseteq Fit /\ S \cap Obj \subseteq Shaded \cup M /\ \A o \in M : White(o)
          /\ \A o \in M \cap (Udata \cup UpVals) : AnyRefs(o) \subseteq Shaded \cup M
        <3>1. \A o \in Obj : color[o] \notin Whites => ~White(o)
            BY DEF White
        <3>2. \A o \in M : White(o)
            BY <2>4 DEF MarksFrom, White
        <3> QED BY <2>2, <2>4, <3>1, <3>2, MarksLive DEF FinalsInv
    <2>6. M \cap UpVals = {}
        BY <2>2, <2>4, Kinds DEF MarksFrom, Storable
    <2> HIDE DEF M
    <2>7. Marks(M, greys)
        <3>1. \A o \in greys : o \notin M /\ o \in Obj /\ o \in UpVals /\ o \in Shaded /\ o \notin Threads \cup WeakTables
            BY <1>2, <1>3, <1>4, <1>7, <2>5, Kinds DEF White, Shaded
        <3>2. \A o \in Obj : IF o \in greys THEN color'[o] = "black"
                             ELSE color'[o] = IF o \notin M THEN color[o]
                                              ELSE IF o \in Udata \/ (o \in UpVals /\ ~Opened(o)) THEN "black" ELSE "gray"
            BY <2>1, PaintedObjects
        <3>3. \A v \in UpVals : \/ v \notin greys /\ at'[v] = at[v]
                                \/ v \notin M /\ at'[v] = <<>> /\ (v \in greys \/ White(v))
            BY <1>4, <1>7, <1>10, <2>6
        <3>4. UNCHANGED <<cw, doomed, finalized>>
            BY <1>1, <1>5
        <3> QED BY <2>1, <2>5, <3>1, <3>2, <3>3, <3>4 DEF Marks
    <2>8. Tints' /\ SweepGoesOn' /\ Doomed'
        BY <2>1, <2>7, MarksKeep DEF FinalsInv
    <2>9. greys \cap Listable = {}
        BY <1>3, <1>7 DEF Listable
    <2>10. Lists' /\ gray \ greys \subseteq gray' /\ M \cap Listable \subseteq gray'
        <3>1. /\ grayagain' = grayagain \cup (greys \cap gray \cap Threads)
              /\ weak' = weak \cup (greys \cap gray \cap WeakTables)
            BY <1>1, <2>9, Kinds DEF Listable
        <3> QED BY <2>1, <2>7, <2>9, <3>1, MarksList DEF FinalsInv
    <2>11. Shaded' = Shaded \cup M /\ Fit' = Fit
        BY <2>7, MarksSets DEF FinalsInv
    <2>12. Traced'
        <3>1. ASSUME NEW p \in Obj \ (M \cup greys), Done(p)'
              PROVE  Done(p) /\ Strong(p)' \subseteq Strong(p)
            <4>1. color'[p] = color[p] /\ p \in Shaded /\ p \notin gray
                BY <2>7, <2>10, <2>11, <3>1 DEF Marks, Done
            <4> QED BY <1>1, <1>11, <1>16, <2>1, <3>1, <4>1 DEF Done, InAtomic
        <3>2. \A p \in M \cap (Udata \cup UpVals \cup Strings) : Strong(p)' = Strong(p)
            BY <1>2, <1>11, <2>1, <2>5 DEF Fit
        <3>3. ASSUME NEW p \in greys
              PROVE  Strong(p)' \subseteq Shaded'
            <4>1. p \in UpVals /\ p \in Obj \ WeakTables /\ p \notin F
                BY <1>2, <1>3, <1>7, <2>1, Kinds
            <4>2. Strong(p)' = {Content(p)} \ {None, Num}
                BY <1>11, <4>1, Refs DEF RefsAre
            <4>3. Content(p) \in S /\ Content(p) \in Storable
                BY <2>2, <2>3, <3>3
            <4>4. Content(p) = None \/ Content(p) \in S \cap Obj
                BY <4>3 DEF Storable
            <4> QED BY <2>5, <2>11, <4>2, <4>4
        <3> QED BY <2>7, <2>10, <3>1, <3>2, <3>3, MarksTrace DEF FinalsInv
    <2>13. Owned'
        <3> SUFFICES ASSUME NEW v \in UpVals \cap Shaded
                     PROVE  \E c \in Closures \cap alive' : val'[c] = v /\ color'[c] = "black"
            BY <2>6, <2>11 DEF Owned
        <3>1. PICK c \in Closures \cap alive : val[c] = v /\ color[c] = "black"
            BY <1>16 DEF Owned
        <3>2. c \in Obj /\ c \notin V /\ c \notin greys /\ c \notin F
            BY <1>3, <1>5, <1>7, <3>1, Kinds
        <3>3. c \notin M
            BY <1>4, <2>5, <3>1 DEF White
        <3>4. val'[c] = v /\ color'[c] = "black"
            BY <1>10, <2>7, <3>1, <3>2, <3>3 DEF Marks
        <3> QED BY <2>1, <3>1, <3>4
    <2> QED BY <1>12, <1>13, <1>14, <1>15, <2>8, <2>10, <2>11, <2>12, <2>13
<1>17. CASE gcstate # "propagate"
    <2>1. /\ \A o \in Obj : color'[o] = IF o \in greys THEN cw ELSE color[o]
          /\ gray' = gray /\ ~Marking /\ ~Marking'
        BY <1>1, <1>6, <1>17
    <2>2. OtherWhite' = OtherWhite /\ OtherWhite # cw /\ OtherWhite \in Whites
        BY <1>1, <1>4 DEF OtherWhite, Whites
    <2>3. \A o \in alive' : Dead(o)' <=> Dead(o)
        BY <1>1, <1>2, <1>4, <1>7, <2>1, <2>2 DEF Dead
    <2>4. Fit' = Fit
        BY <1>1, <1>5, <2>3 DEF Fit
    <2>5. \A v \in UpVals : Opened(v)' => v \notin V /\ Opened(v) /\ at'[v] = at[v]
        BY <1>10 DEF Opened
    <2>6. Tints'
        <3>1. ~Sweeping' => \A o \in alive' : ~Dead(o)'
            BY <1>1, <1>6, <2>3 DEF Tints
        <3>2. \A o \in alive' : o \in alive /\ color'[o] \in {cw, color[o]}
            BY <1>1, <1>2, <2>1
        <3>3. cw # "gray" /\ cw # "black"
            BY <1>4
        <3> QED BY <2>1, <2>5, <3>1, <3>2, <3>3 DEF Tints
    <2>7. SweepGoesOn'
        <3>1. ASSUME NEW o \in alive'
              PROVE  \/ color'[o] = cw \/ o \in unswept \cup Elems(tmudata)
                     \/ o \in UpVals /\ Opened(o)' /\ at'[o][1] \in unswept
            <4>1. CASE o \in V
                <5>1. o \in greys \/ (White(o) /\ ~Dead(o))
                    BY <1>1, <1>4, <1>9, <4>1
                <5> QED BY <1>3, <1>4, <2>1, <4>1, <5>1 DEF White, Dead, OtherWhite, Whites
            <4>2. CASE o \notin V
                <5>1. o \in alive /\ o \in Obj /\ color'[o] = color[o] /\ (o \in UpVals => at'[o] = at[o])
                    BY <1>1, <1>2, <1>7, <1>10, <2>1, <4>2
                <5> QED BY <2>1, <5>1 DEF SweepGoesOn, Opened
            <4> QED BY <4>1, <4>2
        <3> QED BY <1>1, <1>6, <2>1, <3>1 DEF SweepGoesOn
    <2>8. Lists'
        BY <1>1, <2>1 DEF Lists, ListsDisjoint
    <2>9. Traced' /\ Owned'
        BY <1>1, <1>17, <2>1 DEF Traced, Owned
    <2>10. Doomed'
        <3>1. doomed' \cap (Strings \cup (HasGC \ finalized')) = {}
            BY <1>1, <1>5 DEF Doomed
        <3>2. \A v \in UpVals \cap doomed' : Opened(v)' => at'[v][1] \in doomed'
            BY <1>5, <2>5 DEF Doomed
        <3>3. Sweeping => \A o \in doomed' : Dead(o)'
            <4>1. doomed' \subseteq alive'
                BY <1>12 DEF HeapTyped
            <4> QED BY <1>5, <2>3, <4>1 DEF Doomed
        <3> QED BY <1>5, <1>6, <2>1, <3>1, <3>2, <3>3 DEF Doomed
    <2> QED BY <1>12, <1>13, <1>14, <1>15, <2>4, <2>6, <2>7, <2>8, <2>9, <2>10
<1> QED BY <1>16, <1>17

------------------------------------------------------------------------------
(* Stores and their barriers *)

\* luaC_barrierf keeps the invariant when an object that is black and gets x is black no later than
\* the one the barrier is told of.
LEMMA StoreKeepsHeap ==
    ASSUME HeapInv, FinalsInv, ~InAtomic, NEW owner \in alive, NEW x \in Storable, x \in Fit \cup {None},
           barrierf(owner, x), HeapTyped', Entries', Places',
           UNCHANGED <<alive, cw, gcstate, unswept, at, grayagain, weak, tmudata, finalized, running, doomed>>,
           \A c \in Closures : val'[c] = val[c],
           \A p \in Obj : AnyRefs(p)' \subseteq AnyRefs(p) \cup ({x} \ {None, Num}),
           \A p \in Obj : p = owner \/ p \in UpVals \cup Threads \/ Strong(p)' = Strong(p),
           \A p \in alive : color[p] = "black" => \/ Strong(p)' = Strong(p)
                                                  \/ gcstate = "propagate" => color[owner] = "black"
    PROVE  HeapInv'
<1> USE DEF HeapInv
<1> DEFINE M == Marked(color, {x})
           marks_x == x \in Obj /\ White(x) /\ color[owner] = "black"
<1>1. /\ marks_x /\ gcstate = "propagate" => color' = Painted(color, M) /\ gray' = gray \cup Listed(M)
      /\ marks_x /\ gcstate # "propagate" => color' = [color EXCEPT ![owner] = cw] /\ gray' = gray
      /\ ~marks_x => color' = color /\ gray' = gray
    BY DEF barrierf
<1>2. /\ alive \subseteq Obj /\ unswept \subseteq alive /\ doomed \subseteq alive /\ Fit \subseteq alive
      /\ (Sweeping' <=> Sweeping) /\ (Marking' <=> Marking) /\ (Marking <=> gcstate = "propagate")
      /\ ~(Sweeping /\ Marking)
    BY DEF HeapTyped, Fit, Sweeping, Marking, InAtomic
<1>3. /\ cw \in Whites /\ OtherWhite' = OtherWhite /\ OtherWhite # cw /\ OtherWhite \in Whites
      /\ color \in [Obj -> Colours] /\ "gray" \notin Whites /\ "black" \notin Whites
    BY DEF FinalsInv, FinalsTyped, OtherWhite, Whites
<1>4. {x} \cap Obj \subseteq Fit /\ {x} \subseteq Value \cup {Num} /\ {x} \cap UpVals = {} /\ {x} \ {None, Num} \subseteq Fit
    BY Kinds DEF Storable, Value
<1>5. ASSUME Fit' = Fit
      PROVE  Kept'
    <2>1. Roots' = Roots /\ Elems(tmudata') = Elems(tmudata)
        BY DEF Roots
    <2>2. \A p \in alive : AnyRefs(p)' \subseteq AnyRefs(p) \cup Fit
        BY <1>2, <1>4
    <2> QED BY <1>2, <1>5, <2>1, <2>2 DEF Kept
<1>6. ASSUME NEW p \in alive, color[p] = "black", gcstate = "propagate", Strong(p) \subseteq Shaded, x \in Obj => x \in Shaded'
             \/ color[owner] # "black", Shaded \subseteq Shaded'
      PROVE  Strong(p)' \subseteq Shaded'
    <2>1. p \in Obj \ WeakTables
        BY <1>2, <1>6 DEF Tints
    <2>2. Strong(p)' = AnyRefs(p)' /\ Strong(p) = AnyRefs(p)
        BY <2>1, Refs DEF RefsAre
    <2>3. CASE Strong(p)' = Strong(p)
        BY <1>6, <2>3
    <2>4. CASE color[owner] = "black"
        <3>1. {x} \ {None, Num} \subseteq Shaded'
            BY <1>4, <1>6, <2>4, <1>2
        <3> QED BY <1>6, <2>1, <2>2, <3>1
    <2> QED BY <1>6, <2>3, <2>4
<1>7. CASE marks_x /\ gcstate = "propagate"
    <2>1. color' = Painted(color, M) /\ gray' = gray \cup Listed(M) /\ Marking /\ Marking'
        BY <1>1, <1>2, <1>7
    <2>2. MarksFrom(M, color, {x})
        BY <1>4, MarkedObjects DEF FinalsInv
    <2>3. /\ M \subseteq Fit /\ {x} \cap Obj \subseteq Shaded \cup M /\ \A o \in M : White(o)
          /\ \A o \in M \cap (Udata \cup UpVals) : AnyRefs(o) \subseteq Shaded \cup M
        <3>1. \A o \in Obj : color[o] \notin Whites => ~White(o)
            BY DEF White
        <3>2. \A o \in M : White(o)
            BY <2>2 DEF MarksFrom, White
        <3> QED BY <1>4, <2>2, <3>1, <3>2, MarksLive DEF FinalsInv
    <2>4. M \cap UpVals = {} /\ owner \notin M
        BY <1>3, <1>4, <1>7, <2>2 DEF MarksFrom
    <2> HIDE DEF M
    <2>5. Marks(M, {})
        BY <2>1, <2>3, PaintedObjects DEF Marks
    <2>6. Tints' /\ SweepGoesOn' /\ Doomed'
        BY <2>1, <2>5, MarksKeep DEF FinalsInv
    <2>7. Lists' /\ gray \ {} \subseteq gray' /\ M \cap Listable \subseteq gray'
        <3>1. /\ {} \cap Listable = {} /\ grayagain' = grayagain \cup ({} \cap gray \cap Threads)
              /\ weak' = weak \cup ({} \cap gray \cap WeakTables)
            OBVIOUS
        <3>2. ASSUME NEW X, X = {}
              PROVE  Lists' /\ gray \ X \subseteq gray' /\ M \cap Listable \subseteq gray'
            BY <2>1, <2>5, <3>2, MarksList DEF FinalsInv
        <3> QED BY <3>2
    <2>8. Shaded' = Shaded \cup M /\ Fit' = Fit
        BY <2>5, MarksSets DEF FinalsInv
    <2>9. Traced'
        <3>1. ASSUME NEW p \in Obj \ (M \cup {}), Done(p)'
              PROVE  Strong(p)' \subseteq Shaded'
            <4>1. color'[p] = color[p] /\ p \in Shaded /\ p \notin gray /\ p \in alive
                BY <2>5, <2>7, <2>8, <3>1 DEF Marks, Done, Shaded
            <4>2. color[p] = "black" /\ Done(p)
                BY <1>7, <3>1, <4>1 DEF Done, InAtomic
            <4>3. Strong(p) \subseteq Shaded
                BY <1>2, <2>1, <4>1, <4>2 DEF Traced
            <4> QED BY <1>6, <1>7, <2>3, <2>8, <4>1, <4>2, <4>3
        <3>2. \A p \in M \cap (Udata \cup UpVals \cup Strings) : Strong(p)' = Strong(p)
            BY <1>2, <2>3, <2>4, Kinds
        <3>3. \A p \in {} : Done(p)' => Strong(p)' \subseteq Shaded'
            OBVIOUS
        <3> QED BY <2>5, <2>7, <3>1, <3>2, <3>3, MarksTrace DEF FinalsInv
    <2>10. Owned'
        <3> SUFFICES ASSUME NEW v \in UpVals \cap Shaded
                     PROVE  \E c \in Closures \cap alive' : val'[c] = v /\ color'[c] = "black"
            BY <2>4, <2>8 DEF Owned
        <3>1. PICK c \in Closures \cap alive : val[c] = v /\ color[c] = "black"
            BY <1>7 DEF Owned
        <3>2. c \notin M
            BY <1>3, <2>3, <3>1 DEF White
        <3> QED BY <1>2, <2>5, <3>1, <3>2 DEF Marks
    <2> QED BY <1>5, <2>6, <2>7, <2>8, <2>9, <2>10
<1>8. CASE ~(marks_x /\ gcstate = "propagate")
    <2>1. /\ gray' = gray
          /\ \A p \in Obj : \/ color'[p] = color[p]
                            \/ p = owner /\ color'[p] = cw /\ color[p] = "black" /\ ~Marking
        BY <1>1, <1>2, <1>3, <1>8
    <2>2. \A p \in alive : Dead(p)' <=> Dead(p)
        BY <1>2, <1>3, <2>1 DEF Dead
    <2>3. Fit' = Fit
        BY <2>2 DEF Fit
    <2>4. Tints'
        <3>1. ~Sweeping' => \A p \in alive : ~Dead(p)'
            BY <1>2, <2>2 DEF Tints
        <3>2. \A p \in alive : color'[p] \in {color[p], cw} /\ (Marking => color'[p] = color[p])
            BY <1>2, <2>1
        <3>3. cw # "gray" /\ cw # "black"
            BY <1>3
        <3> QED BY <1>2, <3>1, <3>2, <3>3 DEF Tints, Opened
    <2>5. SweepGoesOn'
        <3>1. \A p \in alive : color'[p] \in {color[p], cw}
            BY <1>2, <2>1
        <3> QED BY <1>2, <3>1 DEF SweepGoesOn, Opened
    <2>6. Lists'
        <3>1. Marking => \A p \in alive : color'[p] = color[p]
            BY <1>2, <2>1
        <3> QED BY <1>2, <2>1, <3>1 DEF Lists, ListsDisjoint
    <2>7. Marking => Shaded' = Shaded
        BY <1>2, <2>1 DEF Shaded, White
    <2>8. Traced'
        <3> SUFFICES ASSUME Marking
                     PROVE  Main \in Shaded' /\ \A p \in Obj : Done(p)' => Strong(p)' \subseteq Shaded'
            BY <1>2 DEF Traced
        <3>1. ASSUME NEW p \in Obj, Done(p)'
              PROVE  Strong(p)' \subseteq Shaded'
            <4>1. p \in alive /\ color'[p] = color[p] /\ p \in Shaded
                BY <2>1, <2>7, <3>1 DEF Done, Shaded
            <4>2. color[p] = "black" /\ Done(p) /\ gcstate = "propagate"
                BY <1>2, <2>1, <3>1, <4>1 DEF Done, InAtomic
            <4>3. Strong(p) \subseteq Shaded
                BY <1>2, <4>1, <4>2 DEF Traced
            <4>4. x \in Obj => x \in Shaded' \/ color[owner] # "black"
                BY <1>2, <1>4, <1>8, <2>7, <4>2 DEF Shaded
            <4> QED BY <1>6, <2>7, <4>1, <4>2, <4>3, <4>4
        <3> QED BY <2>7, <3>1 DEF Traced
    <2>9. Owned'
        <3> SUFFICES ASSUME gcstate = "propagate", NEW v \in UpVals \cap Shaded
                     PROVE  \E c \in Closures \cap alive' : val'[c] = v /\ color'[c] = "black"
            BY <1>2, <2>7 DEF Owned
        <3>1. PICK c \in Closures \cap alive : val[c] = v /\ color[c] = "black"
            BY DEF Owned
        <3> QED BY <1>2, <2>1, <3>1
    <2>10. Doomed'
        <3>1. doomed' \cap (Strings \cup (HasGC \ finalized')) = {}
            BY DEF Doomed
        <3>2. \A v \in UpVals \cap doomed' : Opened(v)' => at'[v][1] \in doomed'
            BY DEF Doomed, Opened
        <3>3. Sweeping => \A p \in doomed' : Dead(p)'
            BY <1>2, <2>2 DEF Doomed
        <3> QED BY <1>2, <2>7, <3>1, <3>2, <3>3 DEF Doomed
    <2> QED BY <1>5, <2>3, <2>4, <2>5, <2>6, <2>8, <2>9, <2>10
<1> QED BY <1>7, <1>8

\* A table gets an entry (luaC_barrierback).
LEMMA SetTableKeepsHeap ==
    ASSUME HeapInv, FinalsInv, ~InAtomic, NEW L \in Threads \cap alive, L = Main \/ L \in Stack(Main),
           NEW x \in Stack(L), NEW t \in Tables, NEW k \in (Stack(L) \cup {Num}) \ {None}, SetTable(L, t, k, x)
    PROVE  HeapInv'
<1> USE DEF HeapInv
<1> DEFINE stains == color[t] = "black" /\ \E o \in {k, x} \cap Obj : White(o)
<1>1. /\ UNCHANGED <<avail, alive, cw, gcstate, unswept, stk, at, gray, weak, tmudata, finalized, running, full, depth, doomed>>
      /\ key' = [key EXCEPT ![t] = IF x = None THEN None ELSE k] /\ val' = [val EXCEPT ![t] = x]
      /\ stains => color' = [color EXCEPT ![t] = "gray"] /\ grayagain' = grayagain \cup {t}
      /\ ~stains => color' = color /\ grayagain' = grayagain
    BY DEF SetTable, barrierback, finals
<1>2. /\ Stack(L) \subseteq Fit \cup {None} /\ Stack(L) \subseteq Storable /\ Fit \subseteq alive /\ alive \subseteq Obj
      /\ unswept \subseteq alive /\ doomed \subseteq alive /\ Num \notin Storable
    BY RunningLives, Kinds DEF FinalsInv, HeapTyped, Storable, None, Num
<1>3. /\ t \in alive /\ t \in Obj /\ t \in Fit /\ t \notin Strings \cup Udata \cup Closures \cup UpVals \cup Protos \cup Threads
      /\ x \in Storable /\ k \in Storable \cup {Num} /\ x \in Fit \cup {None} /\ k \in Fit \cup {Num}
    <2>1. t \in Stack(L) /\ t \in Obj
        BY Kinds DEF SetTable
    <2> QED BY <1>2, <2>1, Kinds
<1>4. /\ (Sweeping' <=> Sweeping) /\ (Marking' <=> Marking) /\ (Marking <=> gcstate = "propagate")
      /\ ~(Sweeping /\ Marking)
    BY <1>1 DEF Sweeping, Marking, InAtomic
<1>5. /\ cw \in Whites /\ OtherWhite' = OtherWhite /\ OtherWhite \in Whites
      /\ color \in [Obj -> Colours] /\ "gray" \notin Whites /\ "black" \notin Whites
    BY <1>1 DEF FinalsInv, FinalsTyped, OtherWhite, Whites
<1>6. /\ \A p \in Obj : val'[p] = (IF p = t THEN x ELSE val[p]) /\ (p # t => key'[p] = key[p])
      /\ key'[t] = IF x = None THEN None ELSE k
    BY <1>1, <1>3 DEF HeapTyped
<1>7. \A p \in Obj : \/ color'[p] = color[p] /\ ~(p = t /\ stains)
                     \/ p = t /\ color'[p] = "gray" /\ color[p] = "black" /\ stains
    BY <1>1, <1>3, <1>5
<1>8. stains => color[t] = "black" /\ t \notin WeakTables /\ grayagain' = grayagain \cup {t}
    BY <1>1, <1>3 DEF Tints
<1>9. ~stains => color[t] # "black" \/ \A o \in {k, x} \cap Obj : ~White(o)
    OBVIOUS
<1> HIDE DEF stains
<1>10. \A p \in Obj \ {t} : AnyRefs(p)' = AnyRefs(p) /\ Strong(p)' = Strong(p)
    <2> SUFFICES ASSUME NEW p \in Obj \ {t}
                 PROVE  AnyRefs(p)' = AnyRefs(p) /\ Strong(p)' = Strong(p)
        OBVIOUS
    <2>1. val'[p] = val[p] /\ key'[p] = key[p]
        BY <1>6
    <2> QED BY <1>1, <2>1 DEF AnyRefs, Strong, Collectable, Content, Stack
<1>11. AnyRefs(t)' \subseteq {k, x} \ {None, Num} /\ Strong(t)' \subseteq AnyRefs(t)'
    <2>1. AnyRefs(t)' = IF val'[t] = None THEN {} ELSE {key'[t], val'[t]} \ {None, Num}
        BY Refs DEF RefsAre
    <2>2. Strong(t)' \subseteq AnyRefs(t)'
        BY <1>3, Refs DEF RefsAre
    <2> QED BY <1>3, <1>6, <2>1, <2>2
<1>12. {k, x} \ {None, Num} \subseteq Fit
    BY <1>3
<1>13. HeapTyped'
    <2>1. key' \in [Obj -> Storable \cup {Num}] /\ val' \in [Obj -> Value]
        BY <1>1, <1>3 DEF HeapTyped, Storable, Value
    <2> QED BY <1>1, <2>1 DEF HeapTyped
<1>14. Entries'
    <2>1. \A y \in Tables : val'[y] \in Storable /\ (val'[y] = None => key'[y] = None)
        BY <1>3, <1>6, Kinds DEF Entries
    <2>2. \A p \in Obj \ Tables : val'[p] = val[p]
        BY <1>3, <1>6
    <2>3. \A p \in Obj \ alive : val'[p] = None
        BY <1>3, <1>6 DEF Entries
    <2> QED BY <1>1, <2>1, <2>2, <2>3, Kinds DEF Entries
<1>15. Places'
    BY <1>1 DEF Places, Opened
<1>16. \A p \in alive : Dead(p)' <=> Dead(p)
    BY <1>2, <1>5, <1>7 DEF Dead
<1>17. Fit' = Fit /\ Shaded' = Shaded
    <2>1. \A p \in alive : White(p)' <=> White(p)
        BY <1>2, <1>5, <1>7 DEF White
    <2> QED BY <1>1, <1>16, <2>1 DEF Fit, Shaded
<1>18. Kept'
    <2>1. Roots' = Roots /\ Elems(tmudata') = Elems(tmudata)
        BY <1>1 DEF Roots
    <2>2. \A p \in alive : AnyRefs(p)' \subseteq AnyRefs(p) \cup Fit
        BY <1>2, <1>10, <1>11, <1>12
    <2> QED BY <1>1, <1>2, <1>4, <1>17, <2>1, <2>2 DEF Kept
<1>19. Tints'
    <2>1. ~Sweeping' => \A p \in alive : ~Dead(p)'
        BY <1>4, <1>16 DEF Tints
    <2>2. \A p \in alive : color'[p] = color[p] \/ (p = t /\ color'[p] = "gray")
        BY <1>2, <1>7
    <2> QED BY <1>1, <1>3, <1>4, <2>1, <2>2 DEF Tints, Opened
<1>20. SweepGoesOn'
    <2>1. \A p \in alive : color'[p] = color[p] \/ (p = t /\ color[p] = "black")
        BY <1>2, <1>7
    <2> QED BY <1>1, <1>4, <1>5, <2>1 DEF SweepGoesOn, Opened
<1>21. Lists'
    <2>1. stains => t \notin gray /\ t \notin weak
        <3>1. Marking => \A p \in gray : color[p] = "gray"
            BY DEF Lists
        <3> QED BY <1>8, <3>1 DEF Lists
    <2>2. grayagain' = IF stains THEN grayagain \cup {t} ELSE grayagain
        BY <1>1
    <2>3. ListsDisjoint'
        BY <1>1, <2>1, <2>2 DEF Lists, ListsDisjoint
    <2>4. /\ weak' \subseteq WeakTables /\ grayagain' \cap WeakTables = {}
          /\ gray' \cup grayagain' \cup weak' \subseteq Listable
        BY <1>1, <1>8, <2>2 DEF Lists, Listable
    <2>5. \A p \in Obj : color'[p] = IF p = t /\ stains THEN "gray" ELSE color[p]
        BY <1>7
    <2>6. Marking => \A p \in gray \cup grayagain \cup weak : p \in alive /\ color[p] = "gray"
        BY DEF Lists
    <2>7. Marking => \A p \in gray' \cup grayagain' \cup weak' : p \in alive' /\ color'[p] = "gray"
        BY <1>1, <1>2, <1>3, <2>2, <2>5, <2>6
    <2>8. Marking => \A p \in Listable \cap alive' : color'[p] = "gray" => p \in gray' \cup grayagain' \cup weak'
        BY <1>1, <1>2, <2>2, <2>5 DEF Lists
    <2> QED BY <1>1, <1>4, <2>3, <2>4, <2>7, <2>8 DEF Lists
<1>22. Traced'
    <2> SUFFICES ASSUME Marking, NEW p \in Obj, Done(p)'
                 PROVE  Strong(p)' \subseteq Shaded'
        BY <1>4, <1>17 DEF Traced
    <2>1. p \in Shaded /\ p \notin gray /\ color'[p] = "black" /\ gcstate = "propagate"
        BY <1>1, <1>4, <1>17 DEF Done, InAtomic
    <2>2. color[p] = "black" /\ ~(p = t /\ stains)
        BY <1>7, <2>1
    <2>3. Done(p)
        BY <1>1, <2>1, <2>2 DEF Done, InAtomic
    <2>4. CASE p # t
        BY <1>10, <1>17, <2>3, <2>4 DEF Traced
    <2>5. CASE p = t
        <3>1. \A o \in {k, x} \cap Obj : ~White(o)
            BY <1>9, <2>2, <2>5
        <3>2. {k, x} \ {None, Num} \subseteq Shaded
            BY <1>2, <1>12, <3>1 DEF Shaded
        <3> QED BY <1>11, <1>17, <2>5, <3>2
    <2> QED BY <2>4, <2>5
<1>23. Owned'
    <2>1. \A c \in Closures : c \in Obj /\ c # t
        BY <1>3, Kinds
    <2>2. \A c \in Closures : val'[c] = val[c] /\ color'[c] = color[c]
        BY <1>6, <1>7, <2>1
    <2> QED BY <1>1, <1>17, <2>2 DEF Owned
<1>24. Doomed'
    <2>1. Sweeping => \A p \in doomed' : Dead(p)'
        BY <1>1, <1>2, <1>16 DEF Doomed
    <2> QED BY <1>1, <1>4, <1>17, <2>1 DEF Doomed, Opened
<1> QED BY <1>13, <1>14, <1>15, <1>18, <1>19, <1>20, <1>21, <1>22, <1>23, <1>24

\* The field of a userdata or of a prototype.
LEMMA SetFieldKeepsHeap ==
    ASSUME HeapInv, FinalsInv, ~InAtomic, NEW L \in Threads \cap alive, L = Main \/ L \in Stack(Main),
           NEW x \in Stack(L), NEW o \in Udata \cup Protos, SetField(L, o, x)
    PROVE  HeapInv'
<1> USE DEF HeapInv
<1>1. /\ UNCHANGED <<avail, alive, cw, gcstate, unswept, key, stk, at, grayagain, weak, tmudata, finalized, running, full, depth, doomed>>
      /\ val' = [val EXCEPT ![o] = x] /\ barrierf(o, x)
      /\ o \in Stack(L)
      /\ (o \in Udata /\ x \in Tables) \/ (o \in Protos /\ x \in Strings \cup Protos)
    BY DEF SetField, finals
<1>2. /\ x \in Storable /\ x \in Fit \cup {None} /\ o \in alive /\ o \in Obj
      /\ o \notin Tables \cup Strings \cup Closures \cup UpVals \cup Threads
    <2>1. Stack(L) \subseteq Fit \cup {None} /\ Stack(L) \subseteq Storable /\ Fit \subseteq alive
        BY RunningLives DEF FinalsInv
    <2>2. o \in Obj /\ o \notin Tables \cup Strings \cup Closures \cup UpVals \cup Threads
        BY Kinds
    <2> QED BY <1>1, <2>1, <2>2, Kinds
<1>3. \A p \in Obj : val'[p] = IF p = o THEN x ELSE val[p]
    BY <1>1, <1>2 DEF HeapTyped
<1>4. HeapTyped'
    <2>1. val' \in [Obj -> Value]
        BY <1>1, <1>2 DEF HeapTyped, Storable, Value
    <2> QED BY <1>1, <2>1 DEF HeapTyped
<1>5. Entries'
    <2>1. \A p \in Tables \cup Closures \cup UpVals \cup Strings \cup Threads : val'[p] = val[p]
        BY <1>2, <1>3, Kinds
    <2>2. \A u \in Udata : val'[u] \in Tables \cup {None}
        BY <1>1, <1>3, Kinds DEF Entries
    <2>3. \A p \in Protos : val'[p] \in Strings \cup Protos \cup {None}
        BY <1>1, <1>3, Kinds DEF Entries
    <2>4. \A p \in Obj \ alive : val'[p] = None
        BY <1>2, <1>3 DEF Entries
    <2> QED BY <1>1, <2>1, <2>2, <2>3, <2>4 DEF Entries
<1>6. Places'
    BY <1>1 DEF Places, Opened
<1>7. \A p \in Obj \ {o} : AnyRefs(p)' = AnyRefs(p) /\ Strong(p)' = Strong(p)
    <2> SUFFICES ASSUME NEW p \in Obj \ {o}
                 PROVE  AnyRefs(p)' = AnyRefs(p) /\ Strong(p)' = Strong(p)
        OBVIOUS
    <2>1. val'[p] = val[p] /\ key'[p] = key[p]
        BY <1>1, <1>3
    <2> QED BY <1>1, <2>1 DEF AnyRefs, Strong, Collectable, Content, Stack
<1>8. AnyRefs(o)' = {x} \ {None, Num}
    <2>1. AnyRefs(o)' = {val'[o]} \ {None, Num}
        BY Refs DEF RefsAre
    <2> QED BY <1>2, <1>3, <2>1
<1>9. \A p \in Obj : AnyRefs(p)' \subseteq AnyRefs(p) \cup ({x} \ {None, Num})
    BY <1>7, <1>8
<1>10. \A p \in Obj : p = o \/ p \in UpVals \cup Threads \/ Strong(p)' = Strong(p)
    BY <1>7
<1>11. \A p \in alive : color[p] = "black" => \/ Strong(p)' = Strong(p)
                                              \/ gcstate = "propagate" => color[o] = "black"
    BY <1>7 DEF HeapTyped
<1>12. \A c \in Closures : val'[c] = val[c]
    BY <1>2, <1>3, Kinds
<1> QED BY <1>1, <1>2, <1>4, <1>5, <1>6, <1>9, <1>10, <1>11, <1>12, StoreKeepsHeap

\* An upvalue gets x. A closed one that is black was marked through a closure, which is black too;
\* if no other has the upvalue, it is the one lua_setupvalue is called for.
LEMMA StoreUpvalKeepsHeap ==
    ASSUME HeapInv, FinalsInv, ~InAtomic, NEW L \in Threads \cap alive, L = Main \/ L \in Stack(Main),
           NEW x \in Stack(L), NEW c \in Closures, c \in Stack(L), NEW owner \in {c, val[c]},
           StoreUpval(val[c], x, owner),
           owner = c => \A d \in (Closures \cap alive) \ {c} : val[d] # val[c]
    PROVE  HeapInv'
<1> USE DEF HeapInv
<1>0. PICK v : v = val[c]
    OBVIOUS
<1>1. /\ UNCHANGED <<avail, alive, cw, gcstate, unswept, key, at, grayagain, weak, tmudata, finalized, running, full, depth, doomed>>
      /\ barrierf(owner, x)
      /\ IF at[v] = <<>> THEN val' = [val EXCEPT ![v] = x] /\ stk' = stk
                         ELSE stk' = [stk EXCEPT ![at[v][1]][at[v][2]] = x] /\ val' = val
    BY <1>0 DEF StoreUpval, finals
<1>2. x \in Storable /\ x \in Fit \cup {None} /\ c \in Fit /\ c \in alive /\ c \in Obj /\ Fit \subseteq alive
    <2>1. Stack(L) \subseteq Fit \cup {None} /\ Stack(L) \subseteq Storable /\ Fit \subseteq alive
        BY RunningLives DEF FinalsInv
    <2>2. c \in Obj /\ None \notin Obj
        BY Kinds
    <2> QED BY <2>1, <2>2
<1>3. v \in UpVals /\ v \in alive /\ v \in Obj /\ v \notin Closures \cup Threads \cup WeakTables
    <2>1. v \in UpVals
        BY <1>0, <1>2 DEF Entries
    <2>2. AnyRefs(c) = {v} \ {None, Num} /\ AnyRefs(c) \subseteq Fit
        BY <1>0, <1>2, Refs DEF RefsAre, Kept
    <2> QED BY <1>2, <2>1, <2>2, Kinds
<1>4. owner \in alive /\ owner \in {c, v}
    BY <1>0, <1>2, <1>3
<1>5. /\ HeapTyped' /\ Entries' /\ Places' /\ \A d \in Closures : val'[d] = val[d]
      /\ \A p \in Obj : AnyRefs(p)' \subseteq AnyRefs(p) \cup ({x} \ {None, Num})
      /\ \A p \in Obj : p = owner \/ p \in UpVals \cup Threads \/ Strong(p)' = Strong(p)
      /\ \A p \in alive : color[p] = "black" => Strong(p)' = Strong(p) \/ (p = v /\ at[v] = <<>>)
    <2>1. CASE at[v] = <<>>
        <3>1. stk' = stk /\ \A p \in Obj : val'[p] = IF p = v THEN x ELSE val[p]
            BY <1>1, <1>3, <2>1 DEF HeapTyped
        <3>2. HeapTyped'
            <4>1. val' \in [Obj -> Value]
                BY <1>1, <1>2, <2>1 DEF HeapTyped, Storable, Value
            <4> QED BY <1>1, <3>1, <4>1 DEF HeapTyped
        <3>3. \A p \in Obj \ UpVals : val'[p] = val[p]
            BY <1>3, <3>1
        <3>4. Entries'
            <4>1. \A p \in Obj \ alive : val'[p] = None
                BY <1>3, <3>1 DEF Entries
            <4>2. \A u \in UpVals : val'[u] \in Storable
                BY <1>2, <3>1, Kinds DEF Entries
            <4> QED BY <1>1, <3>1, <3>3, <4>1, <4>2, Kinds DEF Entries
        <3>5. Places'
            BY <1>1 DEF Places, Opened
        <3>6. \A p \in Obj \ {v} : AnyRefs(p)' = AnyRefs(p) /\ Strong(p)' = Strong(p)
            <4> SUFFICES ASSUME NEW p \in Obj \ {v}
                         PROVE  AnyRefs(p)' = AnyRefs(p) /\ Strong(p)' = Strong(p)
                OBVIOUS
            <4>1. val'[p] = val[p] /\ key'[p] = key[p]
                BY <1>1, <3>1
            <4> QED BY <1>1, <3>1, <4>1 DEF AnyRefs, Strong, Collectable, Content, Stack
        <3>7. AnyRefs(v)' = {x} \ {None, Num}
            <4>1. Content(v)' = x
                BY <1>1, <1>3, <2>1, <3>1 DEF Content
            <4>2. AnyRefs(v)' = {Content(v)'} \ {None, Num}
                BY <1>3, Refs DEF RefsAre
            <4> QED BY <4>1, <4>2
        <3>8. \A d \in Closures : val'[d] = val[d]
            BY <3>3, Kinds
        <3> QED BY <1>3, <2>1, <3>2, <3>4, <3>5, <3>6, <3>7, <3>8 DEF HeapTyped
    <2>2. CASE at[v] # <<>>
        <3>1. at[v][1] \in Threads \cap alive /\ at[v][2] \in 1..Slots
            BY <1>3, <2>2 DEF HeapTyped, Places, Opened
        <3>2. stk' = [stk EXCEPT ![at[v][1]][at[v][2]] = x] /\ val' = val
            BY <1>1, <2>2
        <3>3. HeapTyped' /\ Entries' /\ Places'
            <4>1. PICK N : N = {}
                OBVIOUS
            <4>2. N \subseteq Obj /\ N \cap Closures \subseteq alive /\ alive' = alive \cup N
                BY <1>1, <4>1
            <4> QED BY <1>1, <1>2, <3>1, <3>2, <4>2, PushedTypes
        <3>4. /\ \A p \in Obj : AnyRefs(p)' \subseteq AnyRefs(p) \cup ({x} \ {None, Num})
              /\ \A p \in Obj : p \in Threads \/ (p \in UpVals /\ Opened(p)) \/ (AnyRefs(p)' = AnyRefs(p) /\ Strong(p)' = Strong(p))
            BY <1>1, <3>1, <3>2, Pushed
        <3>5. \A p \in alive : color[p] = "black" => p \in Obj /\ p \notin Threads /\ ~(p \in UpVals /\ Opened(p))
            BY DEF Tints, HeapTyped
        <3> QED BY <3>2, <3>3, <3>4, <3>5
    <2> QED BY <2>1, <2>2
<1>6. ASSUME NEW p \in alive, color[p] = "black", gcstate = "propagate", p = v, owner = c
      PROVE  color[owner] = "black"
    <2>1. v \in UpVals \cap Shaded
        BY <1>3, <1>6 DEF Shaded, White, Whites
    <2>2. PICK d \in Closures \cap alive : val[d] = v /\ color[d] = "black"
        BY <1>6, <2>1 DEF Owned
    <2>3. d = c
        BY <1>0, <1>6, <2>2
    <2> QED BY <1>6, <2>2, <2>3
<1>7. \A p \in alive : color[p] = "black" => \/ Strong(p)' = Strong(p)
                                             \/ gcstate = "propagate" => color[owner] = "black"
    BY <1>4, <1>5, <1>6
<1> QED BY <1>1, <1>2, <1>4, <1>5, <1>7, StoreKeepsHeap

------------------------------------------------------------------------------
(* The theorem *)

LEMMA HeapBegins == ASSUME Init PROVE HeapInv
<1> USE DEF Init
<1>1. /\ Main \in Obj /\ None \in Storable /\ None \in Value /\ Main \notin UpVals \cup Udata \cup Closures
      /\ \A H \in Heaps : H \subseteq Obj
    BY Kinds, KindsAssumption DEF Storable, Value
<1>2. HeapTyped
    BY <1>1 DEF HeapTyped
<1>3. Entries
    <2>1. \A o \in Obj : val[o] = None /\ key[o] = None
        OBVIOUS
    <2>2. \A c \in Closures : c \notin alive
        BY <1>1
    <2>3. \A T \in Threads, i \in 1..Slots : stk[T][i] = None
        OBVIOUS
    <2> QED BY <1>1, <2>1, <2>2, <2>3, Kinds DEF Entries
<1>4. Places
    BY DEF Places, Opened
<1>5. Fit = {Main} /\ \A o \in alive : ~Dead(o)
    BY <1>1 DEF Fit, Dead, OtherWhite
<1>6. Kept
    <2>1. Stack(Main) \subseteq {None}
        BY <1>1, Kinds DEF Stack
    <2>2. Elems(running) = {} /\ Elems(tmudata) = {}
        BY DEF Elems
    <2>3. AnyRefs(Main) = {}
        BY <2>1, <2>2, Refs DEF RefsAre
    <2> QED BY <1>5, <2>2, <2>3 DEF Kept, Roots
<1>7. Tints
    BY <1>1, <1>5 DEF Tints
<1>8. SweepGoesOn /\ Lists /\ Traced /\ Owned /\ Doomed
    BY <1>1 DEF SweepGoesOn, Lists, ListsDisjoint, Traced, Owned, Doomed, Marking, Sweeping, InAtomic
<1> QED BY <1>2, <1>3, <1>4, <1>6, <1>7, <1>8 DEF HeapInv

LEMMA CollectorKeepsHeap ==
    ASSUME HeapInv, FinalsInv, closing = "open", Collector
    PROVE  HeapInv'
<1>0. FinalsTyped /\ full \in {"no", "finish", "collect"} /\ depth \in Nat
    BY DEF FinalsInv, HeapInv, HeapTyped
<1>1. CASE StartCycle
    <2>1. /\ gcstate = "pause" /\ markroot /\ doomed' = OutOfReach /\ full' = full /\ depth' = depth
          /\ UNCHANGED <<avail, alive, cw, unswept, heap, finals>>
        BY <1>1 DEF StartCycle
    <2> QED BY <1>0, <2>1, MarkrootKeepsHeap
<1>2. CASE FullMarks
    <2>1. /\ gcstate = "finalize" /\ markroot /\ doomed' = OutOfReach /\ full' = "collect" /\ depth' = depth
          /\ UNCHANGED <<avail, alive, cw, unswept, heap, finals>>
        BY <1>2 DEF FullMarks
    <2> QED BY <1>0, <2>1, MarkrootKeepsHeap
<1>3. CASE Propagate
    BY <1>0, <1>3, PropagateKeepsHeap
<1>4. CASE AtomicStart \/ AtomicWeak \/ AtomicGray
    BY <1>0, <1>4, AtomicStartKeepsHeap, AtomicListsKeepHeap
<1>5. CASE AtomicSeparate \/ AtomicEnd
    BY <1>5, AtomicSeparateKeepsHeap, AtomicEndKeepsHeap
<1>6. CASE \/ gcstate = "sweepstring" /\ \E s \in unswept \cap Strings : Sweep(s) /\ UNCHANGED gcstate
           \/ gcstate = "sweep" /\ \E o \in unswept : Sweep(o) /\ UNCHANGED gcstate
    BY <1>6, SweepKeepsHeap DEF Sweeping
<1>7. CASE /\ gcstate = "sweepstring" /\ unswept \cap Strings = {} /\ gcstate' = "sweep"
           /\ UNCHANGED <<avail, alive, cw, unswept, heap, marks, finals, full, depth, closing, doomed>>
    BY <1>0, <1>7, TurnsKeepHeap DEF marks, finals
<1>8. CASE /\ gcstate = "sweep" /\ unswept = {} /\ gcstate' = "finalize"
           /\ UNCHANGED <<avail, alive, cw, unswept, heap, marks, finals, full, depth, closing, doomed>>
    BY <1>8, SweptKeepsHeap
<1>9. CASE GCTM
    BY <1>9, GCTMKeepsHeap
<1>10. CASE EndCycle
    BY <1>0, <1>10, TurnsKeepHeap DEF EndCycle, marks, finals
<1>11. CASE FullEnds
    BY <1>0, <1>11, TurnsKeepHeap DEF FullEnds, marks, finals
<1>12. SweepString => \/ gcstate = "sweepstring" /\ \E s \in unswept \cap Strings : Sweep(s) /\ UNCHANGED gcstate
                      \/ /\ gcstate = "sweepstring" /\ unswept \cap Strings = {} /\ gcstate' = "sweep"
                         /\ UNCHANGED <<avail, alive, cw, unswept, heap, marks, finals, full, depth, closing, doomed>>
    BY DEF SweepString
<1>13. SweepObject => \/ gcstate = "sweep" /\ \E o \in unswept : Sweep(o) /\ UNCHANGED gcstate
                      \/ /\ gcstate = "sweep" /\ unswept = {} /\ gcstate' = "finalize"
                         /\ UNCHANGED <<avail, alive, cw, unswept, heap, marks, finals, full, depth, closing, doomed>>
    BY DEF SweepObject
<1> QED BY <1>1, <1>2, <1>3, <1>4, <1>5, <1>6, <1>7, <1>8, <1>9, <1>10, <1>11, <1>12, <1>13 DEF Collector

LEMMA ProgramKeepsHeap ==
    ASSUME SetsShared = FALSE, HeapInv, FinalsInv, NEW L \in Threads \cap alive, Program(L)
    PROVE  HeapInv'
<1>0. ~InAtomic /\ (L = Main \/ L \in Stack(Main)) /\ FinalsTyped
    BY DEF Program, FinalsInv
<1>1. ASSUME NEW i \in 1..Slots, NEW o \in avail, NewObject(L, i, o) \/ NewUdata(L, i, o) \/ InternString(L, i, o)
      PROVE  HeapInv'
    BY <1>0, <1>1, NewKeepsHeap
<1>2. ASSUME NEW i \in 1..Slots, NEW c \in Closures, NEW j \in 1..Slots, NEW v \in UpVals, NewClosure(L, i, c, j, v)
      PROVE  HeapInv'
    BY <1>0, <1>2, NewClosureKeepsHeap
<1>3. ASSUME NEW i \in 1..Slots, Load(L, i)
      PROVE  HeapInv'
    <2>1. PICK x \in Reads(L) : Push(L, i, x)
        BY <1>3 DEF Load
    <2>2. x \in Storable /\ x \in Fit \cup {None}
        BY <1>0, ReadsLive
    <2> QED BY <1>0, <2>1, <2>2, PushKeepsHeap DEF Push
<1>4. ASSUME NEW i \in 1..Slots, NEW T \in Threads \ {L}, NEW x \in Stack(L), Give(L, T, i, x)
      PROVE  HeapInv'
    <2>1. x \in Storable /\ x \in Fit \cup {None} /\ T \in Stack(L)
        BY <1>0, <1>4, RunningLives DEF Give
    <2>2. T \in Threads \cap alive
        BY <1>0, <2>1, RunningLives, Kinds
    <2> QED BY <1>0, <1>4, <2>1, <2>2, PushKeepsHeap DEF Give
<1>5. ASSUME NEW i \in 1..Slots, luaF_close(L, i)
      PROVE  HeapInv'
    BY <1>0, <1>5, CloseKeepsHeap
<1>6. ASSUME NEW x \in Stack(L), NEW t \in Tables, NEW k \in (Stack(L) \cup {Num}) \ {None}, SetTable(L, t, k, x)
      PROVE  HeapInv'
    BY <1>0, <1>6, SetTableKeepsHeap
<1>7. ASSUME NEW x \in Stack(L), NEW o \in Udata \cup Protos, SetField(L, o, x)
      PROVE  HeapInv'
    BY <1>0, <1>7, SetFieldKeepsHeap
<1>8. ASSUME NEW x \in Stack(L), NEW c \in Closures, SetUpval(L, c, x) \/ lua_setupvalue(L, c, x)
      PROVE  HeapInv'
    <2>1. c \in Stack(L) /\ c # val[c]
        <3>1. c \in Stack(L)
            BY <1>8 DEF SetUpval, lua_setupvalue
        <3>2. val[c] \in UpVals \cup {None}
            BY DEF HeapInv, Entries
        <3> QED BY <3>1, <3>2, Kinds
    <2>2. CASE SetUpval(L, c, x)
        <3>1. StoreUpval(val[c], x, val[c])
            BY <2>2 DEF SetUpval
        <3> QED BY <1>0, <2>1, <3>1, StoreUpvalKeepsHeap
    <2>3. CASE lua_setupvalue(L, c, x)
        <3>1. StoreUpval(val[c], x, c) /\ \A d \in (Closures \cap alive) \ {c} : val[d] # val[c]
            BY <2>3 DEF lua_setupvalue
        <3> QED BY <1>0, <2>1, <3>1, StoreUpvalKeepsHeap
    <2> QED BY <1>8, <2>2, <2>3
<1> QED BY <1>1, <1>2, <1>3, <1>4, <1>5, <1>6, <1>7, <1>8 DEF Program

LEMMA HeapGoesOn ==
    ASSUME SetsShared = FALSE, FinalsInv, closing = "open" => HeapInv, [Next]_vars, closing' = "open"
    PROVE  HeapInv'
<1>1. ~lua_close /\ ~luaC_freeall /\ closing = "open"
    <2>1. lua_close => closing' = "closing"
        BY DEF lua_close
    <2>2. luaC_freeall => closing' = "closed"
        BY DEF luaC_freeall
    <2>3. Next \/ UNCHANGED closing
        BY DEF vars
    <2>4. Next => lua_close \/ luaC_freeall \/ closing' = closing
        BY StepsOfFinals DEF Quiet, NewUdata, Sweep, AtomicSeparate, AtomicEnd, GCTM
    <2> QED BY <2>1, <2>2, <2>3, <2>4
<1>2. HeapInv
    BY <1>1
<1>3. CASE Collector
    BY <1>1, <1>2, <1>3, CollectorKeepsHeap
<1>4. CASE FullGC
    BY <1>1, <1>2, <1>4, FullGCKeepsHeap
<1>5. CASE FinalizerReturns
    BY <1>2, <1>5, ReturnKeepsHeap DEF FinalsInv
<1>6. CASE \E L \in Threads \cap alive : Program(L)
    BY <1>2, <1>6, ProgramKeepsHeap
<1>7. CASE UNCHANGED vars
    BY <1>2, <1>7, TurnsKeepHeap DEF vars, marks, finals, HeapInv, HeapTyped
<1> QED BY <1>1, <1>3, <1>4, <1>5, <1>6, <1>7 DEF Next

LEMMA HeapInductive == ASSUME SetsShared = FALSE PROVE Spec => [](FinalsInv /\ (closing = "open" => HeapInv))
<1>1. Init => FinalsInv /\ (closing = "open" => HeapInv)
    BY FinalsBegin, HeapBegins
<1>2. FinalsInv /\ (closing = "open" => HeapInv) /\ [Next]_vars => FinalsInv' /\ (closing = "open" => HeapInv)'
    BY FinalsGoOn, HeapGoesOn
<1> QED BY <1>1, <1>2, PTL DEF Spec

\* Until the state is closed the types and the lists are right, no object is black between
\* collections (the assertions of the barriers), a collection frees all that was out of reach when it
\* began, and what a program can reach is there and is not condemned, whatever the program stores
\* and whenever: if lua_setupvalue is called only for closures that share no upvalue.
THEOREM HeapIsSound == ASSUME SetsShared = FALSE PROVE Spec => []HeapSound
<1>1. ASSUME FinalsInv, HeapInv, closing = "open"
      PROVE  TypeOK /\ ListsDisjoint /\ NoBlackBetween /\ LiveKept /\ CycleCollects
    <2> USE <1>1 DEF HeapInv, FinalsInv
    <2>1. TypeOK
        <3>1. key \in [Obj -> Value \cup {Num}] /\ stk \in [Threads -> [1..Slots -> Value]]
            <4>1. Storable \subseteq Value
                BY Stored
            <4> QED BY <4>1 DEF HeapTyped
        <3>2. gray \subseteq Obj /\ grayagain \subseteq Obj /\ weak \subseteq Tables
            BY Kinds DEF Lists, Listable
        <3> QED BY <3>1, <3>2 DEF TypeOK, HeapTyped, FinalsTyped, Colours
    <2>2. ListsDisjoint
        BY DEF Lists
    <2>3. NoBlackBetween
        <3>1. gcstate \in {"pause", "finalize"} => ~Marking /\ ~Sweeping
            BY DEF Marking, Sweeping, InAtomic
        <3>2. gcstate \in {"pause", "finalize"} => \A o \in alive : color[o] = cw \/ o \in Elems(tmudata)
            BY <3>1 DEF SweepGoesOn, Places
        <3> QED BY <3>2 DEF NoBlackBetween, White, FinalsTyped
    <2>4. CycleCollects
        BY DEF CycleCollects, Doomed, Marking, Sweeping, InAtomic
    <2>5. LiveKept
        <3> DEFINE S == Roots \cup Elems(tmudata)
        <3>1. Fit \in SUBSET alive /\ S \subseteq Fit /\ \A o \in Fit : AnyRefs(o) \subseteq Fit
            BY DEF Kept, Fit
        <3>2. S \cap alive \subseteq Fit /\ \A p \in Fit : AnyRefs(p) \cap alive \subseteq Fit
            BY <3>1
        <3> HIDE DEF S
        <3>3. Reach(S) \subseteq Fit
            BY <3>1, <3>2, Reached
        <3>4. \A o \in Fit : o \in alive /\ ~Dead(o)
            BY DEF Fit
        <3>5. \A o \in Reach(S) : \A p \in {o} \cup AnyRefs(o) : p \in alive /\ ~Dead(p)
            BY <3>1, <3>3, <3>4
        <3> QED BY <3>5 DEF LiveKept, S
    <2> QED BY <2>1, <2>2, <2>3, <2>4, <2>5
<1>2. FinalsInv /\ (closing = "open" => HeapInv) => HeapSound
    BY <1>1 DEF HeapSound, LiveIsKept, FinalsInv, Counted, FinalizedOnce
<1> QED BY <1>2, HeapInductive, PTL
=============================================================================
