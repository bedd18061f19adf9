------------------------------- MODULE LuaGC -------------------------------
(***************************************************************************)
(* The incremental garbage collector of the bundled Lua (lgc.c), with the  *)
(* operations of the interpreter that interleave with it: objects are      *)
(* made, stored and dropped between any two steps of a collection, write   *)
(* barriers keep the marks right, finalizers run Lua code inside a step.   *)
(*                                                                         *)
(* An object is a member of one of the constant sets below and may be made *)
(* again once it is freed. A table holds one entry, its key a collectable  *)
(* object or Num (an array slot, a number); a closure one upvalue; a       *)
(* prototype one constant. Sizes and thresholds, which decide only when    *)
(* the next step is taken, are left open: a step may always be taken.      *)
(***************************************************************************)
EXTENDS Integers, Sequences, FiniteSets

CONSTANTS
    Tables, Strings, Udata, Closures, UpVals, Protos,
    Threads, Main,      \* Main is the thread that is never freed
    WeakKeys,           \* tables whose metatable has a "k" in __mode
    WeakValues,         \* tables whose metatable has a "v" in __mode
    HasGC,              \* userdata whose metatable has a __gc
    Heaps,              \* the sets of objects an instance may make
    Slots,              \* number of stack slots of a thread
    CloseAllowed,       \* whether the state is closed in the end
    SetsShared          \* whether lua_setupvalue is called for closures that share their upvalue

Obj == Tables \cup Strings \cup Udata \cup Closures \cup UpVals \cup Protos \cup Threads
None == "nil"
Num == "number"
Value == Obj \cup {None}

ASSUME KindsAssumption ==
    /\ Main \in Threads
    /\ None \notin Obj /\ Num \notin Obj
    /\ WeakKeys \subseteq Tables /\ WeakValues \subseteq Tables /\ HasGC \subseteq Udata
    /\ Slots \in Nat \ {0}
    /\ \A H \in Heaps : H \subseteq Obj
    /\ LET kinds == <<Tables, Strings, Udata, Closures, UpVals, Protos, Threads>>
       IN  \A i, j \in DOMAIN kinds : i # j => kinds[i] \cap kinds[j] = {}

VARIABLES
    avail,      \* the objects of this instance
    alive,      \* allocated objects
    color,      \* the mark of each object: two whites, gray, black
    cw,         \* currentwhite
    gcstate,
    gray, grayagain, weak,   \* the three lists that share the field gclist
    unswept,    \* objects the sweep has still to visit
    key, val,   \* entry of a table; val is also an upvalue's own value, a closure's upvalue,
                \* a userdata's environment, a prototype's constant
    stk,        \* stack of each thread
    at,         \* where an open upvalue lives: <<thread, slot>>; <<>> when closed
    udlist,     \* userdata, youngest first (the list after the main thread)
    tmudata,    \* userdata whose finalizer is to be called, in that order
    finalized,  \* FINALIZEDBIT
    running,    \* finalizers being called, innermost last; each has its userdata on the stack
    full,       \* lua_gc(COLLECT) in progress: its phase
    depth,      \* and the number of finalizers that called it
    closing,    \* lua_close
    calls,      \* history: times the finalizer of each userdata was called
    batch,      \* history: userdata separated by the last atomic step, in order
    doomed      \* history: objects out of reach when the collection started

heap == <<key, val, stk, at>>
marks == <<color, gray, grayagain, weak>>
finals == <<udlist, tmudata, finalized, running, calls, batch>>
vars == <<avail, alive, cw, gcstate, unswept, heap, marks, finals, full, depth, closing, doomed>>

Whites == {"white0", "white1"}
OtherWhite == IF cw = "white0" THEN "white1" ELSE "white0"
White(o) == color[o] \in Whites
Dead(o) == color[o] = OtherWhite
Stack(L) == {stk[L][i] : i \in 1..Slots}
Content(v) == IF at[v] = <<>> THEN val[v] ELSE stk[at[v][1]][at[v][2]]
Elems(s) == {s[i] : i \in DOMAIN s}
Collectable(S) == S \ {None, Num}

\* The members of T that are in the list q, in its order; of a list without repetitions there is one.
Filtered(q, T) ==
    {r \in UNION {[1..n -> Elems(q) \cap T] : n \in 0..Len(q)} :
        /\ Elems(r) = Elems(q) \cap T
        /\ \A i, j \in DOMAIN r :
             i < j => \E a, b \in DOMAIN q : a < b /\ r[i] = q[a] /\ r[j] = q[b]}

\* The objects that marking o marks: weak parts of a table are left out, and so is its entry
\* when the value is nil.
Strong(o) ==
    Collectable(
      CASE o \in Tables -> IF val[o] = None THEN {}
                           ELSE (IF o \in WeakKeys THEN {} ELSE {key[o]})
                                \cup (IF o \in WeakValues THEN {} ELSE {val[o]})
        [] o \in UpVals -> {Content(o)}
        [] o \in Threads -> Stack(o) \cup (IF o = Main THEN Elems(running) ELSE {})
        [] OTHER -> {val[o]})

------------------------------------------------------------------------------
(* Marking *)

\* reallymarkobject for the objects S: it goes on through upvalues and userdata, which are never
\* in the gray list.
Marked(col, S) ==
    LET W(T) == {o \in Collectable(T) : col[o] \in Whites}
        direct == W(S)
        below == direct \cup W({Content(v) : v \in direct \cap UpVals})
    IN below \cup W({val[u] : u \in below \cap Udata})
Painted(col, M) ==
    [o \in Obj |-> IF o \notin M THEN col[o]
                   ELSE IF o \in Udata \/ (o \in UpVals /\ at[o] = <<>>) THEN "black" ELSE "gray"]
Listed(M) == M \ (Udata \cup UpVals \cup Strings)

markroot ==
    LET M == Marked(color, {Main})
    IN  /\ color' = Painted(color, M)
        /\ gray' = Listed(M) /\ grayagain' = {} /\ weak' = {}
        /\ gcstate' = "propagate"

propagatemark(o) ==
    LET M == Marked(color, Strong(o))
        isweak == o \in WeakKeys \cup WeakValues
    IN  /\ color' = [Painted(color, M) EXCEPT ![o] = IF o \in Threads \/ isweak THEN "gray" ELSE "black"]
        /\ gray' = (gray \ {o}) \cup Listed(M)
        /\ grayagain' = IF o \in Threads THEN grayagain \cup {o} ELSE grayagain
        /\ weak' = IF isweak THEN weak \cup {o} ELSE weak

Idle == full = "no" \/ Len(running) > depth     \* Lua code runs, not the loops of a full collection
InAtomic == gcstate \in {"atomic1", "atomic2", "atomic3", "atomic4"}

AnyRefs(o) == IF o \in Tables THEN (IF val[o] = None THEN {} ELSE Collectable({key[o], val[o]})) ELSE Strong(o)
\* What is reached from S along all references.
Reach(S) == {o \in alive : \A X \in SUBSET alive :
                  (S \cap alive \subseteq X /\ \A p \in X : AnyRefs(p) \cap alive \subseteq X) => o \in X}
Roots == {Main} \cup Elems(running)
OpenOf(T) == {v \in UpVals \cap alive : at[v] # <<>> /\ at[v][1] \in T}
MayStay == Roots \cup Elems(tmudata) \cup (HasGC \ finalized) \cup Strings
OutOfReach == alive \ (LET R == Reach(MayStay) IN R \cup OpenOf(R))

StartCycle ==
    /\ gcstate = "pause" /\ full = "no" /\ closing # "closed"
    /\ markroot
    /\ doomed' = OutOfReach
    /\ UNCHANGED <<avail, alive, cw, unswept, heap, finals, full, depth, closing>>

Propagate ==
    /\ gcstate \in {"propagate", "atomic1", "atomic2", "atomic3", "atomic4"}
    /\ \E o \in gray : propagatemark(o)
    /\ UNCHANGED <<avail, alive, cw, gcstate, unswept, heap, finals, full, depth, closing, doomed>>

------------------------------------------------------------------------------
(* The atomic step. Its calls of propagateall are steps of Propagate; Lua code does not run. *)

AtomicStart ==      \* remarkupvals
    /\ gcstate = "propagate" /\ gray = {}
    /\ LET M == Marked(color, {Content(v) : v \in {u \in UpVals \cap alive : at[u] # <<>> /\ color[u] = "gray"}})
       IN  color' = Painted(color, M) /\ gray' = Listed(M)
    /\ gcstate' = "atomic1"
    /\ UNCHANGED <<avail, alive, cw, unswept, heap, grayagain, weak, finals, full, depth, closing, doomed>>

AtomicWeak ==       \* remark weak tables
    /\ gcstate = "atomic1" /\ gray = {}
    /\ gray' = weak /\ weak' = {} /\ gcstate' = "atomic2"
    /\ UNCHANGED <<avail, alive, cw, unswept, heap, color, grayagain, finals, full, depth, closing, doomed>>

AtomicGray ==       \* remark gray again
    /\ gcstate = "atomic2" /\ gray = {}
    /\ gray' = grayagain /\ grayagain' = {} /\ gcstate' = "atomic3"
    /\ UNCHANGED <<avail, alive, cw, unswept, heap, color, weak, finals, full, depth, closing, doomed>>

\* luaC_separateudata: the userdata p of the list leave it for tmudata if they have a finalizer;
\* the others need none.
Separate(p) ==
    LET out == {u \in p : u \notin finalized}
    IN  /\ batch' \in Filtered(udlist, out \cap HasGC)
        /\ tmudata' = tmudata \o batch'
        /\ udlist' \in Filtered(udlist, Obj \ (out \cap HasGC))
        /\ finalized' = finalized \cup out

AtomicSeparate ==   \* luaC_separateudata(L, 0), marktmu
    /\ gcstate = "atomic3" /\ gray = {}
    /\ Separate({u \in Elems(udlist) : White(u)})
    /\ LET whitened == [o \in Obj |-> IF o \in Elems(tmudata') THEN cw ELSE color[o]]
           M == Marked(whitened, Elems(tmudata'))
       IN  color' = Painted(whitened, M) /\ gray' = Listed(M)
    /\ gcstate' = "atomic4"
    /\ UNCHANGED <<avail, alive, cw, unswept, heap, grayagain, weak, running, calls, full, depth, closing, doomed>>

iscleared(o, iskey) ==
    /\ o \in Obj \ Strings
    /\ White(o) \/ (o \in Udata /\ ~iskey /\ o \in finalized)
Cleared == {t \in weak : val[t] # None /\ (iscleared(key[t], TRUE) \/ iscleared(val[t], FALSE))}

AtomicEnd ==        \* cleartable, flip of the whites
    /\ gcstate = "atomic4" /\ gray = {}
    /\ key' = [t \in Obj |-> IF t \in Cleared THEN None ELSE key[t]]
    /\ val' = [t \in Obj |-> IF t \in Cleared THEN None ELSE val[t]]
    /\ LET kept == (UNION {{key[t], val[t]} : t \in weak \ Cleared}) \cap Strings
       IN  color' = [o \in Obj |-> IF o \in kept /\ White(o) THEN "gray" ELSE color[o]]
    /\ cw' = OtherWhite
    /\ unswept' = alive \ (Elems(tmudata) \cup {v \in UpVals : at[v] # <<>>})
    /\ gcstate' = "sweepstring"
    /\ UNCHANGED <<avail, alive, stk, at, gray, grayagain, weak, finals, full, depth, closing, doomed>>

------------------------------------------------------------------------------
(* Sweeping and freeing *)

\* The objects F are freed. Open upvalues of a freed thread are closed (luaE_freethread).
Free(F) ==
    LET orphan(v) == v \in UpVals \ F /\ at[v] # <<>> /\ at[v][1] \in F
    IN  /\ alive' = alive \ F
        /\ val' = [o \in Obj |-> IF o \in F THEN None ELSE IF orphan(o) THEN Content(o) ELSE val[o]]
        /\ key' = [o \in Obj |-> IF o \in F THEN None ELSE key[o]]
        /\ stk' = [L \in Threads |-> IF L \in F THEN [i \in 1..Slots |-> None] ELSE stk[L]]
        /\ at' = [v \in UpVals |-> IF v \in F \/ orphan(v) THEN <<>> ELSE at[v]]
        /\ udlist' \in Filtered(udlist, Obj \ F)
        /\ finalized' = finalized \ F
        /\ doomed' = doomed \ F
        /\ calls' = [u \in Udata |-> IF u \in F THEN 0 ELSE calls[u]]

\* sweeplist visits o, and with a thread its open upvalues.
Sweep(o) ==
    LET visited == {o} \cup OpenOf({o})
        F == {p \in visited : Dead(p)}
    IN  /\ Free(F)
        /\ color' = [p \in Obj |-> IF p \in visited THEN cw ELSE color[p]]
        /\ unswept' = unswept \ {o}
        /\ UNCHANGED <<avail, cw, gray, grayagain, weak, tmudata, running, batch, full, depth, closing>>

SweepString ==
    /\ gcstate = "sweepstring"
    /\ \/ \E s \in unswept \cap Strings : Sweep(s) /\ UNCHANGED gcstate
       \/ /\ unswept \cap Strings = {}
          /\ gcstate' = "sweep"
          /\ UNCHANGED <<avail, alive, cw, unswept, heap, marks, finals, full, depth, closing, doomed>>

SweepObject ==
    /\ gcstate = "sweep"
    /\ \/ \E o \in unswept : Sweep(o) /\ UNCHANGED gcstate
       \/ /\ unswept = {}
          /\ gcstate' = "finalize"
          /\ UNCHANGED <<avail, alive, cw, unswept, heap, marks, finals, full, depth, closing, doomed>>

\* Mutant of GCTM: the last separated is called first.
GCTMLast ==
    /\ Len(running) < 2 /\ tmudata # <<>>
    /\ gcstate = "finalize" \/ (closing = "closing" /\ running = <<>> /\ ~InAtomic)
    /\ LET u == tmudata[Len(tmudata)]
       IN  /\ tmudata' = SubSeq(tmudata, 1, Len(tmudata) - 1)
           /\ udlist' = <<u>> \o udlist
           /\ color' = [color EXCEPT ![u] = cw]
           /\ running' = Append(running, u)
           /\ calls' = [calls EXCEPT ![u] = @ + 1]
           /\ UNCHANGED <<avail, alive, cw, gcstate, unswept, heap, gray, grayagain, weak, finalized, batch, full, depth, closing, doomed>>

\* GCTM: the first userdata of tmudata goes back to the list, and its finalizer is called.
GCTM ==
    /\ Len(running) < 2         \* bound of the instance: finalizers inside finalizers
    /\ tmudata # <<>>
    /\ gcstate = "finalize" \/ (closing = "closing" /\ running = <<>> /\ ~InAtomic)
    /\ LET u == Head(tmudata)
       IN  /\ tmudata' = Tail(tmudata)
           /\ udlist' = <<u>> \o udlist
           /\ color' = [color EXCEPT ![u] = cw]
           /\ running' = Append(running, u)
           /\ calls' = [calls EXCEPT ![u] = @ + 1]
           /\ UNCHANGED <<avail, alive, cw, gcstate, unswept, heap, gray, grayagain, weak, finalized, batch, full, depth, closing, doomed>>

FinalizerReturns ==
    /\ running # <<>> /\ ~InAtomic
    /\ Idle
    /\ running' = SubSeq(running, 1, Len(running) - 1)
    /\ UNCHANGED <<avail, alive, cw, gcstate, unswept, heap, marks, udlist, tmudata, finalized, calls, batch, full, depth, closing, doomed>>

EndCycle ==
    /\ gcstate = "finalize" /\ tmudata = <<>>
    /\ gcstate' = "pause"
    /\ UNCHANGED <<avail, alive, cw, unswept, heap, marks, finals, full, depth, closing, doomed>>

------------------------------------------------------------------------------
(* A full collection, and the end of the state *)

FullGC ==
    /\ full = "no" /\ ~InAtomic /\ closing # "closed"
    /\ full' = "finish" /\ depth' = Len(running)
    /\ IF gcstate \in {"pause", "propagate"}
       THEN /\ unswept' = alive \ (Elems(tmudata) \cup {v \in UpVals : at[v] # <<>>})
            /\ gray' = {} /\ grayagain' = {} /\ weak' = {}
            /\ gcstate' = "sweepstring" /\ doomed' = {}
       ELSE UNCHANGED <<unswept, gray, grayagain, weak, gcstate, doomed>>
    /\ UNCHANGED <<avail, alive, cw, heap, color, finals, closing>>

FullMarks ==
    /\ full = "finish" /\ Len(running) = depth
    /\ gcstate = "finalize"
    /\ markroot
    /\ doomed' = OutOfReach
    /\ full' = "collect"
    /\ UNCHANGED <<avail, alive, cw, unswept, heap, finals, closing, depth>>

FullEnds ==
    /\ full = "collect" /\ Len(running) = depth
    /\ gcstate = "pause"
    /\ full' = "no"
    /\ UNCHANGED <<avail, alive, cw, gcstate, unswept, heap, marks, finals, closing, depth, doomed>>

\* luaF_close for the upvalues V: dead ones are freed, the others get their value and are linked
\* into the root list.
CloseUpvals(V) ==
    LET F == {v \in V : Dead(v)}
        greys == {v \in V : color[v] = "gray"}
        M == Marked(color, {Content(v) : v \in greys})
    IN  /\ alive' = alive \ F
        /\ val' = [o \in Obj |-> IF o \in F THEN None ELSE IF o \in V THEN Content(o) ELSE val[o]]
        /\ at' = [v \in UpVals |-> IF v \in V THEN <<>> ELSE at[v]]
        /\ doomed' = doomed \ F
        /\ IF gcstate = "propagate"
           THEN /\ color' = [o \in Obj |-> IF o \in greys THEN "black" ELSE Painted(color, M)[o]]
                /\ gray' = gray \cup Listed(M)
           ELSE /\ color' = [o \in Obj |-> IF o \in greys THEN cw ELSE color[o]]
                /\ UNCHANGED gray

lua_close ==
    /\ CloseAllowed /\ closing = "open" /\ running = <<>> /\ full = "no" /\ ~InAtomic
    /\ closing' = "closing"
    /\ CloseUpvals(OpenOf({Main}))
    /\ Separate(Elems(udlist))
    /\ stk' = [stk EXCEPT ![Main] = [i \in 1..Slots |-> None]]
    /\ UNCHANGED <<avail, cw, gcstate, unswept, key, grayagain, weak, running, calls, full, depth>>

luaC_freeall ==     \* and the state itself
    /\ closing = "closing" /\ tmudata = <<>> /\ running = <<>> /\ full = "no" /\ ~InAtomic
    /\ closing' = "closed"
    /\ alive' = {Main} /\ gcstate' = "pause"
    /\ color' = [o \in Obj |-> cw]
    /\ gray' = {} /\ grayagain' = {} /\ weak' = {} /\ unswept' = {} /\ doomed' = {}
    /\ UNCHANGED <<avail, cw, heap, finals, full, depth>>

------------------------------------------------------------------------------
(* What Lua code does between the steps, in thread L *)

\* luaC_link: a new object is white.
Make(o) == /\ o \in avail \ alive
           /\ alive' = alive \cup {o}

NewObject(L, i, o) ==
    /\ o \in Tables \cup Protos \cup Threads
    /\ Make(o)
    /\ color' = [color EXCEPT ![o] = cw]
    /\ stk' = [stk EXCEPT ![L][i] = o]
    /\ UNCHANGED <<avail, cw, gcstate, unswept, key, val, at, gray, grayagain, weak, finals, full, depth, closing, doomed>>

\* lua_newuserdata
NewUdata(L, i, u) ==
    /\ u \in Udata /\ Make(u)
    /\ color' = [color EXCEPT ![u] = cw]
    /\ udlist' = <<u>> \o udlist
    /\ stk' = [stk EXCEPT ![L][i] = u]
    /\ UNCHANGED <<avail, cw, gcstate, unswept, key, val, at, gray, grayagain, weak, tmudata, finalized, running, calls, batch, full, depth, closing, doomed>>

\* luaS_newlstr: a string that is still there is used again, though it may be dead.
InternString(L, i, s) ==
    /\ s \in avail \cap Strings
    /\ alive' = alive \cup {s}
    /\ color' = [color EXCEPT ![s] = IF s \notin alive \/ Dead(s) THEN cw ELSE @]
    /\ stk' = [stk EXCEPT ![L][i] = s]
    /\ UNCHANGED <<avail, cw, gcstate, unswept, key, val, at, gray, grayagain, weak, finals, full, depth, closing, doomed>>

\* OP_CLOSURE: a closure over slot j. luaF_findupval uses an upvalue again that is open for the
\* slot, though it may be dead; else it makes one.
NewClosure(L, i, c, j, v) ==
    LET found == {u \in OpenOf({L}) : at[u] = <<L, j>>}
    IN  /\ c \in (Closures \cap avail) \ alive
        /\ IF found # {} THEN v \in found ELSE v \in (UpVals \cap avail) \ alive
        /\ alive' = alive \cup {c, v}
        /\ color' = [color EXCEPT ![c] = cw, ![v] = IF found = {} \/ Dead(v) THEN cw ELSE @]
        /\ at' = [at EXCEPT ![v] = <<L, j>>]
        /\ val' = [val EXCEPT ![c] = v]
        /\ stk' = [stk EXCEPT ![L][i] = c]
        /\ UNCHANGED <<avail, cw, gcstate, unswept, key, gray, grayagain, weak, finals, full, depth, closing, doomed>>

\* The stack needs no barrier: a thread is never black.
Push(L, i, x) ==
    /\ stk' = [stk EXCEPT ![L][i] = x]
    /\ UNCHANGED <<avail, alive, cw, gcstate, unswept, key, val, at, marks, finals, full, depth, closing, doomed>>

\* What thread L can put on its stack: nil, values of its own stack or of a thread there, entries
\* of tables, upvalues of closures, environments, its own userdata in a finalizer.
Reads(L) ==
    {None} \cup Elems(running) \cup Stack(L)
        \cup (UNION {Stack(T) : T \in Stack(L) \cap Threads})
        \cup Collectable(UNION {{key[t], val[t]} : t \in Stack(L) \cap Tables})
        \cup {val[o] : o \in Stack(L) \cap (Udata \cup Protos)}
        \cup {Content(val[c]) : c \in Stack(L) \cap Closures}

Load(L, i) == \E x \in Reads(L) \ {stk[L][i]} : Push(L, i, x)

\* lua_xmove, and the arguments of lua_resume
Give(L, T, i, x) ==
    /\ T \in Stack(L) \cap Threads
    /\ stk' = [stk EXCEPT ![T][i] = x]
    /\ UNCHANGED <<avail, alive, cw, gcstate, unswept, key, val, at, marks, finals, full, depth, closing, doomed>>

\* luaC_barrierf under the condition of luaC_barrier: o, which is not a table, has got v.
barrierf(o, v) ==
    IF v \in Obj /\ White(v) /\ color[o] = "black"
    THEN IF gcstate = "propagate"
         THEN LET M == Marked(color, {v})
              IN  color' = Painted(color, M) /\ gray' = gray \cup Listed(M)
         ELSE color' = [color EXCEPT ![o] = cw] /\ UNCHANGED gray
    ELSE UNCHANGED <<color, gray>>

\* Mutant of barrierback: only the value is looked at.
barrierbackValue(t, k, x) ==
    IF x \in Obj /\ White(x) /\ color[t] = "black"
    THEN color' = [color EXCEPT ![t] = "gray"] /\ grayagain' = grayagain \cup {t}
    ELSE UNCHANGED <<color, grayagain>>

\* luaC_barrierback under the condition of luaC_barriert: table t has got k and x.
barrierback(t, k, x) ==
    IF color[t] = "black" /\ \E o \in {k, x} \cap Obj : White(o)
    THEN color' = [color EXCEPT ![t] = "gray"] /\ grayagain' = grayagain \cup {t}
    ELSE UNCHANGED <<color, grayagain>>

\* lua_rawset: the entry is free, or has this key.
SetTable(L, t, k, x) ==
    /\ t \in Stack(L) \cap Tables
    /\ val[t] # None => key[t] = k
    /\ <<key[t], val[t]>> # <<k, x>> /\ (x = None => val[t] # None)
    /\ key' = [key EXCEPT ![t] = IF x = None THEN None ELSE k]
    /\ val' = [val EXCEPT ![t] = x]
    /\ barrierback(t, k, x)
    /\ UNCHANGED <<avail, alive, cw, gcstate, unswept, stk, at, gray, weak, finals, full, depth, closing, doomed>>

\* lua_setfenv of a userdata, luaK_codeK's constants of a prototype that is being compiled
SetField(L, o, x) ==
    /\ \/ o \in Stack(L) \cap Udata /\ x \in Tables
       \/ o \in Stack(L) \cap Protos /\ x \in Strings \cup Protos
    /\ val[o] # x
    /\ val' = [val EXCEPT ![o] = x]
    /\ barrierf(o, x)
    /\ UNCHANGED <<avail, alive, cw, gcstate, unswept, key, stk, at, grayagain, weak, finals, full, depth, closing, doomed>>

\* The upvalue v gets x, and owner is what the barrier is told of.
StoreUpval(v, x, owner) ==
    /\ Content(v) # x
    /\ IF at[v] = <<>>
       THEN val' = [val EXCEPT ![v] = x] /\ UNCHANGED stk
       ELSE stk' = [stk EXCEPT ![at[v][1]][at[v][2]] = x] /\ UNCHANGED val
    /\ barrierf(owner, x)
    /\ UNCHANGED <<avail, alive, cw, gcstate, unswept, key, at, grayagain, weak, finals, full, depth, closing, doomed>>

\* OP_SETUPVAL
SetUpval(L, c, x) == c \in Stack(L) \cap Closures /\ StoreUpval(val[c], x, val[c])

\* lua_setupvalue: the barrier is that of the closure.
lua_setupvalue(L, c, x) ==
    /\ c \in Stack(L) \cap Closures
    /\ SetsShared \/ \A d \in (Closures \cap alive) \ {c} : val[d] # val[c]
    /\ StoreUpval(val[c], x, c)

\* OP_CLOSE and return: the upvalues of slot j and above.
luaF_close(L, j) ==
    LET V == {v \in OpenOf({L}) : at[v][2] >= j}
    IN  /\ V # {}
        /\ CloseUpvals(V)
        /\ UNCHANGED <<avail, cw, gcstate, unswept, key, stk, grayagain, weak, finals, full, depth, closing>>

Collector ==
    \/ StartCycle \/ Propagate \/ AtomicStart \/ AtomicWeak \/ AtomicGray \/ AtomicSeparate \/ AtomicEnd
    \/ SweepString \/ SweepObject \/ GCTM \/ EndCycle \/ FullMarks \/ FullEnds

Program(L) ==
  /\ Idle /\ ~InAtomic /\ closing # "closed"
  /\ closing = "closing" => running # <<>>
  /\ L = Main \/ L \in Stack(Main)
  /\ \/ \E i \in 1..Slots :
          \/ \E o \in avail : NewObject(L, i, o) \/ NewUdata(L, i, o) \/ InternString(L, i, o)
          \/ \E c \in Closures, j \in 1..Slots, v \in UpVals : NewClosure(L, i, c, j, v)
          \/ Load(L, i)
          \/ \E T \in Threads \ {L}, x \in Stack(L) : Give(L, T, i, x)
          \/ luaF_close(L, i)
     \/ \E x \in Stack(L) :
          \/ \E t \in Tables, k \in (Stack(L) \cup {Num}) \ {None} : SetTable(L, t, k, x)
          \/ \E o \in Udata \cup Protos : SetField(L, o, x)
          \/ \E c \in Closures : SetUpval(L, c, x) \/ lua_setupvalue(L, c, x)

Init ==
    /\ avail \in Heaps
    /\ alive = {Main}
    /\ color = [o \in Obj |-> "white0"] /\ cw = "white0"
    /\ gcstate = "pause"
    /\ gray = {} /\ grayagain = {} /\ weak = {} /\ unswept = {}
    /\ key = [o \in Obj |-> None] /\ val = [o \in Obj |-> None]
    /\ stk = [L \in Threads |-> [i \in 1..Slots |-> None]]
    /\ at = [v \in UpVals |-> <<>>]
    /\ udlist = <<>> /\ tmudata = <<>> /\ finalized = {} /\ running = <<>>
    /\ full = "no" /\ depth = 0 /\ closing = "open"
    /\ calls = [u \in Udata |-> 0] /\ batch = <<>> /\ doomed = {}

Next ==
    \/ Collector
    \/ FullGC \/ FinalizerReturns \/ lua_close \/ luaC_freeall
    \/ \E L \in Threads \cap alive : Program(L)

Spec == Init /\ [][Next]_vars

------------------------------------------------------------------------------
(* Properties *)

TypeOK ==
    /\ avail \in Heaps /\ alive \subseteq Obj /\ unswept \subseteq alive /\ doomed \subseteq alive
    /\ color \in [Obj -> Whites \cup {"gray", "black"}] /\ cw \in Whites
    /\ gcstate \in {"pause", "propagate", "atomic1", "atomic2", "atomic3", "atomic4",
                    "sweepstring", "sweep", "finalize"}
    /\ gray \subseteq Obj /\ grayagain \subseteq Obj /\ weak \subseteq Tables
    /\ key \in [Obj -> Value \cup {Num}] /\ val \in [Obj -> Value]
    /\ stk \in [Threads -> [1..Slots -> Value]]
    /\ at \in [UpVals -> {<<>>} \cup (Threads \X (1..Slots))]
    /\ udlist \in Seq(Udata) /\ tmudata \in Seq(Udata) /\ running \in Seq(Udata)
    /\ finalized \subseteq Udata /\ calls \in [Udata -> Nat] /\ batch \in Seq(Udata)
    /\ full \in {"no", "finish", "collect"} /\ depth \in Nat
    /\ closing \in {"open", "closing", "closed"}

\* What a program can reach is there and is not condemned by the sweep in progress, weak entries
\* included (barriers of lgc.c:661-682, linkupval :694, resurrection of strings and upvalues).
LiveKept ==
    \A o \in Reach(Roots \cup Elems(tmudata)) :
        \A p \in {o} \cup AnyRefs(o) : p \in alive /\ ~Dead(p)

\* Until lua_close: its GCTM makes userdata white that a collection in progress has marked already.
LiveIsKept == closing = "open" => LiveKept

\* The three lists are linked through one field, gclist: no object is in two of them.
ListsDisjoint == gray \cap grayagain = {} /\ gray \cap weak = {} /\ grayagain \cap weak = {}

\* A barrier is never called between collections (assertions lgc.c:664, 678): nothing is black
\* then, but userdata that wait for their finalizers.
NoBlackBetween ==
    gcstate \in {"pause", "finalize"} =>
        \A o \in alive : White(o) \/ o \in Elems(tmudata)

\* What nothing referred to when a collection started is freed by its end.
CycleCollects == gcstate = "finalize" => doomed = {}

\* The finalizer of a userdata is called once, however it is resurrected, and never for one without.
FinalizedOnce == \A u \in Udata : calls[u] <= IF u \in HasGC THEN 1 ELSE 0

\* The heap until lua_close: the lists and colours are consistent, what lives is kept and what is
\* dead goes. Finalizers run once, then too.
HeapSound ==
    /\ closing = "open" => TypeOK /\ ListsDisjoint /\ NoBlackBetween /\ LiveIsKept /\ CycleCollects
    /\ FinalizedOnce

\* Of the userdata found dead in one collection the youngest is finalized first.
YoungestFirst ==
    [][\A i, j \in DOMAIN batch :
        i < j /\ calls'[batch[j]] > calls[batch[j]] => batch[i] \notin Elems(tmudata')]_vars

\* lua_close finalizes every userdata that is there: each waits for its finalizer when it begins,
\* unless it has been called, and none waits in the end, whatever the finalizers do meanwhile.
CloseFinalizes ==
    [][/\ closing # closing' /\ closing' = "closing" =>
            \A u \in HasGC \cap alive : calls[u] = 0 => u \in Elems(tmudata')
       /\ closing # closing' /\ closing' = "closed" =>
            \A u \in HasGC \cap alive : u \in finalized => calls[u] = 1]_vars

\* Finalizers are called in order, and those that are left by lua_close.
FinalizersRun == YoungestFirst /\ CloseFinalizes
=============================================================================
