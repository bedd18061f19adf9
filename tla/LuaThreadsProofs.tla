-------------------------- MODULE LuaThreadsProofs --------------------------
(***************************************************************************)
(* Theorems about calls, errors and coroutines, for any number of          *)
(* coroutines and any limits.                                              *)
(*                                                                         *)
(* The invariant (ThreadsInv) goes along the C stack. At each activation   *)
(* it says how many entries into luaV_execute, frames, hooks and protected *)
(* calls there are up to it; what a thread records of itself agrees with   *)
(* that at the last of its activations, and what luaD_pcall has saved      *)
(* agrees with it at the function that called it. So an error that goes    *)
(* back to the setjmp point finds what was true there.                     *)
(***************************************************************************)
EXTENDS LuaThreads, FiniteSetTheorems, TLAPS

Kinds == {"execute", "cfunction", "hook", "try"}
Stages == {"start", "failed", "done"}

ExecuteRecs == [k : {"execute"}, th : States, n : Nat \ {0}, handler : BOOLEAN]
CFunctionRecs == [k : {"cfunction"}, th : States, f : Functions, stage : Stages]
HookRecs == [k : {"hook"}, th : States, ah : BOOLEAN]
PcallRecs == [k : {"try"}, th : States, by : {"pcall"}, calls : 0..LimitCCalls, ci : Nat, ah : BOOLEAN, ef : BOOLEAN]
ResumeRecs == [k : {"try"}, th : Coroutines, by : {"resume"}]
Activations == ExecuteRecs \cup CFunctionRecs \cup HookRecs \cup PcallRecs \cup ResumeRecs

\* luaD_pcall of the main program
FirstCall == [k |-> "try", th |-> MainThread, by |-> "pcall", calls |-> 0, ci |-> 0, ah |-> TRUE, ef |-> FALSE]

IsPcall(e) == e.k = "try" /\ e.by = "pcall"
IsResume(e) == e.k = "try" /\ e.by = "resume"

------------------------------------------------------------------------------
(* What there is among the first i activations of a stack s *)

Execs(s, i) == Cardinality({j \in 1..i : s[j].k = "execute"})
ExecsOf(s, L, i) == Cardinality({j \in 1..i : s[j].k = "execute" /\ s[j].th = L})
FrameSet(s, L, i) == UNION {{j} \X (1..Runs(s[j])) : j \in {m \in 1..i : s[m].th = L}}
Frames(s, L, i) == Cardinality(FrameSet(s, L, i))
HandlerIn(s, i) == \E j \in 1..i : s[j].k = "execute" /\ s[j].handler
HookIn(s, L, i) == \E j \in 1..i : s[j].th = L /\ s[j].k = "hook"
PcallOf(s, L, j) == s[j].th = L /\ IsPcall(s[j])
\* The innermost protected call of L is one of xpcall.
Handled(s, L, i) ==
    \E j \in 2..i : /\ PcallOf(s, L, j) /\ s[j - 1].f = "xpcall"
                    /\ \A m \in 2..i : PcallOf(s, L, m) => m <= j

------------------------------------------------------------------------------
(* The invariant *)

ThreadsTyped ==
    /\ cstack \in Seq(Activations)
    /\ base_ci \in [States -> Seq({"lua", "c"})]
    /\ nCcalls \in [States -> Nat] /\ baseCcalls \in [States -> Nat]
    /\ errfunc \in [States -> BOOLEAN] /\ allowhook \in [States -> BOOLEAN]
    /\ size_ci \in [States -> Nat] /\ fresh \in [States -> BOOLEAN]
    /\ status \in [States -> {"ok", "yield", "ERRRUN", "ERRERR"}]
    /\ \A L \in States : /\ Len(base_ci[L]) < size_ci[L] /\ 2 <= size_ci[L]
                          /\ nCcalls[L] <= LimitCCalls
    /\ baseCcalls[MainThread] = 0

\* Which activation calls which.
Follows(a, b) ==
    /\ b.th = a.th <=> ~IsResume(b)
    /\ b.k \in {"cfunction", "hook"} => a.k = "execute"
    /\ b.k = "try" => a.k = "cfunction"
    /\ a.k = "try" => b.k = "execute"

\* The activations of a thread are together, and begin with the setjmp point of its lua_resume.
Pieces(s) ==
    /\ s # <<>> => s[1] = FirstCall
    /\ \A i \in 2..Len(s) : Follows(s[i - 1], s[i])
    /\ \A i, j \in 1..Len(s) : \A m \in i..j : s[i].th = s[j].th => s[m].th = s[i].th
    /\ \A j \in 1..Len(s) : s[j].th # MainThread => \E i \in 1..j : s[i] = TryResume(s[j].th)
    /\ \A i, j \in 1..Len(s) : i < j /\ IsResume(s[j]) => s[i].th # s[j].th

\* nCcalls up to the activation i, where the coroutine began with b; the setjmp point of a lua_resume
\* stands for the entry that follows.
Counts(s, i, c, b) ==
    LET entries == Execs(s, i) + (IF IsResume(s[i]) THEN 1 ELSE 0)
    IN  /\ c >= entries /\ (~HandlerIn(s, i) => c = entries)
        /\ c >= b /\ c >= b + ExecsOf(s, s[i].th, i) - 1

\* allowhook and errfunc up to the activation i
Flags(s, i, ah, ef) == (ah <=> ~HookIn(s, s[i].th, i)) /\ (ef <=> Handled(s, s[i].th, i))

LastOf(s, i) == i = Len(s) \/ s[i + 1].th # s[i].th

\* What a thread records of itself is right at the last of its activations.
RecordedAt(s, i) ==
    LET L == s[i].th
    IN  /\ status[L] = "ok" \/ (i = Len(s) /\ IsResume(s[i]) /\ status[L] = "yield")
        /\ Counts(s, i, nCcalls[L], baseCcalls[L]) /\ Flags(s, i, allowhook[L], errfunc[L])
        /\ status[L] = "ok" => Len(base_ci[L]) = Frames(s, L, i)
Recorded == \A i \in 1..Len(cstack) : LastOf(cstack, i) => RecordedAt(cstack, i)

\* What was saved was right at the activation before.
SavedAt(s, i) ==
    LET e == s[i]
    IN  /\ IsPcall(e) => /\ Counts(s, i - 1, e.calls, baseCcalls[e.th]) /\ Flags(s, i - 1, e.ah, e.ef)
                         /\ e.ci = Frames(s, e.th, i - 1)
        /\ e.k = "hook" => (e.ah <=> ~HookIn(s, e.th, i - 1))
Saved == \A i \in 2..Len(cstack) : SavedAt(cstack, i)

\* The frames of a thread are of its activations, in their order.
PlacedAt(s, i) ==
    LET L == s[i].th
    IN  \A m \in 1..Runs(s[i]) : base_ci[L][Frames(s, L, i - 1) + m] = IF s[i].k = "execute" THEN "lua" ELSE "c"
Placed == \A i \in 1..Len(cstack) : PlacedAt(cstack, i)

\* A coroutine that yielded has the frames of luaV_execute and that of the function yield.
Yielded(fr) == Len(fr) >= 2 /\ fr[Len(fr)] = "c" /\ \A i \in 1..(Len(fr) - 1) : fr[i] = "lua"

Absent(s, L) == \A i \in 1..Len(s) : s[i].th # L
RestingAt(L) ==
    /\ status[L] = "yield" => Yielded(base_ci[L])
    /\ Absent(cstack, L) /\ status[L] \in {"ok", "yield"} => allowhook[L] /\ ~errfunc[L]
Resting == \A L \in States : RestingAt(L)

ThreadsInv == ThreadsTyped /\ Pieces(cstack) /\ Recorded /\ Saved /\ Placed /\ Resting

------------------------------------------------------------------------------
(* Counting along the stack *)

\* What is known of an activation of each kind.
LEMMA ActivationKinds ==
    ASSUME NEW e \in Activations
    PROVE  /\ e.k \in Kinds /\ e.th \in States /\ Runs(e) \in Nat
           /\ e.k = "execute" <=> e \in ExecuteRecs
           /\ e.k = "cfunction" <=> e \in CFunctionRecs
           /\ e.k = "hook" <=> e \in HookRecs
           /\ IsPcall(e) <=> e \in PcallRecs
           /\ IsResume(e) <=> e \in ResumeRecs
           /\ e.k = "try" <=> IsPcall(e) \/ IsResume(e)
           /\ IsResume(e) => e = TryResume(e.th) /\ e.th \in Coroutines
<1> USE DEF Kinds, Activations, ExecuteRecs, CFunctionRecs, HookRecs, PcallRecs, ResumeRecs, IsPcall, IsResume, Runs
<1>1. CASE e \in ExecuteRecs
    BY <1>1
<1>2. CASE e \in CFunctionRecs
    BY <1>2
<1>3. CASE e \in HookRecs
    BY <1>3
<1>4. CASE e \in PcallRecs
    BY <1>4
<1>5. CASE e \in ResumeRecs
    BY <1>5 DEF TryResume, States
<1> QED BY <1>1, <1>2, <1>3, <1>4, <1>5

\* The same activation, whatever stage its function is at.
Same(e, d) ==
    /\ e.k = d.k /\ e.th = d.th
    /\ e.k = "cfunction" => e.f = d.f
    /\ e.k # "cfunction" => e = d
Agree(s, r, p) == \A i \in 1..p : Same(s[i], r[i])

\* Setting the stage of the function on top changes nothing else.
LEMMA StageSet ==
    ASSUME NEW s \in Seq(Activations), NEW x \in Stages, s # <<>> => s[Len(s)].k = "cfunction"
    PROVE  /\ AtStage(s, x) \in Seq(Activations) /\ Len(AtStage(s, x)) = Len(s)
           /\ Agree(s, AtStage(s, x), Len(s))
<1>1. CASE s = <<>>
    BY <1>1 DEF AtStage, Agree
<1>2. CASE s # <<>>
    <2> DEFINE n == Len(s)
               e == s[n]
               d == [e EXCEPT !.stage = x]
               r == AtStage(s, x)
    <2>1. n \in 1..Len(s) /\ e \in CFunctionRecs
        BY <1>2, ActivationKinds
    <2>2. d \in CFunctionRecs /\ Same(e, d)
        BY <2>1 DEF CFunctionRecs, Same
    <2>3. r = [s EXCEPT ![n] = d]
        BY <1>2 DEF AtStage
    <2>4. r \in Seq(Activations) /\ Len(r) = Len(s)
        BY <2>1, <2>2, <2>3 DEF Activations
    <2>5. \A i \in 1..n : Same(s[i], r[i])
        BY <2>1, <2>2, <2>3 DEF Same
    <2> QED BY <2>4, <2>5 DEF Agree
<1> QED BY <1>1, <1>2

\* Everything that is counted is finite.
LEMMA Finite ==
    ASSUME NEW s \in Seq(Activations), NEW i \in 0..Len(s), NEW L
    PROVE  /\ IsFiniteSet({j \in 1..i : s[j].k = "execute"})
           /\ IsFiniteSet({j \in 1..i : s[j].k = "execute" /\ s[j].th = L})
           /\ IsFiniteSet(FrameSet(s, L, i))
           /\ Execs(s, i) \in Nat /\ ExecsOf(s, L, i) \in Nat /\ Frames(s, L, i) \in Nat
<1>1. IsFiniteSet(1..i)
    BY FS_Interval
<1>2. IsFiniteSet({j \in 1..i : s[j].k = "execute"})
    BY <1>1, FS_Subset
<1>3. IsFiniteSet({j \in 1..i : s[j].k = "execute" /\ s[j].th = L})
    BY <1>1, FS_Subset
<1>4. IsFiniteSet(FrameSet(s, L, i))
    <2> DEFINE own == {m \in 1..i : s[m].th = L}
               piece == [j \in own |-> {j} \X (1..Runs(s[j]))]
               pieces == {{j} \X (1..Runs(s[j])) : j \in own}
    <2>1. IsFiniteSet(own)
        BY <1>1, FS_Subset
    <2>2. piece \in Surjection(own, pieces)
        BY DEF Surjection
    <2>3. IsFiniteSet(pieces)
        BY <2>1, <2>2, FS_Surjection
    <2>4. ASSUME NEW T \in pieces PROVE IsFiniteSet(T)
        <3>1. PICK j \in own : T = {j} \X (1..Runs(s[j]))
            OBVIOUS
        <3>2. Runs(s[j]) \in Int /\ 1 \in Int
            BY ActivationKinds
        <3>3. IsFiniteSet(1..Runs(s[j]))
            BY <3>2, FS_Interval
        <3>4. IsFiniteSet({j})
            BY FS_Singleton
        <3> QED BY <3>1, <3>3, <3>4, FS_Product
    <2> HIDE DEF pieces
    <2>5. IsFiniteSet(UNION pieces)
        BY <2>3, <2>4, FS_UNION
    <2> QED BY <2>5 DEF FrameSet, pieces
<1> QED BY <1>2, <1>3, <1>4, FS_CardinalityType DEF Execs, ExecsOf, Frames

\* Nothing is counted before the first activation.
LEMMA None0 ==
    ASSUME NEW s, NEW L
    PROVE  /\ Execs(s, 0) = 0 /\ ExecsOf(s, L, 0) = 0 /\ Frames(s, L, 0) = 0
           /\ ~HandlerIn(s, 0) /\ ~HookIn(s, L, 0) /\ ~Handled(s, L, 0) /\ ~Handled(s, L, 1)
<1>1. {j \in 1..0 : s[j].k = "execute"} = {} /\ {j \in 1..0 : s[j].k = "execute" /\ s[j].th = L} = {}
    OBVIOUS
<1>2. FrameSet(s, L, 0) = {}
    <2>1. {m \in 1..0 : s[m].th = L} = {}
        OBVIOUS
    <2> QED BY <2>1 DEF FrameSet
<1> QED BY <1>1, <1>2, FS_EmptySet DEF Execs, ExecsOf, Frames, HandlerIn, HookIn, Handled

\* Stacks that agree up to p have the same counts up to p.
LEMMA Counted ==
    ASSUME NEW s \in Seq(Activations), NEW r \in Seq(Activations), NEW p \in Nat, p <= Len(s), p <= Len(r),
           Agree(s, r, p), NEW i \in 0..p, NEW L
    PROVE  /\ Execs(s, i) = Execs(r, i) /\ ExecsOf(s, L, i) = ExecsOf(r, L, i)
           /\ Frames(s, L, i) = Frames(r, L, i)
           /\ HandlerIn(s, i) <=> HandlerIn(r, i)
           /\ HookIn(s, L, i) <=> HookIn(r, L, i)
           /\ Handled(s, L, i) <=> Handled(r, L, i)
<1>1. \A j \in 1..i : Same(s[j], r[j]) /\ s[j] \in Activations /\ r[j] \in Activations
    BY DEF Agree
<1>2. \A j \in 1..i : /\ s[j].k = r[j].k /\ s[j].th = r[j].th /\ (s[j].k = "cfunction" => s[j].f = r[j].f)
                      /\ s[j].k # "cfunction" => s[j] = r[j]
    BY <1>1 DEF Same
<1>3. {j \in 1..i : s[j].k = "execute"} = {j \in 1..i : r[j].k = "execute"}
    BY <1>2
<1>4. {j \in 1..i : s[j].k = "execute" /\ s[j].th = L} = {j \in 1..i : r[j].k = "execute" /\ r[j].th = L}
    BY <1>2
<1>5. FrameSet(s, L, i) = FrameSet(r, L, i)
    <2>1. {m \in 1..i : s[m].th = L} = {m \in 1..i : r[m].th = L}
        BY <1>2
    <2>2. \A j \in 1..i : Runs(s[j]) = Runs(r[j])
        BY <1>2 DEF Runs
    <2> QED BY <2>1, <2>2 DEF FrameSet
<1>6. (HandlerIn(s, i) <=> HandlerIn(r, i)) /\ (HookIn(s, L, i) <=> HookIn(r, L, i))
    BY <1>2 DEF HandlerIn, HookIn
<1>7. Handled(s, L, i) <=> Handled(r, L, i)
    <2>1. \A j \in 1..i : PcallOf(s, L, j) <=> PcallOf(r, L, j)
        BY <1>2 DEF PcallOf, IsPcall
    <2> QED BY <2>1, <1>2 DEF Handled
<1> QED BY <1>3, <1>4, <1>5, <1>6, <1>7 DEF Execs, ExecsOf, Frames
\* What one activation more adds.
LEMMA OneMore ==
    ASSUME NEW s \in Seq(Activations), NEW i \in 1..Len(s), NEW L
    PROVE  /\ Execs(s, i) = Execs(s, i - 1) + (IF s[i].k = "execute" THEN 1 ELSE 0)
           /\ ExecsOf(s, L, i) = ExecsOf(s, L, i - 1) + (IF s[i].k = "execute" /\ s[i].th = L THEN 1 ELSE 0)
           /\ Frames(s, L, i) = Frames(s, L, i - 1) + (IF s[i].th = L THEN Runs(s[i]) ELSE 0)
           /\ HandlerIn(s, i) <=> HandlerIn(s, i - 1) \/ (s[i].k = "execute" /\ s[i].handler)
           /\ HookIn(s, L, i) <=> HookIn(s, L, i - 1) \/ (s[i].th = L /\ s[i].k = "hook")
           /\ Handled(s, L, i) <=> IF PcallOf(s, L, i) /\ i > 1 THEN s[i - 1].f = "xpcall" ELSE Handled(s, L, i - 1)
<1>0. i - 1 \in 0..Len(s) /\ i \in Nat /\ i \notin 1..(i - 1) /\ 1..i = (1..(i - 1)) \cup {i}
    OBVIOUS
<1>1. Execs(s, i) = Execs(s, i - 1) + (IF s[i].k = "execute" THEN 1 ELSE 0)
    <2> DEFINE A == {j \in 1..(i - 1) : s[j].k = "execute"}
               B == {j \in 1..i : s[j].k = "execute"}
    <2>1. IsFiniteSet(A) /\ i \notin A /\ Cardinality(A) \in Nat
        BY <1>0, Finite, FS_CardinalityType
    <2>2. B = IF s[i].k = "execute" THEN A \cup {i} ELSE A
        BY <1>0
    <2> HIDE DEF A, B
    <2>3. Cardinality(A \cup {i}) = Cardinality(A) + 1
        BY <2>1, FS_AddElement
    <2>4. Cardinality(B) = Cardinality(A) + (IF s[i].k = "execute" THEN 1 ELSE 0)
        BY <2>1, <2>2, <2>3
    <2> QED BY <2>4 DEF Execs, A, B
<1>2. ExecsOf(s, L, i) = ExecsOf(s, L, i - 1) + (IF s[i].k = "execute" /\ s[i].th = L THEN 1 ELSE 0)
    <2> DEFINE A == {j \in 1..(i - 1) : s[j].k = "execute" /\ s[j].th = L}
               B == {j \in 1..i : s[j].k = "execute" /\ s[j].th = L}
    <2>1. IsFiniteSet(A) /\ i \notin A /\ Cardinality(A) \in Nat
        BY <1>0, Finite, FS_CardinalityType
    <2>2. B = IF s[i].k = "execute" /\ s[i].th = L THEN A \cup {i} ELSE A
        BY <1>0
    <2> HIDE DEF A, B
    <2>3. Cardinality(A \cup {i}) = Cardinality(A) + 1
        BY <2>1, FS_AddElement
    <2>4. Cardinality(B) = Cardinality(A) + (IF s[i].k = "execute" /\ s[i].th = L THEN 1 ELSE 0)
        BY <2>1, <2>2, <2>3
    <2> QED BY <2>4 DEF ExecsOf, A, B
<1>3. Frames(s, L, i) = Frames(s, L, i - 1) + (IF s[i].th = L THEN Runs(s[i]) ELSE 0)
    <2> DEFINE A == FrameSet(s, L, i - 1)
               B == FrameSet(s, L, i)
               C == {i} \X (1..Runs(s[i]))
    <2>1. IsFiniteSet(A) /\ Cardinality(A) \in Nat
        BY <1>0, Finite, FS_CardinalityType
    <2>2. A \cap C = {}
        <3>1. \A x \in A : \E j \in 1..(i - 1) : x \in {j} \X (1..Runs(s[j]))
            BY DEF FrameSet
        <3>2. ASSUME NEW x \in A, x \in C PROVE FALSE
            <4>1. PICK j \in 1..(i - 1) : x \in {j} \X (1..Runs(s[j]))
                BY <3>1
            <4>2. x[1] = j /\ x[1] = i
                BY <4>1, <3>2
            <4> QED BY <4>1, <4>2, <1>0
        <3> QED BY <3>2
    <2>3. B = IF s[i].th = L THEN A \cup C ELSE A
        <3> DEFINE own == {m \in 1..(i - 1) : s[m].th = L}
                   now == {m \in 1..i : s[m].th = L}
        <3>1. now = IF s[i].th = L THEN own \cup {i} ELSE own
            BY <1>0
        <3>2. A = UNION {{j} \X (1..Runs(s[j])) : j \in own} /\ B = UNION {{j} \X (1..Runs(s[j])) : j \in now}
            BY DEF FrameSet
        <3> HIDE DEF A, B, own, now
        <3> QED BY <3>1, <3>2
    <2>4. IsFiniteSet(C) /\ Cardinality(C) = Runs(s[i]) /\ Runs(s[i]) \in Nat
        <3>1. Runs(s[i]) \in Nat /\ 1 \in Int
            BY ActivationKinds
        <3>2. IsFiniteSet(1..Runs(s[i])) /\ Cardinality(1..Runs(s[i])) = Runs(s[i])
            BY <3>1, FS_Interval
        <3>3. IsFiniteSet({i}) /\ Cardinality({i}) = 1
            BY FS_Singleton
        <3>4. IsFiniteSet(C) /\ Cardinality(C) = 1 * Runs(s[i])
            BY <3>2, <3>3, FS_Product
        <3> QED BY <3>1, <3>4
    <2> HIDE DEF A, B, C
    <2>5. Cardinality(A \cup C) = Cardinality(A) + Cardinality(C)
        <3>1. Cardinality(A \cup C) = Cardinality(A) + Cardinality(C) - Cardinality(A \cap C)
            BY <2>1, <2>4, FS_Union
        <3>2. Cardinality(A \cap C) = 0 /\ Cardinality(C) \in Nat
            BY <2>2, <2>4, FS_EmptySet
        <3> QED BY <2>1, <3>1, <3>2
    <2>6. Cardinality(B) = Cardinality(A) + (IF s[i].th = L THEN Runs(s[i]) ELSE 0)
        BY <2>1, <2>3, <2>4, <2>5
    <2> QED BY <2>6 DEF Frames, A, B
<1>4. HandlerIn(s, i) <=> HandlerIn(s, i - 1) \/ (s[i].k = "execute" /\ s[i].handler)
    BY <1>0 DEF HandlerIn
<1>5. HookIn(s, L, i) <=> HookIn(s, L, i - 1) \/ (s[i].th = L /\ s[i].k = "hook")
    BY <1>0 DEF HookIn
<1>6. Handled(s, L, i) <=> IF PcallOf(s, L, i) /\ i > 1 THEN s[i - 1].f = "xpcall" ELSE Handled(s, L, i - 1)
    <2>1. \A j \in 2..i : j \in 2..(i - 1) \/ j = i
        BY <1>0
    <2>2. CASE i = 1
        BY <2>2 DEF Handled
    <2>3. CASE i > 1 /\ PcallOf(s, L, i)
        <3>1. i \in 2..i /\ \A m \in 2..i : m <= i
            BY <2>3
        <3>2. \A j \in 2..i : (\A m \in 2..i : PcallOf(s, L, m) => m <= j) => j = i
            BY <2>3, <3>1
        <3>3. s[i - 1].f = "xpcall" => Handled(s, L, i)
            BY <2>3, <3>1 DEF Handled
        <3>4. Handled(s, L, i) => s[i - 1].f = "xpcall"
            BY <2>3, <3>2 DEF Handled
        <3> QED BY <2>3, <3>3, <3>4
    <2>4. CASE i > 1 /\ ~PcallOf(s, L, i)
        <3>1. \A j \in 2..i : PcallOf(s, L, j) => j \in 2..(i - 1)
            BY <2>1, <2>4
        <3>2. 2..(i - 1) \subseteq 2..i
            BY <1>0
        <3> QED BY <2>4, <3>1, <3>2 DEF Handled
    <2> QED BY <1>0, <2>2, <2>3, <2>4
<1> QED BY <1>1, <1>2, <1>3, <1>4, <1>5, <1>6

\* Frames grow along the stack.
LEMMA FramesGrow ==
    ASSUME NEW s \in Seq(Activations), NEW p \in 0..Len(s), NEW i \in 0..p, NEW L
    PROVE  Frames(s, L, i) <= Frames(s, L, p)
<1>1. FrameSet(s, L, i) \subseteq FrameSet(s, L, p)
    <2>1. {m \in 1..i : s[m].th = L} \subseteq {m \in 1..p : s[m].th = L}
        OBVIOUS
    <2> QED BY <2>1 DEF FrameSet
<1>2. IsFiniteSet(FrameSet(s, L, p))
    BY Finite
<1> QED BY <1>1, <1>2, FS_Subset DEF Frames
\* A new activation q on what is left of a stack.
AddsOne(s, r, p, q, L) ==
    /\ Execs(r, q) = Execs(s, p) + (IF r[q].k = "execute" THEN 1 ELSE 0)
    /\ ExecsOf(r, L, q) = ExecsOf(s, L, p) + (IF r[q].k = "execute" /\ r[q].th = L THEN 1 ELSE 0)
    /\ Frames(r, L, q) = Frames(s, L, p) + (IF r[q].th = L THEN Runs(r[q]) ELSE 0)
    /\ HandlerIn(r, q) <=> HandlerIn(s, p) \/ (r[q].k = "execute" /\ r[q].handler)
    /\ HookIn(r, L, q) <=> HookIn(s, L, p) \/ (r[q].th = L /\ r[q].k = "hook")
    /\ Handled(r, L, q) <=> IF PcallOf(r, L, q) /\ p > 0 THEN r[p].f = "xpcall" ELSE Handled(s, L, p)

LEMMA Extended ==
    ASSUME NEW s \in Seq(Activations), NEW r \in Seq(Activations), NEW p \in 0..Len(s), Len(r) = p + 1,
           Agree(s, r, p), NEW L
    PROVE  AddsOne(s, r, p, p + 1, L)
<1>1. p \in Nat /\ p <= Len(s) /\ p <= Len(r) /\ p \in 0..p /\ p + 1 \in 1..Len(r) /\ (p + 1) - 1 = p /\ (p + 1 > 1 <=> p > 0)
    OBVIOUS
<1>2. /\ Execs(s, p) = Execs(r, p) /\ ExecsOf(s, L, p) = ExecsOf(r, L, p)
      /\ Frames(s, L, p) = Frames(r, L, p)
      /\ HandlerIn(s, p) <=> HandlerIn(r, p)
      /\ HookIn(s, L, p) <=> HookIn(r, L, p)
      /\ Handled(s, L, p) <=> Handled(r, L, p)
    BY <1>1, Counted
<1>3. /\ Execs(r, p + 1) = Execs(r, p) + (IF r[p + 1].k = "execute" THEN 1 ELSE 0)
      /\ ExecsOf(r, L, p + 1) = ExecsOf(r, L, p) + (IF r[p + 1].k = "execute" /\ r[p + 1].th = L THEN 1 ELSE 0)
      /\ Frames(r, L, p + 1) = Frames(r, L, p) + (IF r[p + 1].th = L THEN Runs(r[p + 1]) ELSE 0)
      /\ HandlerIn(r, p + 1) <=> HandlerIn(r, p) \/ (r[p + 1].k = "execute" /\ r[p + 1].handler)
      /\ HookIn(r, L, p + 1) <=> HookIn(r, L, p) \/ (r[p + 1].th = L /\ r[p + 1].k = "hook")
      /\ Handled(r, L, p + 1) <=> IF PcallOf(r, L, p + 1) /\ p > 0 THEN r[p].f = "xpcall" ELSE Handled(r, L, p)
    BY <1>1, OneMore
<1> QED BY <1>2, <1>3 DEF AddsOne
------------------------------------------------------------------------------
(* Steps *)

\* The stack s is left at its first p activations, what is above them is of L, and there may come one
\* more of L: this is r.
Grows(s, r, p, L) ==
    /\ p <= Len(s) /\ Agree(s, r, p) /\ \A i \in (p + 1)..Len(s) : s[i].th = L
    /\ Len(r) # p => /\ Len(r) = p + 1 /\ p >= 1 /\ r[p + 1].th = L /\ Follows(r[p], r[p + 1])
                     /\ IsResume(r[p + 1]) => \A i \in 1..p : s[i].th # L

LEMMA SameKind ==
    ASSUME NEW e, NEW d, Same(e, d)
    PROVE  /\ e.th = d.th /\ e.k = d.k /\ (IsResume(e) <=> IsResume(d)) /\ (IsPcall(e) <=> IsPcall(d))
           /\ e.k # "cfunction" => e = d
           /\ Runs(e) = Runs(d)
BY DEF Same, IsResume, IsPcall, Runs

LEMMA PiecesKept ==
    ASSUME NEW s \in Seq(Activations), NEW r \in Seq(Activations), NEW n \in Nat, n = Len(s), NEW q \in Nat, q = Len(r),
           Pieces(s), NEW L, NEW p \in Nat, Grows(s, r, p, L)
    PROVE  Pieces(r)
<1>1. (q = p \/ q = p + 1) /\ p <= n /\ (r # <<>> <=> q > 0) /\ (s # <<>> <=> n > 0)
    BY DEF Grows
<1>2. \A i \in 1..p : /\ s[i].th = r[i].th /\ s[i].k = r[i].k /\ (IsResume(s[i]) <=> IsResume(r[i]))
                      /\ s[i].k # "cfunction" => s[i] = r[i]
    BY SameKind DEF Grows, Agree
<1>3. q = p + 1 => /\ p >= 1 /\ r[p + 1].th = L /\ Follows(r[p], r[p + 1])
                   /\ IsResume(r[p + 1]) => \A i \in 1..p : s[i].th # L
    BY DEF Grows
<1>4. /\ s # <<>> => s[1] = FirstCall
      /\ \A i \in 2..n : Follows(s[i - 1], s[i])
      /\ \A i, j \in 1..n : \A m \in i..j : s[i].th = s[j].th => s[m].th = s[i].th
      /\ \A j \in 1..n : s[j].th # MainThread => \E i \in 1..j : s[i] = TryResume(s[j].th)
      /\ \A i, j \in 1..n : i < j /\ IsResume(s[j]) => s[i].th # s[j].th
    BY DEF Pieces
<1>5. r # <<>> => r[1] = FirstCall
    <2>1. ASSUME r # <<>> PROVE r[1] = FirstCall
        <3>1. p >= 1 /\ s # <<>> /\ 1 \in 1..p
            BY <1>1, <1>3, <2>1
        <3>2. s[1] = FirstCall /\ s[1].k = "try"
            BY <3>1, <1>4 DEF FirstCall
        <3> QED BY <3>1, <3>2, <1>2
    <2> QED BY <2>1
<1>6. \A i \in 2..q : Follows(r[i - 1], r[i])
    <2>1. ASSUME NEW i \in 2..p PROVE Follows(r[i - 1], r[i])
        <3>1. Follows(s[i - 1], s[i]) /\ i \in 1..p /\ i - 1 \in 1..p
            BY <1>1, <1>4
        <3> QED BY <3>1, <1>2 DEF Follows
    <2> QED BY <2>1, <1>1, <1>3
<1>7. ASSUME NEW i \in 1..q, NEW j \in 1..q, NEW m \in i..j, r[i].th = r[j].th PROVE r[m].th = r[i].th
    <2>1. CASE j <= p
        <3>1. i \in 1..p /\ j \in 1..p /\ m \in 1..p /\ i \in 1..n /\ j \in 1..n
            BY <1>1, <2>1
        <3>2. s[i].th = s[j].th
            BY <3>1, <1>2, <1>7
        <3>3. s[m].th = s[i].th
            BY <3>1, <3>2, <1>4
        <3> QED BY <3>1, <3>3, <1>2
    <2>2. CASE j = p + 1 /\ m < j
        <3>1. q = p + 1 /\ p >= 1 /\ r[j].th = L /\ i \in 1..p /\ m \in i..p /\ m \in 1..p /\ p \in 1..p /\ i \in 1..n /\ p \in 1..n
            BY <1>1, <1>3, <2>2
        <3>2. s[i].th = L
            BY <3>1, <1>2, <1>7
        <3>3. ~IsResume(r[j])
            BY <3>1, <3>2, <1>3, <2>2
        <3>4. r[p].th = L
            BY <3>1, <3>3, <1>3, <2>2 DEF Follows
        <3>5. s[p].th = s[i].th
            BY <3>1, <3>2, <3>4, <1>2
        <3>6. s[m].th = s[i].th
            BY <3>1, <3>5, <1>4
        <3> QED BY <3>1, <3>6, <1>2
    <2>3. CASE m = j
        BY <2>3, <1>7
    <2> QED BY <2>1, <2>2, <2>3, <1>1
<1>8. ASSUME NEW j \in 1..q, r[j].th # MainThread PROVE \E i \in 1..j : r[i] = TryResume(r[j].th)
    <2>1. ASSUME NEW m \in 1..p, s[m].th # MainThread PROVE \E i \in 1..m : r[i] = TryResume(s[m].th)
        <3>1. PICK i \in 1..m : s[i] = TryResume(s[m].th)
            BY <2>1, <1>1, <1>4
        <3>2. s[i].k = "try" /\ i \in 1..p
            BY <3>1 DEF TryResume
        <3> QED BY <3>1, <3>2, <1>2
    <2>2. CASE j <= p
        <3>1. j \in 1..p
            BY <2>2
        <3> QED BY <3>1, <2>1, <1>2, <1>8
    <2>3. CASE j = p + 1 /\ IsResume(r[j])
        <3>1. r[j] = TryResume(r[j].th)
            BY <2>3, ActivationKinds
        <3> QED BY <3>1
    <2>4. CASE j = p + 1 /\ ~IsResume(r[j])
        <3>1. p >= 1 /\ r[p].th = r[j].th /\ p \in 1..p
            BY <1>1, <1>3, <2>4 DEF Follows
        <3>2. s[p].th = r[j].th
            BY <3>1, <1>2
        <3>3. \E i \in 1..p : r[i] = TryResume(r[j].th)
            BY <3>1, <3>2, <2>1, <1>8
        <3> QED BY <3>3, <2>4
    <2> QED BY <2>2, <2>3, <2>4, <1>1
<1>9. ASSUME NEW i \in 1..q, NEW j \in 1..q, i < j, IsResume(r[j]) PROVE r[i].th # r[j].th
    <2>1. CASE j <= p
        <3>1. i \in 1..p /\ j \in 1..p /\ i \in 1..n /\ j \in 1..n
            BY <2>1, <1>1, <1>9
        <3> QED BY <3>1, <1>2, <1>4, <1>9
    <2>2. CASE j = p + 1
        <3>1. i \in 1..p /\ s[i].th # L /\ r[j].th = L
            BY <2>2, <1>1, <1>3, <1>9
        <3> QED BY <3>1, <1>2
    <2> QED BY <2>1, <2>2, <1>1
<1> QED BY <1>5, <1>6, <1>7, <1>8, <1>9 DEF Pieces
\* Where L is, it is on top of r, and the last of each other thread is where it was.
LEMMA LastKept ==
    ASSUME NEW s \in Seq(Activations), NEW r \in Seq(Activations), NEW n \in Nat, n = Len(s), NEW q \in Nat, q = Len(r),
           Pieces(s), NEW L, NEW p \in Nat, Grows(s, r, p, L), NEW i \in 1..q, LastOf(r, i)
    PROVE  /\ r[i].th = L /\ r[q].th = L => i = q
           /\ r[i].th # L => i \in 1..p /\ LastOf(s, i) /\ s[i].th = r[i].th
<1>1. (q = p \/ q = p + 1) /\ p <= n /\ (q # p => r[q].th = L) /\ (\A j \in (p + 1)..n : s[j].th = L)
    BY DEF Grows
<1>2. \A j \in 1..p : s[j].th = r[j].th
    BY SameKind DEF Grows, Agree
<1>3. Pieces(r)
    BY PiecesKept
<1>4. ASSUME r[i].th = L, r[q].th = L, i # q PROVE FALSE
    <2>1. i + 1 \in i..q /\ q \in 1..q /\ r[i].th = r[q].th
        BY <1>4
    <2>2. r[i + 1].th = r[i].th
        BY <2>1, <1>3 DEF Pieces
    <2> QED BY <2>2, <1>4 DEF LastOf
<1>5. ASSUME r[i].th # L PROVE i \in 1..p /\ LastOf(s, i) /\ s[i].th = r[i].th
    <2>1. i \in 1..p
        BY <1>1, <1>5
    <2>2. CASE i = n
        BY <2>1, <2>2, <1>2 DEF LastOf
    <2>3. CASE i # n /\ i = p
        <3>1. i + 1 \in (p + 1)..n
            BY <2>1, <2>3, <1>1
        <3> QED BY <2>1, <3>1, <1>1, <1>2, <1>5 DEF LastOf
    <2>4. CASE i < p
        <3>1. i + 1 \in 1..p /\ i # q /\ i # n
            BY <2>1, <2>4, <1>1
        <3>2. r[i + 1].th # r[i].th
            BY <3>1 DEF LastOf
        <3> QED BY <2>1, <3>1, <3>2, <1>2 DEF LastOf
    <2> QED BY <2>1, <2>2, <2>3, <2>4
<1> QED BY <1>4, <1>5

\* What is right at an activation does not depend on those above it, nor on the stage of the function.
LEMMA RightBelow ==
    ASSUME NEW s \in Seq(Activations), NEW r \in Seq(Activations), NEW p \in Nat, p <= Len(s), p <= Len(r),
           Agree(s, r, p), NEW i \in 1..p
    PROVE  /\ \A c, b : Counts(s, i, c, b) <=> Counts(r, i, c, b)
           /\ \A ah, ef : Flags(s, i, ah, ef) <=> Flags(r, i, ah, ef)
           /\ Frames(s, s[i].th, i) = Frames(r, r[i].th, i)
<1>1. s[i].th = r[i].th /\ (IsResume(s[i]) <=> IsResume(r[i])) /\ i \in 0..p
    BY SameKind DEF Agree
<1> DEFINE L == s[i].th
<1>2. /\ Execs(s, i) = Execs(r, i) /\ ExecsOf(s, L, i) = ExecsOf(r, L, i)
      /\ Frames(s, L, i) = Frames(r, L, i)
      /\ HandlerIn(s, i) <=> HandlerIn(r, i)
      /\ HookIn(s, L, i) <=> HookIn(r, L, i)
      /\ Handled(s, L, i) <=> Handled(r, L, i)
    BY <1>1, Counted
<1> HIDE DEF L
<1>3. L = s[i].th /\ L = r[i].th
    BY <1>1 DEF L
<1>4. \A c, b : Counts(s, i, c, b) <=> Counts(r, i, c, b)
    BY <1>1, <1>2, <1>3 DEF Counts
<1>5. \A ah, ef : Flags(s, i, ah, ef) <=> Flags(r, i, ah, ef)
    BY <1>2, <1>3 DEF Flags
<1> QED BY <1>2, <1>3, <1>4, <1>5

LEMMA SavedBelow ==
    ASSUME NEW s \in Seq(Activations), NEW r \in Seq(Activations), NEW p \in Nat, p <= Len(s), p <= Len(r),
           Agree(s, r, p), NEW i \in 2..p, SavedAt(s, i), s[i].k = "try" \/ s[i].k = "hook",
           baseCcalls'[s[i].th] = baseCcalls[s[i].th]
    PROVE  SavedAt(r, i)'
<1>1. r[i] = s[i] /\ i - 1 \in 1..p /\ i - 1 \in 0..p
    BY SameKind DEF Agree
<1>2. /\ \A c, b : Counts(s, i - 1, c, b) <=> Counts(r, i - 1, c, b)
      /\ \A ah, ef : Flags(s, i - 1, ah, ef) <=> Flags(r, i - 1, ah, ef)
    BY <1>1, RightBelow
<1>3. /\ Frames(s, s[i].th, i - 1) = Frames(r, s[i].th, i - 1)
      /\ HookIn(s, s[i].th, i - 1) <=> HookIn(r, s[i].th, i - 1)
    BY <1>1, Counted
<1> QED BY <1>1, <1>2, <1>3 DEF SavedAt
\* What the other threads record of themselves stays.
Others(L) ==
    \A M \in States \ {L} :
        /\ base_ci'[M] = base_ci[M] /\ nCcalls'[M] = nCcalls[M] /\ baseCcalls'[M] = baseCcalls[M]
        /\ errfunc'[M] = errfunc[M] /\ allowhook'[M] = allowhook[M] /\ status'[M] = status[M]

\* A step of L that leaves the first p activations keeps what is right at these.
Step(L, p) ==
    /\ Grows(cstack, cstack', p, L) /\ Others(L)
    /\ cstack # <<>> => Running = L \/ ~IsResume(Top)
    /\ baseCcalls'[L] = baseCcalls[L] \/ \A i \in 1..p : cstack[i].th # L
    /\ \A k \in 1..Frames(cstack, L, p) : base_ci'[L][k] = base_ci[L][k]

LEMMA StackOf ==
    ASSUME ThreadsTyped
    PROVE  /\ cstack \in Seq(Activations) /\ Len(cstack) \in Nat /\ (cstack # <<>> <=> Len(cstack) > 0)
           /\ \A i \in 1..Len(cstack) : cstack[i] \in Activations /\ cstack[i].th \in States
           /\ cstack # <<>> => Running = cstack[Len(cstack)].th /\ Top = cstack[Len(cstack)] /\ Running \in States
<1>1. cstack \in Seq(Activations)
    BY DEF ThreadsTyped
<1>2. \A i \in 1..Len(cstack) : cstack[i] \in Activations /\ cstack[i].th \in States
    BY <1>1, ActivationKinds
<1> QED BY <1>1, <1>2 DEF Running, Top, Last

LEMMA StepKeeps ==
    ASSUME ThreadsInv, ThreadsTyped', NEW L \in States, NEW p \in Nat, Step(L, p), NEW q \in Nat, q = Len(cstack'),
           q # p => SavedAt(cstack, q)' /\ PlacedAt(cstack, q)',
           q > 0 /\ cstack'[q].th = L => RecordedAt(cstack, q)',
           q > 0 /\ cstack'[q].th # L => Absent(cstack', L),
           RestingAt(L)'
    PROVE  ThreadsInv'
<1>1. PICK s : s = cstack
    OBVIOUS
<1>2. PICK r : r = cstack'
    OBVIOUS
<1>3. PICK n \in Nat : n = Len(s)
    BY <1>1, StackOf DEF ThreadsInv
<1>4. /\ s \in Seq(Activations) /\ r \in Seq(Activations) /\ q = Len(r)
      /\ Pieces(s) /\ Grows(s, r, p, L) /\ Others(L)
      /\ \A i \in 1..n : s[i] \in Activations /\ s[i].th \in States
      /\ \A i \in 1..q : r[i] \in Activations /\ r[i].th \in States
    <2>1. \A i \in 1..q : r[i] \in Activations /\ r[i].th \in States
        BY <1>2, ActivationKinds DEF ThreadsTyped
    <2>2. s \in Seq(Activations) /\ r \in Seq(Activations) /\ q = Len(r) /\ Pieces(s) /\ Grows(s, r, p, L) /\ Others(L)
        BY <1>1, <1>2 DEF ThreadsInv, ThreadsTyped, Step
    <2>3. \A i \in 1..n : s[i] \in Activations /\ s[i].th \in States
        BY <1>1, <1>3, StackOf DEF ThreadsInv
    <2> QED BY <2>1, <2>2, <2>3
<1>5. (q = p \/ q = p + 1) /\ p <= n /\ p <= q /\ p <= Len(s) /\ p <= Len(r) /\ Agree(s, r, p)
    BY <1>3, <1>4 DEF Grows
<1>6. Pieces(r)
    BY <1>3, <1>4, PiecesKept
<1>7. ASSUME NEW i \in 1..q, LastOf(r, i) PROVE RecordedAt(r, i)'
    <2>1. /\ r[i].th = L /\ r[q].th = L => i = q
          /\ r[i].th # L => i \in 1..p /\ LastOf(s, i) /\ s[i].th = r[i].th
        BY <1>3, <1>4, <1>7, LastKept
    <2>2. CASE r[i].th = L
        <3>1. r[q].th = L
            BY <1>2, <1>4, <2>2 DEF Absent
        <3> QED BY <1>2, <2>1, <2>2, <3>1 DEF RecordedAt
    <2>3. CASE r[i].th # L
        <3>1. PICK M \in States \ {L} : M = r[i].th
            BY <1>4, <2>3
        <3>2. i \in 1..p /\ i \in 1..n /\ LastOf(s, i) /\ s[i].th = M
            BY <1>5, <2>1, <2>3, <3>1
        <3>3. RecordedAt(s, i)
            BY <1>1, <1>3, <3>2 DEF ThreadsInv, Recorded
        <3>4. ~(i = n /\ IsResume(s[i]))
            BY <1>1, <1>3, <3>1, <3>2, StackOf DEF Step, ThreadsInv
        <3>5. /\ \A c, b : Counts(s, i, c, b) <=> Counts(r, i, c, b)
              /\ \A ah, ef : Flags(s, i, ah, ef) <=> Flags(r, i, ah, ef)
              /\ Frames(s, s[i].th, i) = Frames(r, r[i].th, i)
            BY <1>4, <1>5, <3>2, RightBelow
        <3>6. /\ base_ci'[M] = base_ci[M] /\ nCcalls'[M] = nCcalls[M] /\ baseCcalls'[M] = baseCcalls[M]
              /\ errfunc'[M] = errfunc[M] /\ allowhook'[M] = allowhook[M] /\ status'[M] = status[M]
            BY <1>4 DEF Others
        <3> QED BY <1>3, <3>1, <3>2, <3>3, <3>4, <3>5, <3>6 DEF RecordedAt
    <2> QED BY <2>2, <2>3
<1>8. ASSUME NEW i \in 2..q PROVE SavedAt(r, i)'
    <2>1. CASE i = q /\ q # p
        BY <1>2, <2>1 DEF SavedAt
    <2>2. CASE i \in 2..p
        <3>1. Same(s[i], r[i]) /\ SavedAt(s, i) /\ s[i].th \in States
            BY <1>1, <1>3, <1>4, <1>5, <2>2 DEF Agree, ThreadsInv, Saved
        <3>2. CASE s[i].k = "try" \/ s[i].k = "hook"
            <4>1. s[i].th # L => baseCcalls'[s[i].th] = baseCcalls[s[i].th]
                BY <1>4, <3>1 DEF Others
            <4>2. s[i].th = L => baseCcalls'[s[i].th] = baseCcalls[s[i].th]
                BY <1>1, <2>2 DEF Step
            <4> QED BY <1>4, <1>5, <2>2, <3>1, <3>2, <4>1, <4>2, SavedBelow
        <3>3. CASE ~(s[i].k = "try" \/ s[i].k = "hook")
            BY <3>1, <3>3, SameKind DEF SavedAt, IsPcall
        <3> QED BY <3>2, <3>3
    <2> QED BY <1>5, <2>1, <2>2
<1>9. ASSUME NEW i \in 1..q PROVE PlacedAt(r, i)'
    <2>1. CASE i = q /\ q # p
        BY <1>2, <2>1 DEF PlacedAt
    <2>2. CASE i \in 1..p
        <3>1. PICK M \in States : M = s[i].th
            BY <1>4, <1>5, <2>2
        <3>2. /\ r[i].th = M /\ Runs(r[i]) = Runs(s[i]) /\ r[i].k = s[i].k /\ PlacedAt(s, i)
              /\ i - 1 \in 0..p /\ i \in 0..p /\ i \in 1..n /\ i \in 1..Len(s) /\ p \in 0..Len(s) /\ Runs(s[i]) \in Nat
            BY <1>1, <1>3, <1>4, <1>5, <2>2, <3>1, SameKind, ActivationKinds DEF Agree, ThreadsInv, Placed
        <3>3. Frames(r, M, i - 1) = Frames(s, M, i - 1)
            BY <1>4, <1>5, <3>2, Counted
        <3>4. Frames(s, M, i) = Frames(s, M, i - 1) + Runs(s[i]) /\ Frames(s, M, i) <= Frames(s, M, p)
            BY <1>4, <3>1, <3>2, OneMore, FramesGrow
        <3>5. Frames(s, M, i - 1) \in Nat /\ Frames(s, M, p) \in Nat
            <4>1. i - 1 \in 0..Len(s)
                BY <1>3, <1>5, <2>2
            <4> QED BY <1>4, <3>2, <4>1, Finite
        <3>6. ASSUME NEW m \in 1..Runs(s[i]) PROVE base_ci'[M][Frames(s, M, i - 1) + m] = base_ci[M][Frames(s, M, i - 1) + m]
            <4>1. Frames(s, M, i - 1) + m \in 1..Frames(s, M, p)
                BY <3>2, <3>4, <3>5
            <4>2. CASE M = L
                BY <1>1, <4>1, <4>2 DEF Step
            <4>3. CASE M # L
                BY <1>4, <4>3 DEF Others
            <4> QED BY <4>2, <4>3
        <3> QED BY <3>1, <3>2, <3>3, <3>6 DEF PlacedAt
    <2> QED BY <1>5, <2>1, <2>2
<1>10. ASSUME NEW M \in States PROVE RestingAt(M)'
    <2>1. CASE M = L
        BY <2>1
    <2>2. CASE M # L
        <3>1. Absent(r, M) => Absent(s, M)
            <4>1. ASSUME Absent(r, M), NEW i \in 1..n PROVE s[i].th # M
                <5>1. CASE i \in 1..p
                    BY <1>3, <1>5, <4>1, <5>1, SameKind DEF Absent, Agree
                <5>2. CASE i \in (p + 1)..n
                    BY <1>3, <1>4, <5>2, <2>2 DEF Grows
                <5> QED BY <1>5, <5>1, <5>2
            <4> QED BY <4>1, <1>3 DEF Absent
        <3>2. RestingAt(M)
            BY DEF ThreadsInv, Resting
        <3>3. status'[M] = status[M] /\ base_ci'[M] = base_ci[M] /\ errfunc'[M] = errfunc[M] /\ allowhook'[M] = allowhook[M]
            BY <1>4, <2>2 DEF Others
        <3> QED BY <1>1, <1>2, <3>1, <3>2, <3>3 DEF RestingAt
    <2> QED BY <2>1, <2>2
<1>11. Recorded' /\ Saved' /\ Placed' /\ Resting' /\ Pieces(cstack)'
    BY <1>2, <1>4, <1>6, <1>7, <1>8, <1>9, <1>10 DEF Recorded, Saved, Placed, Resting
<1> QED BY <1>11 DEF ThreadsInv
------------------------------------------------------------------------------
(* Entering functions and raising errors *)

\* What comes of an entry or an error of L, where nCcalls is c if it succeeds.
GoodOutcome(L, r, c) ==
    /\ r.out \in {"ok", "handler", "ERRRUN", "ERRERR"} /\ r.s \in Nat /\ r.c \in Nat
    /\ 2 <= r.s /\ Len(base_ci[L]) < r.s
    /\ r.out \in {"ok", "handler"} => Len(base_ci[L]) + 1 < r.s /\ r.c <= LimitCCalls
    /\ r.out = "ok" => r.c = c
    /\ r.out = "handler" => r.c > nCcalls[L]

LEMMA Limits == LimitCCalls \in Nat /\ MaxCCalls \in Nat /\ MaxCCalls <= LimitCCalls /\ MaxCalls \in Nat /\ 1 <= MaxCalls
<1>1. MaxCCalls \in Nat /\ MaxCCalls \div 8 \in Nat
    BY ThreadsAssumption
<1> QED BY <1>1, ThreadsAssumption DEF LimitCCalls

LEMMA ErrorOutcome ==
    ASSUME ThreadsTyped, NEW L \in States, NEW c \in Nat, NEW s \in Nat, c >= nCcalls[L], Len(base_ci[L]) < s, 2 <= s
    PROVE  /\ GoodOutcome(L, luaG_errormsg(L, c, s), 0) /\ luaG_errormsg(L, c, s).out # "ok"
<1>1. nCcalls[L] \in Nat /\ Len(base_ci[L]) \in Nat
    BY DEF ThreadsTyped
<1>2. \A d \in Nat : HandlerCount(d) \in Nat /\ HandlerCount(d) > d
    BY Limits DEF HandlerCount
<1>3. PICK a \in Nat : a = HandlerCount(c) /\ a > c
    BY <1>2
<1>4. PICK b \in Nat : b = HandlerCount(a) /\ b > a
    BY <1>2
<1> HIDE DEF HandlerCount
<1> QED BY <1>1, <1>3, <1>4, Limits DEF GoodOutcome, luaG_errormsg, Outcome, HasRoom

LEMMA EntryOutcome ==
    ASSUME ThreadsTyped, NEW L \in States, NEW c \in Nat, NEW s \in Nat, c >= nCcalls[L], Len(base_ci[L]) < s, 2 <= s,
           c <= LimitCCalls
    PROVE  GoodOutcome(L, growCI(L, c, s), c)
<1>1. nCcalls[L] \in Nat /\ Len(base_ci[L]) \in Nat
    BY DEF ThreadsTyped
<1>2. CASE HasRoom(L, s) \/ s > MaxCalls \/ 2 * s <= MaxCalls
    BY <1>1, <1>2, Limits DEF GoodOutcome, growCI, Outcome, HasRoom
<1>3. CASE ~(HasRoom(L, s) \/ s > MaxCalls \/ 2 * s <= MaxCalls)
    <2>1. growCI(L, c, s) = luaG_errormsg(L, c, 2 * s) /\ 2 * s \in Nat /\ Len(base_ci[L]) < 2 * s /\ 2 <= 2 * s
        BY <1>1, <1>3, Limits DEF growCI
    <2> QED BY <2>1, ErrorOutcome DEF GoodOutcome
<1> QED BY <1>2, <1>3

LEMMA Outcomes ==
    ASSUME ThreadsTyped, NEW L \in States
    PROVE  /\ GoodOutcome(L, Calling(L), nCcalls[L] + 1)
           /\ GoodOutcome(L, Entering(L), nCcalls[L])
           /\ GoodOutcome(L, Raising(L), 0) /\ Raising(L).out # "ok"
<1>1. /\ nCcalls[L] \in Nat /\ nCcalls[L] + 1 \in Nat /\ nCcalls[L] <= LimitCCalls /\ size_ci[L] \in Nat
      /\ Len(base_ci[L]) < size_ci[L] /\ 2 <= size_ci[L] /\ Len(base_ci[L]) \in Nat
    BY DEF ThreadsTyped
<1>2. GoodOutcome(L, Entering(L), nCcalls[L])
    BY <1>1, EntryOutcome DEF Entering
<1>3. GoodOutcome(L, Raising(L), 0) /\ Raising(L).out # "ok"
    BY <1>1, ErrorOutcome DEF Raising
<1>4. GoodOutcome(L, Calling(L), nCcalls[L] + 1)
    <2> DEFINE c == nCcalls[L] + 1
    <2>1. CASE c = MaxCCalls
        <3>1. Calling(L) = luaG_errormsg(L, c, size_ci[L])
            BY <2>1 DEF Calling
        <3>2. GoodOutcome(L, Calling(L), 0) /\ Calling(L).out # "ok"
            BY <1>1, <3>1, ErrorOutcome
        <3> QED BY <3>2 DEF GoodOutcome
    <2>2. CASE c # MaxCCalls /\ c >= LimitCCalls
        BY <1>1, <2>2 DEF Calling, Outcome, GoodOutcome
    <2>3. CASE c # MaxCCalls /\ ~(c >= LimitCCalls)
        <3>1. Calling(L) = growCI(L, c, size_ci[L]) /\ c <= LimitCCalls
            BY <1>1, <2>3, Limits DEF Calling
        <3> QED BY <1>1, <3>1, EntryOutcome
    <2> QED BY <2>1, <2>2, <2>3
<1> QED BY <1>2, <1>3, <1>4

\* The thread that runs, at the top.
LEMMA Now ==
    ASSUME ThreadsInv, cstack # <<>>, NEW n \in Nat, n = Len(cstack), NEW L, L = Running
    PROVE  /\ n >= 1 /\ n \in 1..n /\ Top = cstack[n] /\ Top \in Activations /\ Top.th = L /\ L \in States
           /\ RecordedAt(cstack, n)
           /\ ~IsResume(Top) => status[L] = "ok" /\ Len(base_ci[L]) = Frames(cstack, L, n)
           /\ n > 1 => Follows(cstack[n - 1], cstack[n])
           /\ n = 1 => Top = FirstCall
<1>1. ThreadsTyped /\ n >= 1 /\ n \in 1..n /\ Top = cstack[n] /\ Top \in Activations /\ Top.th = L /\ L \in States
    BY StackOf DEF ThreadsInv
<1>2. RecordedAt(cstack, n)
    BY <1>1 DEF ThreadsInv, Recorded, LastOf
<1>3. ~IsResume(Top) => status[L] = "ok" /\ Len(base_ci[L]) = Frames(cstack, L, n)
    BY <1>1, <1>2 DEF RecordedAt
<1>4. n > 1 => Follows(cstack[n - 1], cstack[n])
    BY <1>1 DEF ThreadsInv, Pieces
<1>5. n = 1 => Top = FirstCall
    BY <1>1 DEF ThreadsInv, Pieces
<1> QED BY <1>1, <1>2, <1>3, <1>4, <1>5
------------------------------------------------------------------------------
(* The three kinds of steps: back to an activation of the thread, off the stack, one activation more *)

LEMMA AbsentNone ==
    ASSUME NEW s \in Seq(Activations), NEW p \in 0..Len(s), NEW L, \A i \in 1..p : s[i].th # L
    PROVE  Frames(s, L, p) = 0 /\ ExecsOf(s, L, p) = 0 /\ ~HookIn(s, L, p) /\ ~Handled(s, L, p)
<1>1. {m \in 1..p : s[m].th = L} = {} /\ {j \in 1..p : s[j].k = "execute" /\ s[j].th = L} = {}
    OBVIOUS
<1>2. FrameSet(s, L, p) = {}
    BY <1>1 DEF FrameSet
<1>3. ~HookIn(s, L, p) /\ ~Handled(s, L, p)
    BY DEF HookIn, Handled, PcallOf
<1> QED BY <1>1, <1>2, <1>3, FS_EmptySet DEF Frames, ExecsOf

LEMMA BackKeeps ==
    ASSUME ThreadsInv, ThreadsTyped', NEW L \in States, NEW n \in Nat, n = Len(cstack), NEW p \in 1..n,
           \A i \in p..n : cstack[i].th = L,
           Agree(cstack, cstack', p), Len(cstack') = p,
           Others(L), baseCcalls'[L] = baseCcalls[L], status'[L] = "ok",
           Counts(cstack, p, nCcalls'[L], baseCcalls[L]), Flags(cstack, p, allowhook'[L], errfunc'[L]),
           Len(base_ci'[L]) = Frames(cstack, L, p), \A k \in 1..Frames(cstack, L, p) : base_ci'[L][k] = base_ci[L][k]
    PROVE  ThreadsInv'
<1>1. PICK s : s = cstack
    OBVIOUS
<1>2. PICK r : r = cstack'
    OBVIOUS
<1>3. /\ s \in Seq(Activations) /\ r \in Seq(Activations) /\ n = Len(s) /\ p = Len(r) /\ Agree(s, r, p)
      /\ p \in Nat /\ p \in 1..p /\ p <= n /\ n \in p..n /\ p \in p..n
    BY <1>1, <1>2 DEF ThreadsInv, ThreadsTyped
<1>4. cstack # <<>> /\ Running = L /\ s[p].th = L /\ r[p].th = L
    BY <1>1, <1>3, StackOf, SameKind DEF Agree, ThreadsInv
<1>5. Grows(s, r, p, L)
    BY <1>1, <1>3 DEF Grows
<1>6. Step(L, p)
    BY <1>1, <1>2, <1>4, <1>5 DEF Step
<1>7. /\ \A c, b : Counts(s, p, c, b) <=> Counts(r, p, c, b)
      /\ \A ah, ef : Flags(s, p, ah, ef) <=> Flags(r, p, ah, ef)
      /\ Frames(s, s[p].th, p) = Frames(r, r[p].th, p)
    BY <1>3, RightBelow
<1>8. RecordedAt(r, p)'
    BY <1>1, <1>4, <1>7 DEF RecordedAt
<1>9. RecordedAt(cstack, p)'
    BY <1>2, <1>8 DEF RecordedAt
<1>10. RestingAt(L)'
    BY <1>2, <1>3, <1>4 DEF RestingAt, Absent
<1> QED BY <1>2, <1>3, <1>4, <1>6, <1>9, <1>10, StepKeeps

LEMMA OffKeeps ==
    ASSUME ThreadsInv, ThreadsTyped', NEW L \in States, NEW n \in Nat, n = Len(cstack), NEW p \in 0..(n - 1),
           \A i \in (p + 1)..n : cstack[i].th = L, p > 0 => cstack[p].th # L,
           Agree(cstack, cstack', p), Len(cstack') = p,
           Others(L), baseCcalls'[L] = baseCcalls[L],
           status'[L] = "yield" => Yielded(base_ci'[L]),
           status'[L] \in {"ok", "yield"} => allowhook'[L] /\ ~errfunc'[L]
    PROVE  ThreadsInv'
<1>1. PICK s : s = cstack
    OBVIOUS
<1>2. PICK r : r = cstack'
    OBVIOUS
<1>3. /\ s \in Seq(Activations) /\ r \in Seq(Activations) /\ n = Len(s) /\ p = Len(r) /\ Agree(s, r, p)
      /\ p \in Nat /\ p \in 0..Len(s) /\ p <= n /\ n \in (p + 1)..n /\ n > 0
    BY <1>1, <1>2 DEF ThreadsInv, ThreadsTyped
<1>4. cstack # <<>> /\ Running = L /\ s[n].th = L
    BY <1>1, <1>3, StackOf DEF ThreadsInv
<1>5. Grows(s, r, p, L)
    BY <1>1, <1>3 DEF Grows
<1>6. ASSUME NEW i \in 1..p PROVE s[i].th # L
    <2>1. p \in i..n /\ i \in 1..n /\ n \in 1..n /\ p > 0
        BY <1>3
    <2>2. s[i].th = s[n].th => s[p].th = s[i].th
        BY <1>1, <1>3, <2>1 DEF ThreadsInv, Pieces
    <2> QED BY <1>1, <1>4, <2>1, <2>2
<1>7. Frames(s, L, p) = 0
    BY <1>3, <1>6, AbsentNone
<1>8. Step(L, p)
    BY <1>1, <1>2, <1>4, <1>5, <1>7 DEF Step
<1>9. Absent(r, L) /\ (p > 0 => r[p].th # L)
    <2>1. \A i \in 1..p : Same(s[i], r[i])
        BY <1>3 DEF Agree
    <2>2. \A i \in 1..p : r[i].th # L
        BY <2>1, <1>6, SameKind
    <2>3. p > 0 => p \in 1..p
        BY <1>3
    <2> QED BY <2>2, <2>3, <1>3 DEF Absent
<1>10. RestingAt(L)'
    BY DEF RestingAt
<1> QED BY <1>2, <1>3, <1>8, <1>9, <1>10, StepKeeps
\* What L records must be when e is put on the activation p.
One(e) == IF e.k = "execute" THEN 1 ELSE 0
MoreCounts(L, p, e) ==
    /\ nCcalls'[L] >= Execs(cstack, p) + One(e)
    /\ ~HandlerIn(cstack, p) /\ ~(e.k = "execute" /\ e.handler) => nCcalls'[L] = Execs(cstack, p) + One(e)
    /\ nCcalls'[L] >= baseCcalls[L] /\ nCcalls'[L] >= baseCcalls[L] + ExecsOf(cstack, L, p) + One(e) - 1
MoreFlags(L, p, e) ==
    /\ allowhook'[L] <=> ~HookIn(cstack, L, p) /\ e.k # "hook"
    /\ errfunc'[L] <=> IF IsPcall(e) THEN cstack[p].f = "xpcall" ELSE Handled(cstack, L, p)
MoreFrames(L, p, e) ==
    /\ Len(base_ci'[L]) = Frames(cstack, L, p) + Runs(e)
    /\ \A k \in 1..Frames(cstack, L, p) : base_ci'[L][k] = base_ci[L][k]
    /\ \A m \in 1..Runs(e) : base_ci'[L][Frames(cstack, L, p) + m] = IF e.k = "execute" THEN "lua" ELSE "c"
Saves(L, p, e) ==
    /\ IsPcall(e) => /\ Counts(cstack, p, e.calls, baseCcalls[L]) /\ Flags(cstack, p, e.ah, e.ef)
                     /\ e.ci = Frames(cstack, L, p)
    /\ e.k = "hook" => (e.ah <=> ~HookIn(cstack, L, p))

\* e is put on the activation p of the same thread.
LEMMA MoreKeeps ==
    ASSUME ThreadsInv, ThreadsTyped', NEW L \in States, NEW n \in Nat, n = Len(cstack), NEW p \in 1..n,
           \A i \in p..n : cstack[i].th = L, NEW e \in Activations, e.th = L, ~IsResume(e),
           Agree(cstack, cstack', p), Len(cstack') = p + 1, cstack'[p + 1] = e, Follows(cstack[p], e),
           Others(L), baseCcalls'[L] = baseCcalls[L], status'[L] = "ok",
           MoreCounts(L, p, e), MoreFlags(L, p, e), MoreFrames(L, p, e), Saves(L, p, e)
    PROVE  ThreadsInv'
<1>1. PICK s : s = cstack
    OBVIOUS
<1>2. PICK r : r = cstack'
    OBVIOUS
<1>3. PICK q \in Nat : q = p + 1
    OBVIOUS
<1>4. /\ s \in Seq(Activations) /\ r \in Seq(Activations) /\ n = Len(s) /\ q = Len(r) /\ Agree(s, r, p) /\ r[q] = e
      /\ p \in Nat /\ p \in 1..p /\ p <= n /\ n \in p..n /\ p \in p..n /\ p \in 0..p /\ p >= 1
      /\ p \in 0..Len(s) /\ p <= Len(s) /\ p <= Len(r)
    BY <1>1, <1>2, <1>3 DEF ThreadsInv, ThreadsTyped
<1>5. cstack # <<>> /\ Running = L /\ s[p].th = L /\ r[p].th = L /\ r[p].k = s[p].k
    BY <1>1, <1>4, StackOf, SameKind DEF Agree, ThreadsInv
<1>6. IsPcall(e) => r[p].f = s[p].f
    <2>1. Follows(s[p], e) /\ Same(s[p], r[p])
        BY <1>1, <1>4 DEF Agree
    <2> QED BY <2>1 DEF Follows, IsPcall, Same
<1>7. Grows(s, r, p, L)
    <2>1. Follows(r[p], r[q])
        BY <1>1, <1>4, <1>5 DEF Follows
    <2> QED BY <1>1, <1>3, <1>4, <2>1 DEF Grows
<1>8. Step(L, p)
    BY <1>1, <1>2, <1>5, <1>7 DEF Step, MoreFrames
<1>9. /\ Execs(r, q) = Execs(s, p) + One(e)
      /\ ExecsOf(r, L, q) = ExecsOf(s, L, p) + One(e)
      /\ Frames(r, L, q) = Frames(s, L, p) + Runs(e)
      /\ HandlerIn(r, q) <=> HandlerIn(s, p) \/ (e.k = "execute" /\ e.handler)
      /\ HookIn(r, L, q) <=> HookIn(s, L, p) \/ e.k = "hook"
      /\ Handled(r, L, q) <=> IF IsPcall(e) THEN s[p].f = "xpcall" ELSE Handled(s, L, p)
    <2>1. /\ Execs(r, q) = Execs(s, p) + (IF r[q].k = "execute" THEN 1 ELSE 0)
          /\ ExecsOf(r, L, q) = ExecsOf(s, L, p) + (IF r[q].k = "execute" /\ r[q].th = L THEN 1 ELSE 0)
          /\ Frames(r, L, q) = Frames(s, L, p) + (IF r[q].th = L THEN Runs(r[q]) ELSE 0)
          /\ HandlerIn(r, q) <=> HandlerIn(s, p) \/ (r[q].k = "execute" /\ r[q].handler)
          /\ HookIn(r, L, q) <=> HookIn(s, L, p) \/ (r[q].th = L /\ r[q].k = "hook")
          /\ Handled(r, L, q) <=> IF PcallOf(r, L, q) /\ p > 0 THEN r[p].f = "xpcall" ELSE Handled(s, L, p)
        <3>1. s \in Seq(Activations) /\ r \in Seq(Activations) /\ p \in 0..Len(s) /\ Len(r) = p + 1 /\ Agree(s, r, p)
            BY <1>3, <1>4
        <3>2. AddsOne(s, r, p, q, L)
            BY <3>1, <1>3, Extended
        <3> QED BY <3>2 DEF AddsOne
    <2>2. PcallOf(r, L, q) <=> IsPcall(e)
        BY <1>4 DEF PcallOf
    <2>3. r[q] = e /\ r[q].th = L /\ p > 0
        BY <1>4
    <2>4. Handled(r, L, q) <=> IF IsPcall(e) THEN s[p].f = "xpcall" ELSE Handled(s, L, p)
        BY <2>1, <2>2, <2>3, <1>6
    <2> QED BY <2>1, <2>3, <2>4 DEF One
<1>10. /\ baseCcalls[L] \in Nat /\ nCcalls'[L] \in Nat /\ ExecsOf(s, L, p) \in Nat /\ Execs(s, p) \in Nat
       /\ One(e) \in Nat
    BY <1>4, Finite DEF ThreadsInv, ThreadsTyped, One
<1>11. RecordedAt(r, q)'
    <2>0. r[q].th = L /\ ~IsResume(r[q])
        BY <1>4
    <2>1. Counts(r, q, nCcalls'[L], baseCcalls[L])
        <3>1. (IF IsResume(r[q]) THEN 1 ELSE 0) = 0
            BY <2>0
        <3>2. nCcalls'[L] >= Execs(r, q) /\ (~HandlerIn(r, q) => nCcalls'[L] = Execs(r, q))
            BY <1>1, <1>9 DEF MoreCounts
        <3>3. nCcalls'[L] >= baseCcalls[L] /\ nCcalls'[L] >= baseCcalls[L] + ExecsOf(r, L, q) - 1
            <4>1. PICK x \in Nat : x = ExecsOf(s, L, p)
                BY <1>10
            <4>2. PICK o \in Nat : o = One(e)
                BY <1>10
            <4>3. ExecsOf(r, L, q) = x + o
                BY <4>1, <4>2, <1>9
            <4>4. PICK c \in Nat : c = nCcalls'[L]
                BY <1>10
            <4>5. PICK b \in Nat : b = baseCcalls[L]
                BY <1>10
            <4>6. c >= b /\ c >= b + x + o - 1
                BY <1>1, <4>1, <4>2, <4>4, <4>5 DEF MoreCounts
            <4>7. c >= b + (x + o) - 1
                BY <4>6
            <4> QED BY <4>3, <4>4, <4>5, <4>6, <4>7
        <3>4. Execs(r, q) \in Nat
            BY <1>9, <1>10
        <3> QED BY <2>0, <3>1, <3>2, <3>3, <3>4 DEF Counts
    <2>2. Flags(r, q, allowhook'[L], errfunc'[L])
        BY <1>1, <2>0, <1>9 DEF Flags, MoreFlags
    <2> QED BY <1>1, <1>4, <1>9, <2>1, <2>2 DEF RecordedAt, MoreFrames
<1>12. SavedAt(r, q)'
    <2>1. p \in 0..p /\ q - 1 = p
        BY <1>3, <1>4
    <2>2. /\ \A c, d : Counts(s, p, c, d) <=> Counts(r, p, c, d)
          /\ \A ah, ef : Flags(s, p, ah, ef) <=> Flags(r, p, ah, ef)
          /\ Frames(s, L, p) = Frames(r, L, p)
        BY <1>4, <1>5, RightBelow
    <2>3. HookIn(s, L, p) <=> HookIn(r, L, p)
        BY <1>4, Counted
    <2> QED BY <1>1, <1>4, <2>1, <2>2, <2>3 DEF SavedAt, Saves
<1>13. PlacedAt(r, q)'
    <2>1. q - 1 = p /\ Frames(s, L, p) = Frames(r, L, p)
        BY <1>3, <1>4, Counted
    <2> QED BY <1>1, <1>4, <2>1 DEF PlacedAt, MoreFrames
<1>14. RecordedAt(cstack, q)' /\ SavedAt(cstack, q)' /\ PlacedAt(cstack, q)' /\ cstack'[q].th = L
    BY <1>2, <1>4, <1>11, <1>12, <1>13 DEF RecordedAt, SavedAt, PlacedAt
<1>15. RestingAt(L)'
    <2>1. q \in 1..Len(r) /\ r[q].th = L
        BY <1>3, <1>4
    <2> QED BY <1>2, <2>1 DEF RestingAt, Absent
<1> QED BY <1>2, <1>3, <1>4, <1>8, <1>14, <1>15, StepKeeps
\* What L records, and what it means that a step leaves a part of it.
LEMMA OwnValues ==
    ASSUME ThreadsTyped, NEW L \in States
    PROVE  /\ base_ci[L] \in Seq({"lua", "c"}) /\ Len(base_ci[L]) \in Nat /\ nCcalls[L] \in Nat
           /\ nCcalls[L] \in 0..LimitCCalls /\ baseCcalls[L] \in Nat
           /\ errfunc[L] \in BOOLEAN /\ allowhook[L] \in BOOLEAN /\ size_ci[L] \in Nat /\ LimitCCalls \in Nat
           /\ status[L] \in {"ok", "yield", "ERRRUN", "ERRERR"} /\ fresh \in [States -> BOOLEAN]
           /\ Len(base_ci[L]) < size_ci[L] /\ 2 <= size_ci[L]
           /\ base_ci = [base_ci EXCEPT ![L] = base_ci[L]]
           /\ nCcalls = [nCcalls EXCEPT ![L] = nCcalls[L]]
           /\ errfunc = [errfunc EXCEPT ![L] = errfunc[L]]
           /\ allowhook = [allowhook EXCEPT ![L] = allowhook[L]]
           /\ size_ci = [size_ci EXCEPT ![L] = size_ci[L]]
           /\ status = [status EXCEPT ![L] = status[L]]
BY Limits DEF ThreadsTyped

\* A step records fr, c, ... of L.
Sets(L, fr, c, ah, ef, z, st) ==
    /\ base_ci' = [base_ci EXCEPT ![L] = fr] /\ nCcalls' = [nCcalls EXCEPT ![L] = c]
    /\ allowhook' = [allowhook EXCEPT ![L] = ah] /\ errfunc' = [errfunc EXCEPT ![L] = ef]
    /\ size_ci' = [size_ci EXCEPT ![L] = z] /\ status' = [status EXCEPT ![L] = st]
    /\ baseCcalls' = baseCcalls
CanSet(fr, c, ah, ef, z, st) ==
    /\ fr \in Seq({"lua", "c"}) /\ c \in 0..LimitCCalls /\ ah \in BOOLEAN /\ ef \in BOOLEAN
    /\ z \in Nat /\ Len(fr) < z /\ 2 <= z /\ st \in {"ok", "yield", "ERRRUN", "ERRERR"}

LEMMA OwnChange ==
    ASSUME ThreadsTyped, cstack' \in Seq(Activations), fresh' \in [States -> BOOLEAN], NEW L \in States,
           NEW fr, NEW c, NEW ah, NEW ef, NEW z, NEW st,
           CanSet(fr, c, ah, ef, z, st), Sets(L, fr, c, ah, ef, z, st)
    PROVE  /\ ThreadsTyped' /\ Others(L)
           /\ base_ci'[L] = fr /\ nCcalls'[L] = c /\ baseCcalls'[L] = baseCcalls[L]
           /\ errfunc'[L] = ef /\ allowhook'[L] = ah /\ status'[L] = st
<1> USE DEF Sets, CanSet
<1>1. /\ base_ci \in [States -> Seq({"lua", "c"})]
      /\ nCcalls \in [States -> Nat] /\ baseCcalls \in [States -> Nat]
      /\ errfunc \in [States -> BOOLEAN] /\ allowhook \in [States -> BOOLEAN]
      /\ size_ci \in [States -> Nat]
      /\ status \in [States -> {"ok", "yield", "ERRRUN", "ERRERR"}]
      /\ \A M \in States : /\ Len(base_ci[M]) < size_ci[M] /\ 2 <= size_ci[M] /\ nCcalls[M] <= LimitCCalls
      /\ baseCcalls[MainThread] = 0
    BY DEF ThreadsTyped
<1>2. /\ base_ci' \in [States -> Seq({"lua", "c"})]
      /\ nCcalls' \in [States -> Nat] /\ baseCcalls' \in [States -> Nat]
      /\ errfunc' \in [States -> BOOLEAN] /\ allowhook' \in [States -> BOOLEAN]
      /\ size_ci' \in [States -> Nat]
      /\ status' \in [States -> {"ok", "yield", "ERRRUN", "ERRERR"}]
    BY <1>1, Limits
<1>3. /\ base_ci'[L] = fr /\ nCcalls'[L] = c /\ baseCcalls'[L] = baseCcalls[L]
      /\ errfunc'[L] = ef /\ allowhook'[L] = ah /\ status'[L] = st /\ size_ci'[L] = z
    BY <1>1
<1>4. \A M \in States \ {L} :
          /\ base_ci'[M] = base_ci[M] /\ nCcalls'[M] = nCcalls[M] /\ size_ci'[M] = size_ci[M]
          /\ errfunc'[M] = errfunc[M] /\ allowhook'[M] = allowhook[M] /\ status'[M] = status[M]
    BY <1>1
<1>5. \A M \in States : /\ Len(base_ci'[M]) < size_ci'[M] /\ 2 <= size_ci'[M] /\ nCcalls'[M] <= LimitCCalls
    BY <1>1, <1>3, <1>4
<1>6. ThreadsTyped'
    BY <1>1, <1>2, <1>5 DEF ThreadsTyped
<1>7. Others(L)
    BY <1>4 DEF Others
<1> QED BY <1>3, <1>6, <1>7

LEMMA Entered ==
    ASSUME NEW s \in Seq(Activations), NEW i \in 0..Len(s), NEW k \in 1..i, s[k].k = "execute"
    PROVE  Execs(s, i) \in Nat /\ Execs(s, i) >= 1 /\ ExecsOf(s, s[k].th, i) \in Nat /\ ExecsOf(s, s[k].th, i) >= 1
<1> DEFINE A == {j \in 1..i : s[j].k = "execute"}
           B == {j \in 1..i : s[j].k = "execute" /\ s[j].th = s[k].th}
<1>1. IsFiniteSet(A) /\ IsFiniteSet(B) /\ Execs(s, i) \in Nat /\ ExecsOf(s, s[k].th, i) \in Nat
    BY Finite
<1>2. k \in A /\ k \in B
    OBVIOUS
<1>3. Cardinality(A) = Execs(s, i) /\ Cardinality(B) = ExecsOf(s, s[k].th, i)
    BY DEF Execs, ExecsOf
<1> HIDE DEF A, B
<1>4. Cardinality(A) # 0 /\ Cardinality(B) # 0
    BY <1>1, <1>2, FS_EmptySet
<1> QED BY <1>1, <1>3, <1>4
------------------------------------------------------------------------------
(* Errors *)

\* What is left below the activation j of s, the function there at another stage.
LEMMA LeftBelow ==
    ASSUME NEW s \in Seq(Activations), NEW n \in Nat, n = Len(s), NEW p \in 0..n, NEW x \in Stages,
           p > 0 => s[p].k = "cfunction"
    PROVE  /\ AtStage(SubSeq(s, 1, p), x) \in Seq(Activations) /\ Len(AtStage(SubSeq(s, 1, p), x)) = p
           /\ Agree(s, AtStage(SubSeq(s, 1, p), x), p)
<1>1. PICK t : t = SubSeq(s, 1, p)
    OBVIOUS
<1>2. t \in Seq(Activations) /\ Len(t) = p /\ \A i \in 1..p : t[i] = s[i]
    BY <1>1
<1>3. t # <<>> => t[Len(t)].k = "cfunction"
    BY <1>2
<1>4. PICK r : r = AtStage(t, x)
    OBVIOUS
<1>5. r \in Seq(Activations) /\ Len(r) = Len(t) /\ Agree(t, r, Len(t))
    BY <1>2, <1>3, <1>4, StageSet
<1>6. Agree(s, r, p)
    BY <1>2, <1>5 DEF Agree
<1> QED BY <1>1, <1>2, <1>4, <1>5, <1>6

LEMMA Room ==
    ASSUME NEW z \in Nat, NEW m \in Nat, m < z, 2 <= z
    PROVE  RestoredLimit(z, m) \in Nat /\ m < RestoredLimit(z, m) /\ 2 <= RestoredLimit(z, m)
BY Limits DEF RestoredLimit

LEMMA ThrowKeeps ==
    ASSUME ThreadsInv, cstack # <<>>, NEW L, L = Running, ~IsResume(Top), NEW code \in {"ERRRUN", "ERRERR"},
           NEW z \in Nat, Len(base_ci[L]) < z, 2 <= z, luaD_throw(L, code, z)
    PROVE  ThreadsInv'
<1>1. PICK s : s = cstack
    OBVIOUS
<1>2. PICK n \in Nat : n = Len(s)
    BY <1>1, StackOf DEF ThreadsInv
<1>3. /\ ThreadsTyped /\ s \in Seq(Activations) /\ n >= 1 /\ n \in 1..n /\ Top = s[n] /\ s[n].th = L /\ L \in States
      /\ RecordedAt(s, n) /\ status[L] = "ok" /\ Len(base_ci[L]) = Frames(s, L, n)
    BY <1>1, <1>2, Now, StackOf DEF ThreadsInv
<1>4. PICK j \in DOMAIN cstack :
         /\ IsTryOf(L, j)
         /\ cstack' = AtStage(SubSeq(cstack, 1, j - 1), "failed")
         /\ LET e == cstack[j]
            IN  IF e.by = "pcall"
                THEN /\ base_ci' = [base_ci EXCEPT ![L] = SubSeq(@, 1, e.ci)]
                     /\ nCcalls' = [nCcalls EXCEPT ![L] = e.calls]
                     /\ allowhook' = [allowhook EXCEPT ![L] = e.ah]
                     /\ errfunc' = [errfunc EXCEPT ![L] = e.ef]
                     /\ size_ci' = [size_ci EXCEPT ![L] = RestoredLimit(z, e.ci)]
                     /\ UNCHANGED status
                ELSE /\ status' = [status EXCEPT ![L] = code]
                     /\ nCcalls' = [nCcalls EXCEPT ![L] = @ - 1]
                     /\ size_ci' = [size_ci EXCEPT ![L] = z]
                     /\ UNCHANGED <<base_ci, allowhook, errfunc>>
         /\ UNCHANGED <<baseCcalls, fresh>>
    BY DEF luaD_throw
<1>5. PICK p \in Nat : p = j - 1
    BY <1>1, <1>2, <1>3, <1>4
<1>6. /\ j \in 1..n /\ j = p + 1 /\ p \in 0..n /\ p \in 0..(n - 1) /\ s[j].k = "try" /\ s[j].th = L /\ s[j] \in Activations
      /\ j \in Nat /\ p \in 0..Len(s)
    BY <1>1, <1>2, <1>3, <1>4, <1>5 DEF IsTryOf
<1>7. \A i \in j..n : s[i].th = L
    <2>1. \A i \in j..n : s[j].th = s[n].th => s[i].th = s[j].th
        BY <1>1, <1>2, <1>3, <1>6 DEF ThreadsInv, Pieces
    <2> QED BY <2>1, <1>3, <1>6
<1>8. p > 0 => Follows(s[p], s[j]) /\ s[p].k = "cfunction"
    <2>1. p > 0 => j \in 2..n /\ j - 1 = p
        BY <1>6
    <2>2. p > 0 => Follows(s[p], s[j])
        BY <1>1, <1>2, <2>1 DEF ThreadsInv, Pieces
    <2> QED BY <2>2, <1>6 DEF Follows
<1>9. PICK r : r = cstack'
    OBVIOUS
<1>10. r \in Seq(Activations) /\ Len(r) = p /\ Agree(s, r, p)
    <2>1. r = AtStage(SubSeq(s, 1, p), "failed") /\ "failed" \in Stages
        BY <1>1, <1>4, <1>5, <1>9 DEF Stages
    <2> QED BY <2>1, <1>2, <1>3, <1>6, <1>8, LeftBelow
<1>11. cstack' \in Seq(Activations) /\ Len(cstack') = p /\ Agree(cstack, cstack', p)
    BY <1>1, <1>9, <1>10
<1>12. Frames(s, L, p) \in Nat /\ Frames(s, L, n) \in Nat /\ Frames(s, L, p) <= Frames(s, L, n)
    <2>1. n \in 0..Len(s) /\ p \in 0..n
        BY <1>2, <1>6
    <2> QED BY <1>3, <1>6, <2>1, Finite, FramesGrow
<1>13. /\ base_ci[L] \in Seq({"lua", "c"}) /\ Len(base_ci[L]) \in Nat /\ nCcalls[L] \in Nat /\ nCcalls[L] <= LimitCCalls
       /\ errfunc[L] \in BOOLEAN /\ allowhook[L] \in BOOLEAN /\ fresh' \in [States -> BOOLEAN] /\ LimitCCalls \in Nat
    BY <1>3, <1>4, OwnValues
<1>14. CASE IsPcall(s[j])
    <2>1. PICK e \in PcallRecs : e = s[j]
        BY <1>6, <1>14, ActivationKinds
    <2>2. e.by = "pcall" /\ e.calls \in 0..LimitCCalls /\ e.ci \in Nat /\ e.ah \in BOOLEAN /\ e.ef \in BOOLEAN /\ e.th = L
        BY <2>1, <1>6 DEF PcallRecs
    <2>3. p > 0 => SavedAt(s, j) /\ j - 1 = p
        BY <1>1, <1>2, <1>6 DEF ThreadsInv, Saved
    <2>4. p > 0 => Counts(s, p, e.calls, baseCcalls[L]) /\ Flags(s, p, e.ah, e.ef) /\ e.ci = Frames(s, L, p)
        BY <2>1, <2>2, <2>3, <1>14 DEF SavedAt
    <2>5. p = 0 => e = FirstCall
        BY <1>1, <1>2, <1>3, <1>6, <2>1, StackOf DEF ThreadsInv, Pieces
    <2>6. e.ci <= Len(base_ci[L]) /\ e.ci < z
        BY <1>3, <1>6, <1>12, <1>13, <2>2, <2>4, <2>5 DEF FirstCall
    <2>7. PICK fr : fr = SubSeq(base_ci[L], 1, e.ci)
        OBVIOUS
    <2>8. fr \in Seq({"lua", "c"}) /\ Len(fr) = e.ci /\ \A k \in 1..e.ci : fr[k] = base_ci[L][k]
        <3>1. PICK m \in Nat : m = e.ci
            BY <2>2
        <3>2. PICK f \in Seq({"lua", "c"}) : f = base_ci[L]
            BY <1>13
        <3>3. m <= Len(f) /\ fr = SubSeq(f, 1, m)
            BY <2>6, <2>7, <3>1, <3>2
        <3>4. fr \in Seq({"lua", "c"}) /\ Len(fr) = m /\ \A k \in 1..m : fr[k] = f[k]
            BY <3>3
        <3> QED BY <3>1, <3>2, <3>4
    <2>9. PICK w : w = RestoredLimit(z, e.ci)
        OBVIOUS
    <2>10. w \in Nat /\ e.ci < w /\ 2 <= w
        BY <2>2, <2>6, <2>9, Room
    <2>11. Sets(L, fr, e.calls, e.ah, e.ef, w, "ok") /\ CanSet(fr, e.calls, e.ah, e.ef, w, "ok")
        <3>1. status = [status EXCEPT ![L] = "ok"]
            BY <1>3, OwnValues
        <3>2. Sets(L, fr, e.calls, e.ah, e.ef, w, "ok")
            BY <1>1, <1>4, <2>1, <2>2, <2>7, <2>9, <3>1 DEF Sets
        <3>3. CanSet(fr, e.calls, e.ah, e.ef, w, "ok")
            BY <2>2, <2>8, <2>10 DEF CanSet
        <3> QED BY <3>2, <3>3
    <2>12. /\ ThreadsTyped' /\ Others(L)
           /\ base_ci'[L] = fr /\ nCcalls'[L] = e.calls /\ baseCcalls'[L] = baseCcalls[L]
           /\ errfunc'[L] = e.ef /\ allowhook'[L] = e.ah /\ status'[L] = "ok"
        BY <1>3, <1>11, <1>13, <2>11, OwnChange
    <2>13. CASE p > 0
        <3>1. s[p].th = L /\ \A i \in p..n : s[i].th = L
            <4>1. s[p].th = L
                BY <1>6, <1>8, <1>14, <2>13 DEF Follows, IsPcall, IsResume
            <4>2. \A i \in p..n : i = p \/ i \in j..n
                BY <1>6
            <4> QED BY <4>1, <4>2, <1>7
        <3>2. p \in 1..n /\ Counts(s, p, e.calls, baseCcalls[L]) /\ Flags(s, p, e.ah, e.ef) /\ e.ci = Frames(s, L, p)
            BY <1>6, <2>4, <2>13
        <3>3. /\ n = Len(cstack) /\ \A i \in p..n : cstack[i].th = L
              /\ Counts(cstack, p, nCcalls'[L], baseCcalls[L]) /\ Flags(cstack, p, allowhook'[L], errfunc'[L])
              /\ Len(base_ci'[L]) = Frames(cstack, L, p)
              /\ \A k \in 1..Frames(cstack, L, p) : base_ci'[L][k] = base_ci[L][k]
            BY <1>1, <1>2, <2>8, <2>12, <3>1, <3>2
        <3> QED BY <1>3, <1>11, <2>12, <3>2, <3>3, BackKeeps
    <2>14. CASE p = 0
        <3>1. e.ah /\ ~e.ef
            BY <2>5, <2>14 DEF FirstCall
        <3>2. \A i \in (p + 1)..n : s[i].th = L
            BY <1>6, <1>7
        <3>3. /\ n = Len(cstack) /\ (\A i \in (p + 1)..n : cstack[i].th = L) /\ (p > 0 => cstack[p].th # L)
              /\ (status'[L] = "yield" => Yielded(base_ci'[L]))
              /\ (status'[L] \in {"ok", "yield"} => allowhook'[L] /\ ~errfunc'[L])
            BY <1>1, <1>2, <2>12, <2>14, <3>1, <3>2
        <3> QED BY <1>3, <1>6, <1>11, <2>12, <3>3, OffKeeps
    <2> QED BY <1>6, <2>13, <2>14
<1>15. CASE IsResume(s[j])
    <2>1. s[j].by = "resume" /\ p > 0
        <3>1. p = 0 => s[1] = FirstCall /\ j = 1
            BY <1>1, <1>2, <1>3, <1>6, StackOf DEF ThreadsInv, Pieces
        <3>2. ~IsResume(FirstCall)
            BY DEF FirstCall, IsResume
        <3> QED BY <1>6, <1>15, <3>1, <3>2 DEF IsResume
    <2>2. s[p].th # L
        BY <1>6, <1>8, <1>15, <2>1 DEF Follows
    <2>3. nCcalls[L] >= 1
        <3>1. PICK k \in Nat : k = j + 1
            BY <1>6
        <3>2. k \in 2..n /\ k - 1 = j /\ k \in 1..n /\ n \in 0..Len(s)
            BY <1>2, <1>3, <1>6, <1>15, <3>1
        <3>3. Follows(s[j], s[k])
            BY <1>1, <1>2, <3>2 DEF ThreadsInv, Pieces
        <3>4. s[k].k = "execute"
            BY <1>6, <3>3 DEF Follows
        <3>5. Execs(s, n) \in Nat /\ Execs(s, n) >= 1
            BY <1>3, <3>2, <3>4, Entered
        <3>6. Counts(s, n, nCcalls[L], baseCcalls[L])
            BY <1>3 DEF RecordedAt
        <3> QED BY <1>1, <1>3, <1>13, <3>5, <3>6 DEF Counts
    <2>4. PICK c \in 0..LimitCCalls : c = nCcalls[L] - 1
        BY <1>13, <2>3
    <2>5. /\ Sets(L, base_ci[L], c, allowhook[L], errfunc[L], z, code)
          /\ CanSet(base_ci[L], c, allowhook[L], errfunc[L], z, code)
        <3>1. Sets(L, base_ci[L], c, allowhook[L], errfunc[L], z, code)
            BY <1>1, <1>3, <1>4, <2>1, <2>4, OwnValues DEF Sets
        <3>2. CanSet(base_ci[L], c, allowhook[L], errfunc[L], z, code)
            BY <1>13 DEF CanSet
        <3> QED BY <3>1, <3>2
    <2>6. /\ ThreadsTyped' /\ Others(L) /\ baseCcalls'[L] = baseCcalls[L] /\ status'[L] = code
        BY <1>3, <1>11, <1>13, <2>5, OwnChange
    <2>7. \A i \in (p + 1)..n : s[i].th = L
        BY <1>6, <1>7
    <2>8. /\ n = Len(cstack) /\ (\A i \in (p + 1)..n : cstack[i].th = L) /\ (p > 0 => cstack[p].th # L)
          /\ (status'[L] = "yield" => Yielded(base_ci'[L]))
          /\ (status'[L] \in {"ok", "yield"} => allowhook'[L] /\ ~errfunc'[L])
        BY <1>1, <1>2, <2>2, <2>6, <2>7
    <2> QED BY <1>3, <1>6, <1>11, <2>6, <2>8, OffKeeps
<1> QED BY <1>6, <1>14, <1>15, ActivationKinds
------------------------------------------------------------------------------
(* Entering functions *)

\* Where a coroutine begins there is nothing of it yet.
LEMMA Begins ==
    ASSUME ThreadsInv, cstack # <<>>, NEW n \in Nat, n = Len(cstack), NEW L, L = Running, IsResume(Top)
    PROVE  /\ ExecsOf(cstack, L, n) = 0 /\ Frames(cstack, L, n) = 0 /\ ~HookIn(cstack, L, n) /\ ~Handled(cstack, L, n)
           /\ n >= 2 /\ Top = TryResume(L)
<1>1. PICK s : s = cstack
    OBVIOUS
<1>2. s \in Seq(Activations) /\ n = Len(s) /\ n \in 1..n /\ s[n].th = L /\ Top = s[n] /\ s[n] \in Activations /\ n >= 1
    BY <1>1, Now, StackOf DEF ThreadsInv
<1>3. s[n].k = "try" /\ ~IsPcall(s[n]) /\ s[n] = TryResume(L) /\ Runs(s[n]) = 0
    BY <1>2, ActivationKinds DEF IsResume, IsPcall, Runs
<1>4. n >= 2
    <2>1. n = 1 => Top = FirstCall
        BY Now
    <2> QED BY <1>2, <2>1 DEF FirstCall, IsResume
<1>5. PICK p \in Nat : p = n - 1
    BY <1>4
<1>6. \A i \in 1..p : s[i].th # L
    <2>1. \A i, j \in 1..n : i < j /\ IsResume(s[j]) => s[i].th # s[j].th
        BY <1>1 DEF ThreadsInv, Pieces
    <2> QED BY <1>2, <1>5, <2>1
<1>7. p \in 0..Len(s) /\ n \in 1..Len(s)
    BY <1>2, <1>4, <1>5
<1>8. Frames(s, L, p) = 0 /\ ExecsOf(s, L, p) = 0 /\ ~HookIn(s, L, p) /\ ~Handled(s, L, p)
    BY <1>2, <1>6, <1>7, AbsentNone
<1>9. /\ ExecsOf(s, L, n) = ExecsOf(s, L, p) /\ Frames(s, L, n) = Frames(s, L, p)
      /\ ~HookIn(s, L, n) /\ ~Handled(s, L, n)
    <2>1. /\ ExecsOf(s, L, n) = ExecsOf(s, L, n - 1) + (IF s[n].k = "execute" /\ s[n].th = L THEN 1 ELSE 0)
          /\ Frames(s, L, n) = Frames(s, L, n - 1) + (IF s[n].th = L THEN Runs(s[n]) ELSE 0)
          /\ HookIn(s, L, n) <=> HookIn(s, L, n - 1) \/ (s[n].th = L /\ s[n].k = "hook")
          /\ Handled(s, L, n) <=> IF PcallOf(s, L, n) /\ n > 1 THEN s[n - 1].f = "xpcall" ELSE Handled(s, L, n - 1)
        BY <1>2, <1>7, OneMore
    <2>2. n - 1 = p /\ ~PcallOf(s, L, n)
        BY <1>3, <1>5 DEF PcallOf
    <2> QED BY <2>1, <2>2, <1>2, <1>3, <1>8
<1> QED BY <1>1, <1>2, <1>3, <1>4, <1>8, <1>9

LEMMA Appended ==
    ASSUME NEW S, NEW q \in Seq(S), NEW e \in S, NEW n \in Nat, n = Len(q)
    PROVE  /\ Append(q, e) \in Seq(S) /\ Len(Append(q, e)) = n + 1 /\ Append(q, e)[n + 1] = e
           /\ \A i \in 1..n : Append(q, e)[i] = q[i]
OBVIOUS

\* A new activation e on the stack
LEMMA Pushed ==
    ASSUME ThreadsTyped, NEW n \in Nat, n = Len(cstack), NEW e \in Activations, cstack' = Append(cstack, e)
    PROVE  cstack' \in Seq(Activations) /\ Len(cstack') = n + 1 /\ cstack'[n + 1] = e /\ Agree(cstack, cstack', n)
<1>1. PICK s : s = cstack
    OBVIOUS
<1>2. PICK r : r = cstack'
    OBVIOUS
<1>3. s \in Seq(Activations) /\ n = Len(s) /\ r = Append(s, e)
    BY <1>1, <1>2 DEF ThreadsTyped
<1>4. r \in Seq(Activations) /\ Len(r) = n + 1 /\ r[n + 1] = e /\ \A i \in 1..n : r[i] = s[i]
    BY <1>3, Appended
<1>5. Agree(s, r, n)
    BY <1>4 DEF Agree, Same
<1> QED BY <1>1, <1>2, <1>4, <1>5

LEMMA CallKeeps ==
    ASSUME ThreadsInv, cstack # <<>>, NEW L, L = Running, status[L] = "ok", NEW h \in BOOLEAN,
           NEW c \in 0..LimitCCalls, NEW z \in Nat, Len(base_ci[L]) + 1 < z,
           cstack' = Append(cstack, Execute(L, 1, h)), fresh' \in [States -> BOOLEAN],
           Sets(L, Append(base_ci[L], "lua"), c, allowhook[L], errfunc[L], z, status[L]),
           c >= nCcalls[L] + (IF IsResume(Top) THEN 0 ELSE 1),
           ~h => c = nCcalls[L] + (IF IsResume(Top) THEN 0 ELSE 1)
    PROVE  ThreadsInv'
<1>1. PICK s : s = cstack
    OBVIOUS
<1>2. PICK n \in Nat : n = Len(s)
    BY <1>1, StackOf DEF ThreadsInv
<1>3. /\ ThreadsTyped /\ s \in Seq(Activations) /\ n >= 1 /\ n \in 1..n /\ Top = s[n] /\ s[n].th = L /\ L \in States
      /\ RecordedAt(s, n) /\ n \in 0..Len(s)
    BY <1>1, <1>2, Now, StackOf DEF ThreadsInv
<1>4. PICK e \in ExecuteRecs : e = Execute(L, 1, h)
    BY <1>3 DEF Execute, ExecuteRecs
<1>5. /\ e \in Activations /\ e.th = L /\ e.k = "execute" /\ e.handler = h /\ ~IsResume(e) /\ ~IsPcall(e) /\ Runs(e) = 1
      /\ Follows(s[n], e) /\ e.k # "hook" /\ One(e) = 1
    BY <1>3, <1>4 DEF Execute, Activations, IsResume, IsPcall, Runs, Follows, One
<1>6. cstack' \in Seq(Activations) /\ Len(cstack') = n + 1 /\ cstack'[n + 1] = e /\ Agree(cstack, cstack', n)
    <2>1. cstack' = Append(cstack, e) /\ n = Len(cstack)
        BY <1>1, <1>2, <1>4
    <2> QED BY <2>1, <1>3, <1>5, Pushed
<1>7. PICK f \in Seq({"lua", "c"}) : f = base_ci[L]
    BY <1>3, OwnValues
<1>8. PICK fr : fr = Append(f, "lua")
    OBVIOUS
<1>9. /\ fr \in Seq({"lua", "c"}) /\ Len(fr) = Len(f) + 1 /\ Len(f) \in Nat
      /\ (\A k \in 1..Len(f) : fr[k] = f[k]) /\ fr[Len(f) + 1] = "lua"
    BY <1>8, Appended
<1>10. Sets(L, fr, c, allowhook[L], errfunc[L], z, "ok") /\ CanSet(fr, c, allowhook[L], errfunc[L], z, "ok")
    BY <1>3, <1>7, <1>8, <1>9, OwnValues DEF CanSet
<1>11. /\ ThreadsTyped' /\ Others(L)
       /\ base_ci'[L] = fr /\ nCcalls'[L] = c /\ baseCcalls'[L] = baseCcalls[L]
       /\ errfunc'[L] = errfunc[L] /\ allowhook'[L] = allowhook[L] /\ status'[L] = "ok"
    BY <1>3, <1>6, <1>10, OwnChange
<1>12. Counts(s, n, nCcalls[L], baseCcalls[L]) /\ Flags(s, n, allowhook[L], errfunc[L]) /\ Len(f) = Frames(s, L, n)
    BY <1>3, <1>7 DEF RecordedAt
<1>13. MoreCounts(L, n, e)
    <2>1. PICK x \in Nat, y \in Nat, b \in Nat, d \in Nat :
             x = Execs(s, n) /\ y = ExecsOf(s, L, n) /\ b = baseCcalls[L] /\ d = nCcalls[L]
        BY <1>3, Finite, OwnValues
    <2>2. /\ d >= x + (IF IsResume(Top) THEN 1 ELSE 0)
          /\ ~HandlerIn(s, n) => d = x + (IF IsResume(Top) THEN 1 ELSE 0)
          /\ d >= b /\ d >= b + y - 1
        BY <1>3, <1>12, <2>1, Zenon DEF Counts
    <2>3. IsResume(Top) => y = 0
        BY <1>1, <1>2, <2>1, Begins
    <2>4. c >= x + 1 /\ (~HandlerIn(s, n) /\ ~h => c = x + 1) /\ c >= b /\ c >= b + y + 1 - 1
        <3>0. c \in Nat
            OBVIOUS
        <3>1. CASE IsResume(Top)
            <4>1. c >= d + 0 /\ (~h => c = d + 0)
                BY <2>1, <3>1
            <4>2. d >= x + 1 /\ (~HandlerIn(s, n) => d = x + 1) /\ d >= b /\ y = 0
                BY <2>2, <2>3, <3>1
            <4> QED BY <4>1, <4>2, <3>0
        <3>2. CASE ~IsResume(Top)
            <4>1. c >= d + 1 /\ (~h => c = d + 1)
                BY <2>1, <3>2
            <4>2. d >= x + 0 /\ (~HandlerIn(s, n) => d = x + 0) /\ d >= b /\ d >= b + y - 1
                BY <2>2, <3>2
            <4>3. c >= b /\ c >= b + y + 1 - 1
                BY <4>1, <4>2, <3>0
            <4>4. c >= x + 1 /\ (~HandlerIn(s, n) /\ ~h => c = x + 1)
                BY <4>1, <4>2, <3>0
            <4> QED BY <4>3, <4>4
        <3> QED BY <3>1, <3>2
    <2> QED BY <1>1, <1>5, <1>11, <2>1, <2>4 DEF MoreCounts
<1>14. MoreFlags(L, n, e)
    BY <1>1, <1>3, <1>5, <1>11, <1>12 DEF MoreFlags, Flags
<1>15. MoreFrames(L, n, e)
    <2>1. Frames(s, L, n) = Len(f) /\ base_ci'[L] = fr /\ Runs(e) = 1 /\ e.k = "execute"
        BY <1>5, <1>11, <1>12
    <2>2. \A m \in 1..Runs(e) : m = 1
        BY <2>1
    <2> QED BY <1>1, <1>7, <1>9, <2>1, <2>2 DEF MoreFrames
<1>16. Saves(L, n, e)
    BY <1>5 DEF Saves
<1>17. n = Len(cstack) /\ (\A i \in n..n : cstack[i].th = L) /\ Follows(cstack[n], e)
    BY <1>1, <1>2, <1>3, <1>5
<1> QED BY <1>3, <1>5, <1>6, <1>11, <1>13, <1>14, <1>15, <1>16, <1>17, MoreKeeps

\* An error, or a handler that is called for it
LEMMA EntersKeeps ==
    ASSUME ThreadsInv, cstack # <<>>, NEW L, L = Running, ~IsResume(Top), NEW r, NEW x, NEW c, GoodOutcome(L, r, c),
           r.out # "ok", Enters(L, r, x)
    PROVE  ThreadsInv'
<1>1. PICK n \in Nat : n = Len(cstack)
    BY StackOf DEF ThreadsInv
<1>2. ThreadsTyped /\ L \in States /\ status[L] = "ok"
    BY <1>1, Now DEF ThreadsInv
<1>3. CASE r.out \in {"ERRRUN", "ERRERR"}
    <2>1. luaD_throw(L, r.out, r.s) /\ r.s \in Nat /\ Len(base_ci[L]) < r.s /\ 2 <= r.s
        BY <1>3 DEF Enters, GoodOutcome
    <2> QED BY <1>3, <2>1, ThrowKeeps
<1>4. CASE r.out = "handler"
    <2>1. PICK d \in Nat, z \in Nat : d = r.c /\ z = r.s
        BY DEF GoodOutcome
    <2>2. d <= LimitCCalls /\ d > nCcalls[L] /\ Len(base_ci[L]) + 1 < z
        BY <1>4, <2>1 DEF GoodOutcome
    <2>3. d \in 0..LimitCCalls /\ d >= nCcalls[L] + 1
        BY <1>2, <2>1, <2>2, OwnValues
    <2>4. /\ cstack' = Append(cstack, Execute(L, 1, TRUE))
          /\ base_ci' = [base_ci EXCEPT ![L] = Append(@, "lua")]
          /\ nCcalls' = [nCcalls EXCEPT ![L] = d]
          /\ size_ci' = [size_ci EXCEPT ![L] = z]
          /\ UNCHANGED <<baseCcalls, errfunc, allowhook, status, fresh>>
        BY <1>4, <2>1 DEF Enters
    <2>5. Sets(L, Append(base_ci[L], "lua"), d, allowhook[L], errfunc[L], z, status[L])
        BY <1>2, <2>4, OwnValues DEF Sets
    <2>6. fresh' \in [States -> BOOLEAN]
        BY <1>2, <2>4, OwnValues
    <2> QED BY <1>2, <2>1, <2>2, <2>3, <2>4, <2>5, <2>6, CallKeeps
<1> QED BY <1>3, <1>4 DEF GoodOutcome

\* luaD_call
LEMMA luaD_callKeeps ==
    ASSUME ThreadsInv, cstack # <<>>, NEW L, L = Running, ~IsResume(Top), luaD_call(L)
    PROVE  ThreadsInv'
<1>1. PICK n \in Nat : n = Len(cstack)
    BY StackOf DEF ThreadsInv
<1>2. ThreadsTyped /\ L \in States /\ status[L] = "ok"
    BY <1>1, Now DEF ThreadsInv
<1>3. PICK r : r = Calling(L)
    OBVIOUS
<1>4. GoodOutcome(L, r, nCcalls[L] + 1) /\ Enters(L, r, Append(cstack, Execute(L, 1, FALSE)))
    BY <1>2, <1>3, Outcomes DEF luaD_call
<1>5. CASE r.out # "ok"
    BY <1>4, <1>5, EntersKeeps
<1>6. CASE r.out = "ok"
    <2>1. PICK d \in Nat, z \in Nat : d = r.c /\ z = r.s
        BY <1>4 DEF GoodOutcome
    <2>2. d <= LimitCCalls /\ d = nCcalls[L] + 1 /\ Len(base_ci[L]) + 1 < z
        BY <1>4, <1>6, <2>1 DEF GoodOutcome
    <2>3. d \in 0..LimitCCalls /\ d >= nCcalls[L] + 1
        BY <1>2, <2>1, <2>2, OwnValues
    <2>4. /\ cstack' = Append(cstack, Execute(L, 1, FALSE))
          /\ base_ci' = [base_ci EXCEPT ![L] = Append(@, "lua")]
          /\ nCcalls' = [nCcalls EXCEPT ![L] = d]
          /\ size_ci' = [size_ci EXCEPT ![L] = z]
          /\ UNCHANGED <<baseCcalls, errfunc, allowhook, status, fresh>>
        BY <1>4, <1>6, <2>1 DEF Enters
    <2>5. Sets(L, Append(base_ci[L], "lua"), d, allowhook[L], errfunc[L], z, status[L])
        BY <1>2, <2>4, OwnValues DEF Sets
    <2>6. fresh' \in [States -> BOOLEAN]
        BY <1>2, <2>4, OwnValues
    <2> QED BY <1>2, <2>1, <2>2, <2>3, <2>4, <2>5, <2>6, CallKeeps
<1> QED BY <1>5, <1>6
\* The function on top of the stack is luaV_execute: what it adds to what is below.
LEMMA TopExecute ==
    ASSUME ThreadsInv, cstack # <<>>, NEW n \in Nat, n = Len(cstack), NEW L, L = Running, Top.k = "execute",
           NEW p \in Nat, n = p + 1
    PROVE  /\ p >= 1 /\ p \in 1..n /\ p \in 0..Len(cstack) /\ Top \in ExecuteRecs /\ cstack[p] \in Activations
           /\ cstack[p].th = L /\ status[L] = "ok"
           /\ Follows(cstack[p], Top) /\ (p > 1 => Follows(cstack[p - 1], cstack[p])) /\ (p = 1 => cstack[p] = FirstCall)
           /\ Execs(cstack, n) = Execs(cstack, p) + 1
           /\ ExecsOf(cstack, L, n) = ExecsOf(cstack, L, p) + 1
           /\ Frames(cstack, L, n) = Frames(cstack, L, p) + Top.n
           /\ HandlerIn(cstack, n) <=> HandlerIn(cstack, p) \/ Top.handler
           /\ HookIn(cstack, L, n) <=> HookIn(cstack, L, p)
           /\ Handled(cstack, L, n) <=> Handled(cstack, L, p)
           /\ Execs(cstack, p) \in Nat /\ ExecsOf(cstack, L, p) \in Nat /\ Frames(cstack, L, p) \in Nat
<1>1. PICK s : s = cstack
    OBVIOUS
<1>2. s \in Seq(Activations) /\ n = Len(s) /\ n \in 1..n /\ s[n].th = L /\ Top = s[n] /\ s[n] \in Activations /\ n >= 1
    BY <1>1, Now, StackOf DEF ThreadsInv
<1>3. s[n] \in ExecuteRecs /\ ~IsPcall(s[n]) /\ ~IsResume(s[n]) /\ Runs(s[n]) = s[n].n
    BY <1>2, ActivationKinds DEF IsResume, IsPcall, Runs
<1>4. p >= 1
    <2>1. n = 1 => Top = FirstCall
        BY Now
    <2> QED BY <1>2, <2>1 DEF FirstCall
<1>5. p \in 1..n /\ p \in 0..Len(s) /\ n \in 1..Len(s) /\ n - 1 = p /\ n \in 2..n
    BY <1>2, <1>4
<1>6. Follows(s[p], s[n]) /\ s[p].th = L /\ s[p] \in Activations
    <2>1. Follows(s[n - 1], s[n])
        BY <1>1, <1>2, <1>5 DEF ThreadsInv, Pieces
    <2>2. Follows(s[p], s[n])
        BY <2>1, <1>5
    <2>3. s[p] \in Activations
        BY <1>2, <1>5
    <2> QED BY <2>2, <2>3, <1>2, <1>3 DEF Follows
<1>7. p > 1 => Follows(s[p - 1], s[p])
    <2>1. p > 1 => p \in 2..n
        BY <1>5
    <2> QED BY <1>1, <1>2, <2>1 DEF ThreadsInv, Pieces
<1>8. p = 1 => s[p] = FirstCall
    BY <1>1 DEF ThreadsInv, Pieces
<1>9. /\ Execs(s, n) = Execs(s, n - 1) + (IF s[n].k = "execute" THEN 1 ELSE 0)
      /\ ExecsOf(s, L, n) = ExecsOf(s, L, n - 1) + (IF s[n].k = "execute" /\ s[n].th = L THEN 1 ELSE 0)
      /\ Frames(s, L, n) = Frames(s, L, n - 1) + (IF s[n].th = L THEN Runs(s[n]) ELSE 0)
      /\ HandlerIn(s, n) <=> HandlerIn(s, n - 1) \/ (s[n].k = "execute" /\ s[n].handler)
      /\ HookIn(s, L, n) <=> HookIn(s, L, n - 1) \/ (s[n].th = L /\ s[n].k = "hook")
      /\ Handled(s, L, n) <=> IF PcallOf(s, L, n) /\ n > 1 THEN s[n - 1].f = "xpcall" ELSE Handled(s, L, n - 1)
    BY <1>2, <1>5, OneMore
<1>10. Execs(s, p) \in Nat /\ ExecsOf(s, L, p) \in Nat /\ Frames(s, L, p) \in Nat
    BY <1>2, <1>5, Finite
<1>11. s[n].k = "execute" /\ ~PcallOf(s, L, n)
    BY <1>2, <1>3 DEF PcallOf
<1>12. /\ Execs(s, n) = Execs(s, p) + 1 /\ ExecsOf(s, L, n) = ExecsOf(s, L, p) + 1
       /\ Frames(s, L, n) = Frames(s, L, p) + s[n].n
       /\ HandlerIn(s, n) <=> HandlerIn(s, p) \/ s[n].handler
       /\ HookIn(s, L, n) <=> HookIn(s, L, p)
       /\ Handled(s, L, n) <=> Handled(s, L, p)
    BY <1>2, <1>3, <1>5, <1>9, <1>11
<1>13. status[L] = "ok"
    BY <1>1, <1>2, <1>3, Now
<1> QED BY <1>1, <1>2, <1>3, <1>4, <1>5, <1>6, <1>7, <1>8, <1>10, <1>12, <1>13

\* The activation on top becomes e.
LEMMA Replaced ==
    ASSUME ThreadsTyped, NEW p \in Nat, Len(cstack) = p + 1, NEW e \in Activations, cstack' = Append(Below(1), e)
    PROVE  cstack' \in Seq(Activations) /\ Len(cstack') = p + 1 /\ cstack'[p + 1] = e /\ Agree(cstack, cstack', p)
<1>1. PICK s : s = cstack
    OBVIOUS
<1>2. PICK t : t = SubSeq(s, 1, p)
    OBVIOUS
<1>3. s \in Seq(Activations) /\ p <= Len(s) /\ t = Below(1)
    BY <1>1, <1>2 DEF ThreadsTyped, Below
<1>4. t \in Seq(Activations) /\ Len(t) = p /\ \A i \in 1..p : t[i] = s[i]
    BY <1>2, <1>3
<1>5. PICK r : r = Append(t, e)
    OBVIOUS
<1>6. r \in Seq(Activations) /\ Len(r) = p + 1 /\ r[p + 1] = e /\ \A i \in 1..p : r[i] = t[i]
    BY <1>4, <1>5, Appended
<1>7. Agree(s, r, p)
    BY <1>4, <1>6 DEF Agree, Same
<1> QED BY <1>1, <1>3, <1>5, <1>6, <1>7

\* luaV_execute runs m frames now.
LEMMA RunsKeeps ==
    ASSUME ThreadsInv, cstack # <<>>, NEW L, L = Running, Top.k = "execute", NEW m \in Nat \ {0},
           NEW fr \in Seq({"lua", "c"}), NEW z \in Nat, 2 <= z, Len(fr) < z, Len(fr) = Len(base_ci[L]) - Top.n + m,
           \A k \in 1..Len(fr) : fr[k] = IF k <= Len(base_ci[L]) THEN base_ci[L][k] ELSE "lua",
           cstack' = Append(Below(1), [Top EXCEPT !.n = m]), fresh' \in [States -> BOOLEAN],
           Sets(L, fr, nCcalls[L], allowhook[L], errfunc[L], z, "ok")
    PROVE  ThreadsInv'
<1>1. PICK n \in Nat : n = Len(cstack)
    BY StackOf DEF ThreadsInv
<1>2. ThreadsTyped /\ L \in States /\ n \in 1..n /\ n >= 1 /\ Top = cstack[n] /\ Top.th = L /\ RecordedAt(cstack, n)
    BY <1>1, Now DEF ThreadsInv
<1>3. PICK p \in Nat : n = p + 1
    BY <1>2
<1>4. /\ p >= 1 /\ p \in 1..n /\ p \in 0..Len(cstack) /\ Top \in ExecuteRecs /\ cstack[p] \in Activations
      /\ cstack[p].th = L /\ status[L] = "ok"
      /\ Follows(cstack[p], Top)
      /\ Execs(cstack, n) = Execs(cstack, p) + 1
      /\ ExecsOf(cstack, L, n) = ExecsOf(cstack, L, p) + 1
      /\ Frames(cstack, L, n) = Frames(cstack, L, p) + Top.n
      /\ HandlerIn(cstack, n) <=> HandlerIn(cstack, p) \/ Top.handler
      /\ HookIn(cstack, L, n) <=> HookIn(cstack, L, p)
      /\ Handled(cstack, L, n) <=> Handled(cstack, L, p)
      /\ Execs(cstack, p) \in Nat /\ ExecsOf(cstack, L, p) \in Nat /\ Frames(cstack, L, p) \in Nat
    BY <1>1, <1>3, TopExecute
<1>5. PICK e : e = [Top EXCEPT !.n = m]
    OBVIOUS
<1>6. /\ e \in ExecuteRecs /\ e.th = L /\ e.k = "execute" /\ e.handler = Top.handler /\ e.n = m
      /\ Top.n \in Nat /\ Top.k = "execute"
    BY <1>2, <1>4, <1>5 DEF ExecuteRecs
<1>7. /\ e \in Activations /\ ~IsResume(e) /\ ~IsPcall(e) /\ Runs(e) = m /\ One(e) = 1 /\ e.k # "hook"
      /\ ~IsResume(Top)
    BY <1>6 DEF Activations, IsResume, IsPcall, Runs, One
<1>8. Follows(cstack[p], e)
    BY <1>2, <1>4, <1>6, <1>7 DEF Follows
<1>9. cstack' \in Seq(Activations) /\ Len(cstack') = p + 1 /\ cstack'[p + 1] = e /\ Agree(cstack, cstack', p)
    BY <1>1, <1>2, <1>3, <1>5, <1>7, Replaced
<1>10. CanSet(fr, nCcalls[L], allowhook[L], errfunc[L], z, "ok")
    BY <1>2, OwnValues DEF CanSet
<1>11. /\ ThreadsTyped' /\ Others(L)
       /\ base_ci'[L] = fr /\ nCcalls'[L] = nCcalls[L] /\ baseCcalls'[L] = baseCcalls[L]
       /\ errfunc'[L] = errfunc[L] /\ allowhook'[L] = allowhook[L] /\ status'[L] = "ok"
    BY <1>2, <1>9, <1>10, OwnChange
<1>12. /\ Counts(cstack, n, nCcalls[L], baseCcalls[L]) /\ Flags(cstack, n, allowhook[L], errfunc[L])
       /\ Len(base_ci[L]) = Frames(cstack, L, n)
    BY <1>2, <1>4 DEF RecordedAt
<1>13. MoreCounts(L, p, e)
    <2>1. PICK x \in Nat, y \in Nat, b \in Nat, d \in Nat :
             x = Execs(cstack, p) /\ y = ExecsOf(cstack, L, p) /\ b = baseCcalls[L] /\ d = nCcalls[L]
        BY <1>2, <1>4, OwnValues
    <2>2. Execs(cstack, n) = x + 1 /\ ExecsOf(cstack, L, n) = y + 1
        BY <1>4, <2>1
    <2>3. /\ d >= (x + 1) + 0
          /\ ~HandlerIn(cstack, n) => d = (x + 1) + 0
          /\ d >= b /\ d >= b + (y + 1) - 1
        <3>1. (IF IsResume(Top) THEN 1 ELSE 0) = 0
            BY <1>7
        <3>2. /\ d >= Execs(cstack, n) + 0 /\ (~HandlerIn(cstack, n) => d = Execs(cstack, n) + 0)
              /\ d >= b /\ d >= b + ExecsOf(cstack, L, n) - 1
            BY <1>2, <1>12, <2>1, <3>1 DEF Counts
        <3> QED BY <2>2, <3>2
    <2>4. d >= x + 1 /\ d >= b /\ d >= b + y + 1 - 1
        BY <2>3
    <2>5. ~HandlerIn(cstack, n) => d = x + 1
        BY <2>3
    <2> QED BY <1>4, <1>6, <1>7, <1>11, <2>1, <2>4, <2>5 DEF MoreCounts
<1>14. MoreFlags(L, p, e)
    BY <1>2, <1>4, <1>7, <1>11, <1>12 DEF MoreFlags, Flags
<1>15. MoreFrames(L, p, e)
    <2>1. PICK x \in Nat, t \in Nat, l \in Nat : x = Frames(cstack, L, p) /\ t = Top.n /\ l = Len(base_ci[L])
        BY <1>2, <1>4, <1>6, OwnValues
    <2>2. l = x + t /\ Len(fr) = x + m /\ x + m \in Nat
        <3>1. l = x + t
            BY <1>4, <1>12, <2>1
        <3>2. Len(fr) = l - t + m
            BY <2>1
        <3>3. l - t + m = x + m
            BY <3>1
        <3>4. x + m \in Nat
            OBVIOUS
        <3> QED BY <3>1, <3>2, <3>3, <3>4
    <2>3. \A k \in 1..(x + m) : fr[k] = IF k <= l THEN base_ci[L][k] ELSE "lua"
        BY <2>1, <2>2
    <2>4. \A k \in 1..x : fr[k] = base_ci[L][k]
        BY <2>2, <2>3
    <2>5. \A k \in 1..t : base_ci[L][x + k] = "lua"
        <3>1. PlacedAt(cstack, n) /\ n - 1 = p
            BY <1>1, <1>2, <1>3 DEF ThreadsInv, Placed
        <3>2. cstack[n].th = L /\ cstack[n].k = "execute" /\ Runs(cstack[n]) = t
            BY <1>2, <1>6, <2>1 DEF Runs
        <3> QED BY <2>1, <3>1, <3>2 DEF PlacedAt
    <2>6. ASSUME NEW k \in 1..m PROVE fr[x + k] = "lua"
        <3>1. x + k \in 1..(x + m)
            OBVIOUS
        <3>2. CASE k <= t
            <4>1. fr[x + k] = base_ci[L][x + k] /\ k \in 1..t
                BY <2>2, <2>3, <3>1, <3>2
            <4> QED BY <4>1, <2>5
        <3>3. CASE ~(k <= t)
            <4>1. ~(x + k <= l)
                BY <2>2, <3>3
            <4> QED BY <4>1, <2>3, <3>1
        <3> QED BY <3>2, <3>3
    <2> QED BY <1>6, <1>7, <1>11, <2>1, <2>2, <2>4, <2>6 DEF MoreFrames
<1>16. Saves(L, p, e)
    BY <1>7 DEF Saves
<1>17. \A i \in p..n : cstack[i].th = L
    <2>1. \A i \in p..n : i = p \/ i = n
        BY <1>3
    <2> QED BY <2>1, <1>2, <1>4
<1> QED BY <1>1, <1>2, <1>4, <1>6, <1>7, <1>8, <1>9, <1>11, <1>13, <1>14, <1>15, <1>16, <1>17, MoreKeeps
\* e, which does not enter luaV_execute, comes on top; base_ci is fr, allowhook ah and errfunc ef then.
Pushes(L, e, fr, ah, ef) ==
    /\ Len(fr) = Len(base_ci[L]) + Runs(e) /\ \A k \in 1..Len(base_ci[L]) : fr[k] = base_ci[L][k]
    /\ \A m \in 1..Runs(e) : fr[Len(base_ci[L]) + m] = "c"
    /\ ah <=> allowhook[L] /\ e.k # "hook"
    /\ ef <=> IF IsPcall(e) THEN Top.f = "xpcall" ELSE errfunc[L]
    /\ IsPcall(e) => /\ e.calls = nCcalls[L] /\ e.ci = Len(base_ci[L])
                     /\ e.ah = allowhook[L] /\ e.ef = errfunc[L]
    /\ e.k = "hook" => e.ah = allowhook[L]

LEMMA PushKeeps ==
    ASSUME ThreadsInv, cstack # <<>>, NEW L, L = Running, ~IsResume(Top), NEW e \in Activations, e.th = L, ~IsResume(e),
           e.k # "execute", Follows(Top, e), cstack' = Append(cstack, e), fresh' \in [States -> BOOLEAN],
           NEW fr, NEW ah, NEW ef, NEW z, Sets(L, fr, nCcalls[L], ah, ef, z, "ok"),
           CanSet(fr, nCcalls[L], ah, ef, z, "ok"), Pushes(L, e, fr, ah, ef)
    PROVE  ThreadsInv'
<1>1. PICK n \in Nat : n = Len(cstack)
    BY StackOf DEF ThreadsInv
<1>2. /\ ThreadsTyped /\ L \in States /\ n \in 1..n /\ n >= 1 /\ Top = cstack[n] /\ Top.th = L /\ RecordedAt(cstack, n)
      /\ status[L] = "ok" /\ Len(base_ci[L]) = Frames(cstack, L, n)
    BY <1>1, Now DEF ThreadsInv
<1>3. cstack' \in Seq(Activations) /\ Len(cstack') = n + 1 /\ cstack'[n + 1] = e /\ Agree(cstack, cstack', n)
    BY <1>1, <1>2, Pushed
<1>4. /\ ThreadsTyped' /\ Others(L)
      /\ base_ci'[L] = fr /\ nCcalls'[L] = nCcalls[L] /\ baseCcalls'[L] = baseCcalls[L]
      /\ errfunc'[L] = ef /\ allowhook'[L] = ah /\ status'[L] = "ok"
    BY <1>2, <1>3, OwnChange
<1>5. Counts(cstack, n, nCcalls[L], baseCcalls[L]) /\ Flags(cstack, n, allowhook[L], errfunc[L])
    BY <1>2 DEF RecordedAt
<1>6. /\ allowhook[L] <=> ~HookIn(cstack, L, n)
      /\ errfunc[L] <=> Handled(cstack, L, n)
    BY <1>2, <1>5 DEF Flags
<1>7. MoreCounts(L, n, e)
    <2>1. PICK x \in Nat, y \in Nat, b \in Nat, d \in Nat :
             x = Execs(cstack, n) /\ y = ExecsOf(cstack, L, n) /\ b = baseCcalls[L] /\ d = nCcalls[L]
        <3>1. cstack \in Seq(Activations) /\ n \in 0..Len(cstack)
            BY <1>1, <1>2, StackOf
        <3> QED BY <3>1, <1>2, Finite, OwnValues
    <2>2. (IF IsResume(cstack[n]) THEN 1 ELSE 0) = 0
        BY <1>2
    <2>3. /\ d >= x + 0 /\ (~HandlerIn(cstack, n) => d = x + 0)
          /\ d >= b /\ d >= b + y - 1
        BY <1>2, <1>5, <2>1, <2>2 DEF Counts
    <2>4. One(e) = 0
        BY DEF One
    <2>5. d >= b + y + 0 - 1
        BY <2>3
    <2> QED BY <1>4, <2>1, <2>3, <2>4, <2>5 DEF MoreCounts
<1>8. MoreFlags(L, n, e)
    BY <1>2, <1>4, <1>6 DEF MoreFlags, Pushes
<1>9. MoreFrames(L, n, e)
    BY <1>2, <1>4 DEF MoreFrames, Pushes
<1>10. Saves(L, n, e)
    BY <1>2, <1>5, <1>6 DEF Saves, Pushes
<1>11. n = Len(cstack) /\ (\A i \in n..n : cstack[i].th = L) /\ Follows(cstack[n], e)
    BY <1>1, <1>2
<1> QED BY <1>2, <1>3, <1>4, <1>7, <1>8, <1>9, <1>10, <1>11, MoreKeeps

------------------------------------------------------------------------------
(* The steps, one by one *)

\* Who runs.
LEMMA Who ==
    ASSUME ThreadsInv, cstack # <<>>
    PROVE  /\ ThreadsTyped /\ Running \in States /\ Top \in Activations
           /\ Top.k # "try" => ~IsResume(Top) /\ status[Running] = "ok"
           /\ IsPcall(Top) => ~IsResume(Top) /\ status[Running] = "ok"
           /\ Append(base_ci[Running], "lua") \in Seq({"lua", "c"})
           /\ Len(Append(base_ci[Running], "lua")) = Len(base_ci[Running]) + 1
<1>1. PICK n \in Nat : n = Len(cstack)
    BY StackOf DEF ThreadsInv
<1>2. /\ ThreadsTyped /\ Running \in States /\ Top \in Activations
      /\ ~IsResume(Top) => status[Running] = "ok"
    BY <1>1, Now DEF ThreadsInv
<1>3. base_ci[Running] \in Seq({"lua", "c"})
    BY <1>2, OwnValues
<1> QED BY <1>2, <1>3, Appended DEF IsResume, IsPcall

LEMMA CallLuaKeeps == ASSUME ThreadsInv, CallLua PROVE ThreadsInv'
<1>1. PICK L : L = Running
    OBVIOUS
<1>2. PICK r : r = Entering(L)
    OBVIOUS
<1>3. /\ cstack # <<>> /\ Top.k = "execute" /\ Enters(L, r, Append(Below(1), [Top EXCEPT !.n = @ + 1]))
      /\ ThreadsTyped /\ L \in States /\ ~IsResume(Top) /\ status[L] = "ok" /\ Top \in Activations
    BY <1>1, <1>2, Who DEF CallLua, InExecute, Alive
<1>4. GoodOutcome(L, r, nCcalls[L])
    BY <1>2, <1>3, Outcomes
<1>5. CASE r.out # "ok"
    BY <1>1, <1>3, <1>4, <1>5, EntersKeeps
<1>6. CASE r.out = "ok"
    <2>1. Top \in ExecuteRecs
        BY <1>3, ActivationKinds
    <2>2. PICK m \in Nat \ {0} : m = Top.n + 1
        BY <2>1 DEF ExecuteRecs
    <2>3. PICK z \in Nat : z = r.s
        BY <1>4 DEF GoodOutcome
    <2>4. PICK f \in Seq({"lua", "c"}) : f = base_ci[L]
        BY <1>3, OwnValues
    <2>5. PICK fr : fr = Append(f, "lua")
        OBVIOUS
    <2>6. /\ fr \in Seq({"lua", "c"}) /\ Len(f) \in Nat /\ Len(fr) = Len(f) + 1 /\ (\A k \in 1..Len(f) : fr[k] = f[k])
          /\ fr[Len(f) + 1] = "lua"
        BY <2>5, Appended
    <2>7. r.c = nCcalls[L] /\ Len(fr) < z /\ 2 <= z
        BY <1>4, <1>6, <2>3, <2>4, <2>6 DEF GoodOutcome
    <2>8. cstack' = Append(Below(1), [Top EXCEPT !.n = m])
        BY <1>3, <1>6, <2>2 DEF Enters
    <2>9. Sets(L, fr, nCcalls[L], allowhook[L], errfunc[L], z, "ok") /\ fresh' \in [States -> BOOLEAN]
        <3>1. /\ base_ci' = [base_ci EXCEPT ![L] = fr] /\ nCcalls' = [nCcalls EXCEPT ![L] = nCcalls[L]]
              /\ size_ci' = [size_ci EXCEPT ![L] = z] /\ UNCHANGED <<baseCcalls, errfunc, allowhook, status, fresh>>
            BY <1>3, <1>6, <2>3, <2>4, <2>5, <2>7 DEF Enters
        <3> QED BY <3>1, <1>3, OwnValues DEF Sets
    <2>10. Len(fr) = Len(base_ci[L]) - Top.n + m
        <3>1. Top.n \in Nat
            BY <2>1 DEF ExecuteRecs
        <3> QED BY <3>1, <2>2, <2>4, <2>6
    <2>11. \A k \in 1..Len(fr) : fr[k] = IF k <= Len(base_ci[L]) THEN base_ci[L][k] ELSE "lua"
        <3>1. \A k \in 1..(Len(f) + 1) : k \in 1..Len(f) \/ (k = Len(f) + 1 /\ ~(k <= Len(f)))
            BY <2>6
        <3> QED BY <3>1, <2>4, <2>6
    <2> QED BY <1>1, <1>3, <2>3, <2>6, <2>7, <2>8, <2>9, <2>10, <2>11, RunsKeeps
<1> QED BY <1>5, <1>6

LEMMA CallCKeeps == ASSUME ThreadsInv, NEW g \in Functions, CallC(g) PROVE ThreadsInv'
<1>1. PICK L : L = Running
    OBVIOUS
<1>2. PICK r : r = Entering(L)
    OBVIOUS
<1>3. /\ cstack # <<>> /\ Top.k = "execute"
      /\ ThreadsTyped /\ L \in States /\ ~IsResume(Top) /\ status[L] = "ok" /\ Top \in Activations /\ Top.th = L
    BY <1>1, Who DEF CallC, InExecute, Alive, Running
<1>4. GoodOutcome(L, r, nCcalls[L])
    BY <1>2, <1>3, Outcomes
<1>5. CASE r.out # "ok"
    <2>1. Enters(L, r, cstack)
        BY <1>1, <1>2, <1>5 DEF CallC
    <2> QED BY <1>1, <1>3, <1>4, <1>5, <2>1, EntersKeeps
<1>6. CASE r.out = "ok"
    <2>1. PICK e : e = CFunction(L, g)
        OBVIOUS
    <2>2. /\ e \in Activations /\ e.th = L /\ ~IsResume(e) /\ ~IsPcall(e) /\ e.k # "execute" /\ e.k # "hook" /\ Runs(e) = 1
          /\ Follows(Top, e)
        BY <1>3, <2>1 DEF CFunction, Activations, CFunctionRecs, Stages, IsResume, IsPcall, Runs, Follows
    <2>3. PICK z \in Nat : z = r.s
        BY <1>4 DEF GoodOutcome
    <2>4. PICK f \in Seq({"lua", "c"}) : f = base_ci[L]
        BY <1>3, OwnValues
    <2>5. PICK fr : fr = Append(f, "c")
        OBVIOUS
    <2>6. /\ fr \in Seq({"lua", "c"}) /\ Len(f) \in Nat /\ Len(fr) = Len(f) + 1 /\ (\A k \in 1..Len(f) : fr[k] = f[k])
          /\ fr[Len(f) + 1] = "c"
        BY <2>5, Appended
    <2>7. Len(fr) < z /\ 2 <= z
        BY <1>4, <1>6, <2>3, <2>4, <2>6 DEF GoodOutcome
    <2>8. /\ cstack' = Append(cstack, e) /\ base_ci' = [base_ci EXCEPT ![L] = fr]
          /\ size_ci' = [size_ci EXCEPT ![L] = z]
          /\ UNCHANGED <<nCcalls, baseCcalls, errfunc, allowhook, status, fresh>>
        BY <1>1, <1>2, <1>6, <2>1, <2>3, <2>4, <2>5 DEF CallC
    <2>9. Sets(L, fr, nCcalls[L], allowhook[L], errfunc[L], z, "ok") /\ fresh' \in [States -> BOOLEAN]
        BY <1>3, <2>8, OwnValues DEF Sets
    <2>10. CanSet(fr, nCcalls[L], allowhook[L], errfunc[L], z, "ok")
        BY <1>3, <2>6, <2>7, OwnValues DEF CanSet
    <2>11. /\ Len(fr) = Len(base_ci[L]) + Runs(e) /\ (\A k \in 1..Len(base_ci[L]) : fr[k] = base_ci[L][k])
           /\ \A m \in 1..Runs(e) : fr[Len(base_ci[L]) + m] = "c"
        <3>1. \A m \in 1..1 : m = 1
            OBVIOUS
        <3> QED BY <3>1, <2>2, <2>4, <2>6
    <2>12. /\ allowhook[L] <=> allowhook[L] /\ e.k # "hook"
           /\ errfunc[L] <=> IF IsPcall(e) THEN Top.f = "xpcall" ELSE errfunc[L]
        BY <2>2
    <2>13. Pushes(L, e, fr, allowhook[L], errfunc[L])
        BY <2>2, <2>11, <2>12 DEF Pushes
    <2> QED BY <1>1, <1>3, <2>2, <2>8, <2>9, <2>10, <2>13, PushKeeps
<1> QED BY <1>5, <1>6
LEMMA StartHookKeeps == ASSUME ThreadsInv, NEW isgc \in BOOLEAN, StartHook(isgc) PROVE ThreadsInv'
<1>1. PICK L : L = Running
    OBVIOUS
<1>2. /\ cstack # <<>> /\ Top.k = "execute"
      /\ ThreadsTyped /\ L \in States /\ ~IsResume(Top) /\ status[L] = "ok" /\ Top \in Activations /\ Top.th = L
    BY <1>1, Who DEF StartHook, InExecute, Alive, Running
<1>3. PICK e : e = Hook(L)
    OBVIOUS
<1>4. /\ e \in Activations /\ e.th = L /\ ~IsResume(e) /\ ~IsPcall(e) /\ e.k = "hook" /\ Runs(e) = 0
      /\ e.ah = allowhook[L] /\ Follows(Top, e) /\ e.k # "execute"
    BY <1>2, <1>3, OwnValues DEF Hook, Activations, HookRecs, IsResume, IsPcall, Runs, Follows
<1>5. PICK fr \in Seq({"lua", "c"}) : fr = base_ci[L]
    BY <1>2, OwnValues
<1>6. PICK ah \in BOOLEAN : ah = FALSE
    OBVIOUS
<1>7. /\ cstack' = Append(cstack, e) /\ allowhook' = [allowhook EXCEPT ![L] = ah]
      /\ UNCHANGED <<base_ci, nCcalls, baseCcalls, errfunc, size_ci, status, fresh>>
    BY <1>1, <1>3, <1>6 DEF StartHook
<1>8. Sets(L, fr, nCcalls[L], ah, errfunc[L], size_ci[L], "ok") /\ fresh' \in [States -> BOOLEAN]
    BY <1>2, <1>5, <1>7, OwnValues DEF Sets
<1>9. CanSet(fr, nCcalls[L], ah, errfunc[L], size_ci[L], "ok")
    BY <1>2, <1>5, OwnValues DEF CanSet
<1>10. /\ Len(fr) = Len(base_ci[L]) + Runs(e) /\ (\A k \in 1..Len(base_ci[L]) : fr[k] = base_ci[L][k])
       /\ \A m \in 1..Runs(e) : fr[Len(base_ci[L]) + m] = "c"
    BY <1>2, <1>4, <1>5, OwnValues
<1>11. /\ ah <=> allowhook[L] /\ e.k # "hook"
       /\ errfunc[L] <=> IF IsPcall(e) THEN Top.f = "xpcall" ELSE errfunc[L]
    BY <1>4, <1>6
<1>12. Pushes(L, e, fr, ah, errfunc[L])
    BY <1>4, <1>10, <1>11 DEF Pushes
<1> QED BY <1>1, <1>2, <1>4, <1>7, <1>8, <1>9, <1>12, PushKeeps

LEMMA EnterPcallKeeps == ASSUME ThreadsInv, NEW g \in {"pcall", "xpcall"}, EnterPcall(g) PROVE ThreadsInv'
<1>1. PICK L : L = Running
    OBVIOUS
<1>2. /\ cstack # <<>> /\ Top.k = "cfunction" /\ Top.f = g
      /\ ThreadsTyped /\ L \in States /\ ~IsResume(Top) /\ status[L] = "ok" /\ Top \in Activations /\ Top.th = L
    BY <1>1, Who DEF EnterPcall, InFunction, Alive, Running
<1>3. PICK e : e = TryCall(L)
    OBVIOUS
<1>4. /\ e \in Activations /\ e.th = L /\ ~IsResume(e) /\ IsPcall(e) /\ e.k = "try" /\ Runs(e) = 0
      /\ e.calls = nCcalls[L] /\ e.ci = Len(base_ci[L]) /\ e.ah = allowhook[L] /\ e.ef = errfunc[L]
      /\ Follows(Top, e) /\ e.k # "execute"
    BY <1>2, <1>3, OwnValues DEF TryCall, Activations, PcallRecs, IsResume, IsPcall, Runs, Follows
<1>5. PICK fr \in Seq({"lua", "c"}) : fr = base_ci[L]
    BY <1>2, OwnValues
<1>6. PICK ef \in BOOLEAN : ef = (g = "xpcall")
    OBVIOUS
<1>7. /\ cstack' = Append(cstack, e) /\ errfunc' = [errfunc EXCEPT ![L] = ef]
      /\ UNCHANGED <<base_ci, nCcalls, baseCcalls, allowhook, size_ci, status, fresh>>
    BY <1>1, <1>3, <1>6 DEF EnterPcall
<1>8. Sets(L, fr, nCcalls[L], allowhook[L], ef, size_ci[L], "ok") /\ fresh' \in [States -> BOOLEAN]
    BY <1>2, <1>5, <1>7, OwnValues DEF Sets
<1>9. CanSet(fr, nCcalls[L], allowhook[L], ef, size_ci[L], "ok")
    BY <1>2, <1>5, OwnValues DEF CanSet
<1>10. /\ Len(fr) = Len(base_ci[L]) + Runs(e) /\ (\A k \in 1..Len(base_ci[L]) : fr[k] = base_ci[L][k])
       /\ \A m \in 1..Runs(e) : fr[Len(base_ci[L]) + m] = "c"
    BY <1>2, <1>4, <1>5, OwnValues
<1>11. /\ allowhook[L] <=> allowhook[L] /\ e.k # "hook"
       /\ ef <=> IF IsPcall(e) THEN Top.f = "xpcall" ELSE errfunc[L]
    BY <1>2, <1>4, <1>6
<1>12. Pushes(L, e, fr, allowhook[L], ef)
    BY <1>4, <1>10, <1>11 DEF Pushes
<1> QED BY <1>1, <1>2, <1>4, <1>7, <1>8, <1>9, <1>12, PushKeeps

LEMMA CReturnsKeeps == ASSUME ThreadsInv, CReturns PROVE ThreadsInv'
<1>1. PICK L : L = Running
    OBVIOUS
<1>2. PICK n \in Nat : n = Len(cstack)
    BY StackOf DEF ThreadsInv
<1>3. /\ cstack # <<>> /\ Top.k = "cfunction"
      /\ ThreadsTyped /\ L \in States /\ ~IsResume(Top) /\ status[L] = "ok" /\ Top \in Activations /\ Top.th = L
    BY <1>1, Who DEF CReturns, Alive, Running
<1>4. /\ n >= 1 /\ n \in 1..n /\ Top = cstack[n] /\ RecordedAt(cstack, n) /\ Len(base_ci[L]) = Frames(cstack, L, n)
      /\ n > 1 => Follows(cstack[n - 1], cstack[n])
      /\ n = 1 => Top = FirstCall
    BY <1>1, <1>2, <1>3, Now
<1>5. PICK s : s = cstack
    OBVIOUS
<1>6. PICK p \in Nat : n = p + 1
    BY <1>4
<1>7. p >= 1 /\ p \in 1..n /\ p \in 0..Len(s) /\ n \in 1..Len(s) /\ n - 1 = p /\ s \in Seq(Activations) /\ n = Len(s)
    BY <1>2, <1>3, <1>4, <1>5, <1>6, StackOf DEF FirstCall
<1>8. s[n].k = "cfunction" /\ s[n].th = L /\ Runs(s[n]) = 1 /\ ~PcallOf(s, L, n) /\ ~IsResume(s[n])
    BY <1>3, <1>4, <1>5 DEF Runs, PcallOf, IsPcall
<1>9. s[p].th = L /\ s[p].k = "execute" /\ ~IsResume(s[p])
    BY <1>4, <1>5, <1>7, <1>8 DEF Follows, IsResume
<1>10. /\ Execs(s, n) = Execs(s, n - 1) + (IF s[n].k = "execute" THEN 1 ELSE 0)
       /\ ExecsOf(s, L, n) = ExecsOf(s, L, n - 1) + (IF s[n].k = "execute" /\ s[n].th = L THEN 1 ELSE 0)
       /\ Frames(s, L, n) = Frames(s, L, n - 1) + (IF s[n].th = L THEN Runs(s[n]) ELSE 0)
       /\ HandlerIn(s, n) <=> HandlerIn(s, n - 1) \/ (s[n].k = "execute" /\ s[n].handler)
       /\ HookIn(s, L, n) <=> HookIn(s, L, n - 1) \/ (s[n].th = L /\ s[n].k = "hook")
       /\ Handled(s, L, n) <=> IF PcallOf(s, L, n) /\ n > 1 THEN s[n - 1].f = "xpcall" ELSE Handled(s, L, n - 1)
    BY <1>7, OneMore
<1>11. Execs(s, p) \in Nat /\ ExecsOf(s, L, p) \in Nat /\ Frames(s, L, p) \in Nat
    BY <1>7, Finite
<1>12. /\ Execs(s, n) = Execs(s, p) /\ ExecsOf(s, L, n) = ExecsOf(s, L, p) /\ Frames(s, L, n) = Frames(s, L, p) + 1
       /\ HandlerIn(s, n) <=> HandlerIn(s, p)
       /\ HookIn(s, L, n) <=> HookIn(s, L, p)
       /\ Handled(s, L, n) <=> Handled(s, L, p)
    BY <1>7, <1>8, <1>10, <1>11
<1>13. Counts(s, n, nCcalls[L], baseCcalls[L]) /\ Flags(s, n, allowhook[L], errfunc[L])
    BY <1>4, <1>5, <1>8 DEF RecordedAt
<1>14. Counts(s, p, nCcalls[L], baseCcalls[L]) /\ Flags(s, p, allowhook[L], errfunc[L])
    BY <1>8, <1>9, <1>12, <1>13 DEF Counts, Flags
<1>15. PICK f \in Seq({"lua", "c"}) : f = base_ci[L]
    BY <1>3, OwnValues
<1>16. PICK fr : fr = Front(f)
    OBVIOUS
<1>17. /\ fr \in Seq({"lua", "c"}) /\ Len(fr) = Frames(s, L, p) /\ Len(fr) < Len(f) /\ Len(f) \in Nat
       /\ \A k \in 1..Frames(s, L, p) : fr[k] = f[k]
    <2>1. PICK m \in Nat : m = Frames(s, L, p)
        BY <1>11
    <2>2. Len(f) = m + 1
        BY <1>4, <1>5, <1>12, <1>15, <2>1
    <2>3. fr = SubSeq(f, 1, m)
        BY <1>16, <2>2 DEF Front
    <2>4. fr \in Seq({"lua", "c"}) /\ Len(fr) = m /\ \A k \in 1..m : fr[k] = f[k]
        BY <2>2, <2>3
    <2> QED BY <2>1, <2>2, <2>4
<1>18. /\ cstack' = Below(1) /\ base_ci' = [base_ci EXCEPT ![L] = fr]
       /\ UNCHANGED <<nCcalls, baseCcalls, errfunc, allowhook, size_ci, status, fresh>>
    BY <1>1, <1>15, <1>16 DEF CReturns
<1>19. cstack' \in Seq(Activations) /\ Len(cstack') = p /\ Agree(cstack, cstack', p)
    <2>1. PICK r : r = SubSeq(s, 1, p)
        OBVIOUS
    <2>2. r = cstack'
        BY <1>2, <1>5, <1>7, <1>18, <2>1 DEF Below
    <2>3. r \in Seq(Activations) /\ Len(r) = p /\ \A i \in 1..p : r[i] = s[i]
        BY <1>7, <2>1
    <2> QED BY <1>5, <2>2, <2>3 DEF Agree, Same
<1>20. Sets(L, fr, nCcalls[L], allowhook[L], errfunc[L], size_ci[L], "ok") /\ fresh' \in [States -> BOOLEAN]
    BY <1>3, <1>18, OwnValues DEF Sets
<1>21. CanSet(fr, nCcalls[L], allowhook[L], errfunc[L], size_ci[L], "ok")
    <2>1. Len(fr) < size_ci[L]
        BY <1>3, <1>15, <1>17, OwnValues
    <2> QED BY <1>3, <1>17, <2>1, OwnValues DEF CanSet
<1>22. /\ ThreadsTyped' /\ Others(L)
       /\ base_ci'[L] = fr /\ nCcalls'[L] = nCcalls[L] /\ baseCcalls'[L] = baseCcalls[L]
       /\ errfunc'[L] = errfunc[L] /\ allowhook'[L] = allowhook[L] /\ status'[L] = "ok"
    BY <1>3, <1>19, <1>20, <1>21, OwnChange
<1>23. /\ \A i \in p..n : cstack[i].th = L
       /\ Counts(cstack, p, nCcalls'[L], baseCcalls[L]) /\ Flags(cstack, p, allowhook'[L], errfunc'[L])
       /\ Len(base_ci'[L]) = Frames(cstack, L, p)
       /\ \A k \in 1..Frames(cstack, L, p) : base_ci'[L][k] = base_ci[L][k]
    <2>1. \A i \in p..n : i = p \/ i = n
        BY <1>6
    <2> QED BY <1>5, <1>8, <1>9, <1>14, <1>15, <1>17, <1>22, <2>1
<1> QED BY <1>2, <1>3, <1>7, <1>19, <1>22, <1>23, BackKeeps
\* A function that runs was called by luaV_execute of its thread, or is it.
LEMMA HasRun ==
    ASSUME ThreadsInv, NEW i \in 1..Len(cstack), cstack[i].k \in {"execute", "cfunction", "hook"}
    PROVE  ExecsOf(cstack, cstack[i].th, i) >= 1
<1>1. PICK s : s = cstack
    OBVIOUS
<1>2. PICK n \in Nat : n = Len(s)
    BY <1>1, StackOf DEF ThreadsInv
<1>3. s \in Seq(Activations) /\ i \in 1..n /\ i \in 0..Len(s) /\ i \in 1..i /\ s[i] \in Activations
    BY <1>1, <1>2, StackOf DEF ThreadsInv
<1>4. CASE s[i].k = "execute"
    BY <1>1, <1>3, <1>4, Entered
<1>5. CASE s[i].k # "execute"
    <2>1. s[i].k \in {"cfunction", "hook"} /\ ~IsResume(s[i])
        BY <1>1, <1>5 DEF IsResume
    <2>2. i # 1
        <3>1. i = 1 => s[i] = FirstCall
            BY <1>1, <1>3, StackOf DEF ThreadsInv, Pieces
        <3> QED BY <3>1, <2>1 DEF FirstCall
    <2>3. i \in 2..n
        BY <1>3, <2>2
    <2>4. Follows(s[i - 1], s[i])
        BY <1>1, <1>2, <2>3 DEF ThreadsInv, Pieces
    <2>5. s[i - 1].k = "execute" /\ s[i - 1].th = s[i].th
        BY <2>1, <2>4 DEF Follows
    <2>6. i - 1 \in 1..i
        BY <2>3
    <2>7. ExecsOf(s, s[i - 1].th, i) >= 1
        BY <1>3, <2>5, <2>6, Entered
    <2> QED BY <1>1, <2>5, <2>7
<1> QED BY <1>4, <1>5

LEMMA FrontOf ==
    ASSUME NEW f \in Seq({"lua", "c"}), NEW m \in Nat, Len(f) = m + 1
    PROVE  Front(f) \in Seq({"lua", "c"}) /\ Len(Front(f)) = m /\ \A k \in 1..m : Front(f)[k] = f[k]
<1>1. Front(f) = SubSeq(f, 1, m)
    BY DEF Front
<1>2. SubSeq(f, 1, m) \in Seq({"lua", "c"}) /\ Len(SubSeq(f, 1, m)) = m /\ \A k \in 1..m : SubSeq(f, 1, m)[k] = f[k]
    OBVIOUS
<1> QED BY <1>1, <1>2

LEMMA Cut ==
    ASSUME NEW s \in Seq(Activations), NEW n \in Nat, n = Len(s), NEW p \in 0..n
    PROVE  SubSeq(s, 1, p) \in Seq(Activations) /\ Len(SubSeq(s, 1, p)) = p /\ Agree(s, SubSeq(s, 1, p), p)
<1>1. PICK r : r = SubSeq(s, 1, p)
    OBVIOUS
<1>2. r \in Seq(Activations) /\ Len(r) = p /\ \A i \in 1..p : r[i] = s[i]
    BY <1>1
<1>3. Agree(s, r, p)
    BY <1>2 DEF Agree, Same
<1> QED BY <1>1, <1>2, <1>3
LEMMA ExecuteReturnsKeeps ==
    ASSUME ThreadsInv, cstack # <<>>, NEW L, L = Running, Top.k = "execute", Top.n = 1, ~Top.handler,
           NEW fr, fr = Front(base_ci[L]), ExecuteReturns(L, fr)
    PROVE  ThreadsInv'
<1>1. PICK s : s = cstack
    OBVIOUS
<1>2. PICK n \in Nat : n = Len(cstack)
    BY StackOf DEF ThreadsInv
<1>3. ThreadsTyped /\ L \in States /\ n \in 1..n /\ n >= 1 /\ Top = s[n] /\ Top.th = L /\ RecordedAt(s, n)
    BY <1>1, <1>2, Now DEF ThreadsInv
<1>4. PICK p \in Nat : n = p + 1
    BY <1>3
<1>5. /\ p >= 1 /\ p \in 1..n /\ p \in 0..n /\ s[p] \in Activations /\ s[p].th = L /\ status[L] = "ok"
      /\ (p > 1 => Follows(s[p - 1], s[p])) /\ (p = 1 => s[p] = FirstCall)
      /\ Execs(s, n) = Execs(s, p) + 1 /\ ExecsOf(s, L, n) = ExecsOf(s, L, p) + 1 /\ Frames(s, L, n) = Frames(s, L, p) + 1
      /\ HandlerIn(s, n) <=> HandlerIn(s, p)
      /\ HookIn(s, L, n) <=> HookIn(s, L, p)
      /\ Handled(s, L, n) <=> Handled(s, L, p)
      /\ Execs(s, p) \in Nat /\ ExecsOf(s, L, p) \in Nat /\ Frames(s, L, p) \in Nat
    BY <1>1, <1>2, <1>3, <1>4, TopExecute
<1>6. s \in Seq(Activations) /\ n = Len(s) /\ s[n].th = L /\ p \in 1..Len(s)
    BY <1>1, <1>2, <1>3, <1>5, StackOf
<1>7. /\ Counts(s, n, nCcalls[L], baseCcalls[L]) /\ Flags(s, n, allowhook[L], errfunc[L])
      /\ Len(base_ci[L]) = Frames(s, L, n)
    BY <1>3, <1>5 DEF RecordedAt
<1>8. PICK x \in Nat, y \in Nat, m \in Nat, b \in Nat, d \in Nat :
         /\ x = Execs(s, p) /\ y = ExecsOf(s, L, p) /\ m = Frames(s, L, p)
         /\ b = baseCcalls[L] /\ d = nCcalls[L]
    BY <1>3, <1>5, OwnValues
<1>9. d >= x + 1 /\ (~HandlerIn(s, p) => d = x + 1) /\ d >= b /\ d >= b + y
    <2>1. (IF IsResume(s[n]) THEN 1 ELSE 0) = 0
        BY <1>3 DEF IsResume
    <2>2. d >= Execs(s, n) + 0 /\ (~HandlerIn(s, n) => d = Execs(s, n) + 0) /\ d >= b /\ d >= b + ExecsOf(s, L, n) - 1
        BY <1>6, <1>7, <1>8, <2>1 DEF Counts
    <2>3. Execs(s, n) = x + 1 /\ ExecsOf(s, L, n) = y + 1
        BY <1>5, <1>8
    <2>4. d >= b + y
        BY <2>2, <2>3
    <2> QED BY <2>2, <2>3, <2>4, <1>5
<1>10. PICK c \in Nat : c = d - 1
    BY <1>9
<1>11. c >= x /\ (~HandlerIn(s, p) => c = x) /\ c >= b + y - 1
    BY <1>9, <1>10
<1>12. (allowhook[L] <=> ~HookIn(s, L, p)) /\ (errfunc[L] <=> Handled(s, L, p))
    BY <1>5, <1>6, <1>7 DEF Flags
<1>13. fr \in Seq({"lua", "c"}) /\ Len(fr) = m /\ (\A k \in 1..m : fr[k] = base_ci[L][k]) /\ Len(base_ci[L]) = m + 1
    <2>1. PICK f \in Seq({"lua", "c"}) : f = base_ci[L]
        BY <1>3, OwnValues
    <2>2. Len(f) = m + 1
        BY <1>5, <1>7, <1>8, <2>1
    <2> QED BY <2>1, <2>2, FrontOf
<1>14. c \in 0..LimitCCalls /\ m < size_ci[L]
    BY <1>3, <1>8, <1>10, <1>13, OwnValues
<1>15. /\ base_ci' = [base_ci EXCEPT ![L] = fr] /\ nCcalls' = [nCcalls EXCEPT ![L] = c]
       /\ UNCHANGED <<baseCcalls, size_ci, fresh, status>>
    BY <1>8, <1>10 DEF ExecuteReturns
<1>16. ASSUME NEW ah, NEW ef, ah \in BOOLEAN, ef \in BOOLEAN, cstack' \in Seq(Activations),
              allowhook' = [allowhook EXCEPT ![L] = ah], errfunc' = [errfunc EXCEPT ![L] = ef]
       PROVE  /\ ThreadsTyped' /\ Others(L)
              /\ base_ci'[L] = fr /\ nCcalls'[L] = c /\ baseCcalls'[L] = b
              /\ errfunc'[L] = ef /\ allowhook'[L] = ah /\ status'[L] = "ok"
    <2>1. Sets(L, fr, c, ah, ef, size_ci[L], "ok") /\ fresh' \in [States -> BOOLEAN]
        BY <1>3, <1>5, <1>15, <1>16, OwnValues DEF Sets
    <2>2. CanSet(fr, c, ah, ef, size_ci[L], "ok")
        BY <1>3, <1>13, <1>14, <1>16, OwnValues DEF CanSet
    <2> QED BY <1>3, <1>8, <1>16, <2>1, <2>2, OwnChange
\* Back to an activation i of L with the same counts
<1>17. ASSUME NEW i \in 1..n, \A k \in i..n : s[k].th = L, s[i].k \in {"execute", "cfunction", "hook"},
              Execs(s, i) = x, ExecsOf(s, L, i) = y, Frames(s, L, i) = m, HandlerIn(s, i) <=> HandlerIn(s, p),
              NEW ah, NEW ef, ah \in BOOLEAN, ef \in BOOLEAN, ah <=> ~HookIn(s, L, i), ef <=> Handled(s, L, i),
              cstack' \in Seq(Activations), Len(cstack') = i, Agree(cstack, cstack', i),
              allowhook' = [allowhook EXCEPT ![L] = ah], errfunc' = [errfunc EXCEPT ![L] = ef]
       PROVE  ThreadsInv'
    <2>1. s[i].th = L /\ ~IsResume(s[i])
        BY <1>17 DEF IsResume
    <2>2. y >= 1
        BY <1>1, <1>2, <1>17, <2>1, HasRun
    <2>3. c >= b
        BY <1>11, <2>2
    <2>4. Counts(s, i, c, b)
        BY <1>11, <1>17, <2>1, <2>3 DEF Counts
    <2>5. Flags(s, i, ah, ef)
        BY <1>17, <2>1 DEF Flags
    <2>6. /\ ThreadsTyped' /\ Others(L)
          /\ base_ci'[L] = fr /\ nCcalls'[L] = c /\ baseCcalls'[L] = b
          /\ errfunc'[L] = ef /\ allowhook'[L] = ah /\ status'[L] = "ok"
        BY <1>16, <1>17
    <2>7. /\ \A k \in i..n : cstack[k].th = L
          /\ baseCcalls'[L] = baseCcalls[L]
          /\ Counts(cstack, i, nCcalls'[L], baseCcalls[L]) /\ Flags(cstack, i, allowhook'[L], errfunc'[L])
          /\ Len(base_ci'[L]) = Frames(cstack, L, i)
          /\ \A k \in 1..Frames(cstack, L, i) : base_ci'[L][k] = base_ci[L][k]
        BY <1>1, <1>8, <1>13, <1>17, <2>4, <2>5, <2>6
    <2> QED BY <1>2, <1>3, <1>17, <2>6, <2>7, BackKeeps
<1>18. CASE s[p].k \in {"execute", "cfunction"}
    <2>1. /\ cstack' = IF s[p].k = "cfunction" THEN AtStage(Below(1), "done") ELSE Below(1)
          /\ UNCHANGED <<errfunc, allowhook>>
        <3>1. Len(cstack) - 1 = p
            BY <1>2, <1>4
        <3> QED BY <1>1, <1>18, <3>1 DEF ExecuteReturns
    <2>2. Below(1) = SubSeq(s, 1, p) /\ "done" \in Stages
        BY <1>1, <1>2, <1>4 DEF Below, Stages
    <2>3. cstack' \in Seq(Activations) /\ Len(cstack') = p /\ Agree(s, cstack', p)
        <3>1. CASE s[p].k = "cfunction"
            BY <1>5, <1>6, <2>1, <2>2, <3>1, LeftBelow
        <3>2. CASE s[p].k # "cfunction"
            <4>1. cstack' = SubSeq(s, 1, p) /\ p \in 0..n
                BY <1>5, <2>1, <2>2, <3>2
            <4> QED BY <1>6, <4>1, Cut
        <3> QED BY <3>1, <3>2
    <2>4. \A k \in p..n : s[k].th = L
        <3>1. \A k \in p..n : k = p \/ k = n
            BY <1>4
        <3> QED BY <3>1, <1>5, <1>6
    <2>5. /\ allowhook[L] \in BOOLEAN /\ errfunc[L] \in BOOLEAN
          /\ allowhook' = [allowhook EXCEPT ![L] = allowhook[L]] /\ errfunc' = [errfunc EXCEPT ![L] = errfunc[L]]
        BY <1>3, <2>1, OwnValues
    <2> QED BY <1>1, <1>5, <1>8, <1>12, <1>17, <1>18, <2>3, <2>4, <2>5
<1>19. CASE s[p].k \in {"hook", "try"}
    <2>1. PICK q \in Nat : p = q + 1
        BY <1>5
    <2>2. q \in 0..n /\ q < n /\ q \in 0..Len(s) /\ p - 1 = q
        BY <1>2, <1>4, <1>6, <2>1
    <2>3. Runs(s[p]) = 0 /\ s[p].k # "execute"
        BY <1>19 DEF Runs
    <2>4. /\ Execs(s, p) = Execs(s, p - 1) + (IF s[p].k = "execute" THEN 1 ELSE 0)
          /\ ExecsOf(s, L, p) = ExecsOf(s, L, p - 1) + (IF s[p].k = "execute" /\ s[p].th = L THEN 1 ELSE 0)
          /\ Frames(s, L, p) = Frames(s, L, p - 1) + (IF s[p].th = L THEN Runs(s[p]) ELSE 0)
          /\ HandlerIn(s, p) <=> HandlerIn(s, p - 1) \/ (s[p].k = "execute" /\ s[p].handler)
          /\ HookIn(s, L, p) <=> HookIn(s, L, p - 1) \/ (s[p].th = L /\ s[p].k = "hook")
          /\ Handled(s, L, p) <=> IF PcallOf(s, L, p) /\ p > 1 THEN s[p - 1].f = "xpcall" ELSE Handled(s, L, p - 1)
        BY <1>6, OneMore
    <2>13. s[p].th = L /\ s[p] \in Activations
        BY <1>5
    <2>5. Execs(s, q) \in Nat /\ ExecsOf(s, L, q) \in Nat /\ Frames(s, L, q) \in Nat
        BY <1>6, <2>2, Finite
    <2>6. /\ Execs(s, q) = x /\ ExecsOf(s, L, q) = y /\ Frames(s, L, q) = m
          /\ HandlerIn(s, q) <=> HandlerIn(s, p)
          /\ HookIn(s, L, p) <=> HookIn(s, L, q) \/ s[p].k = "hook"
          /\ ~IsPcall(s[p]) => (Handled(s, L, p) <=> Handled(s, L, q))
        <3>1. /\ Execs(s, p) = Execs(s, q) + 0 /\ ExecsOf(s, L, p) = ExecsOf(s, L, q) + 0
              /\ Frames(s, L, p) = Frames(s, L, q) + 0
            BY <2>2, <2>3, <2>4, <2>13
        <3>2. /\ HandlerIn(s, q) <=> HandlerIn(s, p)
              /\ HookIn(s, L, p) <=> HookIn(s, L, q) \/ s[p].k = "hook"
            BY <2>2, <2>3, <2>4, <2>13
        <3>3. ~IsPcall(s[p]) => (Handled(s, L, p) <=> Handled(s, L, q))
            BY <2>2, <2>4 DEF PcallOf
        <3> QED BY <1>8, <2>5, <3>1, <3>2, <3>3
    <2>7. Len(cstack) - 1 = p /\ Below(2) = SubSeq(s, 1, q) /\ "done" \in Stages
        BY <1>1, <1>2, <1>4, <2>1 DEF Below, Stages
    <2>8. q > 0 => SavedAt(s, p) /\ Follows(s[q], s[p])
        <3>1. q > 0 => p \in 2..Len(cstack) /\ p > 1
            BY <1>1, <1>5, <1>6, <2>1
        <3> QED BY <1>1, <1>5, <2>2, <3>1 DEF ThreadsInv, Saved
    <2>9. q = 0 => s[p] = FirstCall
        BY <1>5, <2>1
    <2>10. s[q].th = L => \A k \in q..n : s[k].th = L
        <3>1. \A k \in q..n : k = q \/ k = p \/ k = n
            BY <1>4, <2>1
        <3> QED BY <3>1, <1>5, <1>6
    <2>11. CASE s[p].k = "hook"
        <3>1. PICK e \in HookRecs : e = s[p]
            BY <1>5, <2>11, ActivationKinds
        <3>2. q > 0 /\ ~IsResume(s[p]) /\ ~IsPcall(s[p])
            BY <2>9, <2>11 DEF FirstCall, IsResume, IsPcall
        <3>3. s[q].k = "execute" /\ s[q].th = L /\ q \in 1..n
            <4>1. Follows(s[q], s[p]) /\ q \in 1..n
                BY <2>2, <2>8, <3>2
            <4> QED BY <4>1, <2>11, <2>13, <3>2 DEF Follows
        <3>4. e.ah \in BOOLEAN /\ (e.ah <=> ~HookIn(s, L, q))
            BY <1>5, <2>2, <2>8, <2>11, <3>1, <3>2 DEF SavedAt, HookRecs
        <3>5. cstack' = SubSeq(s, 1, q) /\ allowhook' = [allowhook EXCEPT ![L] = e.ah] /\ UNCHANGED errfunc
            BY <1>1, <2>7, <2>11, <3>1 DEF ExecuteReturns
        <3>6. cstack' \in Seq(Activations) /\ Len(cstack') = q /\ Agree(s, cstack', q)
            BY <1>6, <2>2, <3>5, Cut
        <3>7. errfunc[L] \in BOOLEAN /\ errfunc' = [errfunc EXCEPT ![L] = errfunc[L]] /\ (errfunc[L] <=> Handled(s, L, q))
            BY <1>3, <1>12, <2>6, <3>2, <3>5, OwnValues
        <3> QED BY <1>1, <1>17, <2>6, <2>10, <3>3, <3>4, <3>5, <3>6, <3>7
    <2>12. CASE s[p].k = "try"
        <3>1. /\ cstack' = AtStage(SubSeq(s, 1, q), "done")
              /\ errfunc' = IF s[p].by = "pcall" THEN [errfunc EXCEPT ![L] = s[p].ef] ELSE errfunc
              /\ UNCHANGED allowhook
            BY <1>1, <2>7, <2>12 DEF ExecuteReturns
        <3>2. q > 0 => s[q].k = "cfunction"
            BY <2>8, <2>12 DEF Follows
        <3>3. cstack' \in Seq(Activations) /\ Len(cstack') = q /\ Agree(s, cstack', q)
            BY <1>6, <2>2, <2>7, <3>1, <3>2, LeftBelow
        <3>4. allowhook[L] \in BOOLEAN /\ allowhook' = [allowhook EXCEPT ![L] = allowhook[L]]
            BY <1>3, <3>1, OwnValues
        <3>5. allowhook[L] <=> ~HookIn(s, L, q)
            BY <1>12, <2>6, <2>12
        <3>6. CASE IsPcall(s[p])
            <4>1. PICK e \in PcallRecs : e = s[p]
                BY <1>5, <3>6, ActivationKinds
            <4>2. e.ef \in BOOLEAN /\ errfunc' = [errfunc EXCEPT ![L] = e.ef]
                BY <3>1, <3>6, <4>1 DEF IsPcall, PcallRecs
            <4>3. CASE q > 0
                <5>1. s[q].th = L /\ q \in 1..n
                    <6>1. Follows(s[q], s[p]) /\ q \in 1..n /\ ~IsResume(s[p])
                        BY <2>2, <2>8, <3>6, <4>3 DEF IsPcall, IsResume
                    <6> QED BY <6>1, <2>13 DEF Follows
                <5>2. e.ef <=> Handled(s, L, q)
                    BY <1>5, <2>2, <2>8, <3>6, <4>1, <4>3, <5>1 DEF SavedAt, Flags
                <5> QED BY <1>1, <1>17, <2>6, <2>10, <3>2, <3>3, <3>4, <3>5, <4>2, <4>3, <5>1, <5>2
            <4>4. CASE q = 0
                <5>1. ~e.ef /\ allowhook[L]
                    <6>1. ~HookIn(s, L, q)
                        BY <4>4, None0
                    <6> QED BY <2>9, <3>5, <4>1, <4>4, <6>1 DEF FirstCall
                <5>2. /\ ThreadsTyped' /\ Others(L) /\ baseCcalls'[L] = b
                      /\ errfunc'[L] = e.ef /\ allowhook'[L] = allowhook[L] /\ status'[L] = "ok"
                    BY <1>16, <3>3, <3>4, <4>2
                <5>3. /\ q \in 0..(n - 1) /\ (\A k \in (q + 1)..n : cstack[k].th = L) /\ (q > 0 => cstack[q].th # L)
                      /\ Agree(cstack, cstack', q) /\ baseCcalls'[L] = baseCcalls[L]
                      /\ (status'[L] = "yield" => Yielded(base_ci'[L]))
                      /\ (status'[L] \in {"ok", "yield"} => allowhook'[L] /\ ~errfunc'[L])
                    <6>1. \A k \in (q + 1)..n : k = p \/ k = n
                        BY <1>4, <2>1
                    <6>2. \A k \in (q + 1)..n : cstack[k].th = L
                        BY <1>1, <1>6, <2>13, <6>1
                    <6>3. q \in 0..(n - 1)
                        BY <2>2
                    <6>4. /\ (status'[L] = "yield" => Yielded(base_ci'[L]))
                          /\ (status'[L] \in {"ok", "yield"} => allowhook'[L] /\ ~errfunc'[L])
                        BY <5>1, <5>2
                    <6> QED BY <1>1, <1>8, <3>3, <4>4, <5>2, <6>2, <6>3, <6>4
                <5> QED BY <1>2, <1>3, <3>3, <5>2, <5>3, OffKeeps
            <4> QED BY <4>3, <4>4
        <3>7. CASE IsResume(s[p])
            <4>1. s[p].by # "pcall" /\ ~IsPcall(s[p])
                BY <3>7 DEF IsResume, IsPcall
            <4>2. q > 0
                BY <2>9, <4>1 DEF FirstCall
            <4>3. \A i \in 1..q : s[i].th # L
                <5>1. \A i \in 1..q : i \in 1..Len(cstack) /\ i < p /\ p \in 1..Len(cstack)
                    BY <1>1, <1>6, <2>1, <2>2
                <5> QED BY <5>1, <1>1, <1>5, <3>7 DEF ThreadsInv, Pieces
            <4>4. ~HookIn(s, L, q) /\ ~Handled(s, L, q)
                BY <1>6, <2>2, <4>3, AbsentNone
            <4>5. allowhook[L] /\ ~errfunc[L]
                BY <1>12, <2>6, <3>5, <4>1, <4>4
            <4>6. errfunc[L] \in BOOLEAN /\ errfunc' = [errfunc EXCEPT ![L] = errfunc[L]]
                BY <1>3, <3>1, <4>1, OwnValues
            <4>7. /\ ThreadsTyped' /\ Others(L) /\ baseCcalls'[L] = b
                  /\ errfunc'[L] = errfunc[L] /\ allowhook'[L] = allowhook[L] /\ status'[L] = "ok"
                BY <1>16, <3>3, <3>4, <4>6
            <4>8. /\ q \in 0..(n - 1) /\ (\A k \in (q + 1)..n : cstack[k].th = L) /\ (q > 0 => cstack[q].th # L)
                  /\ Agree(cstack, cstack', q) /\ baseCcalls'[L] = baseCcalls[L]
                  /\ (status'[L] = "yield" => Yielded(base_ci'[L]))
                  /\ (status'[L] \in {"ok", "yield"} => allowhook'[L] /\ ~errfunc'[L])
                <5>1. \A k \in (q + 1)..n : k = p \/ k = n
                    BY <1>4, <2>1
                <5>2. \A k \in (q + 1)..n : cstack[k].th = L
                    BY <1>1, <1>6, <2>13, <5>1
                <5>3. q \in 0..(n - 1) /\ q \in 1..q
                    BY <2>2, <4>2
                <5>4. /\ (status'[L] = "yield" => Yielded(base_ci'[L]))
                      /\ (status'[L] \in {"ok", "yield"} => allowhook'[L] /\ ~errfunc'[L])
                    BY <4>5, <4>7
                <5> QED BY <1>1, <1>8, <3>3, <4>3, <4>7, <5>2, <5>3, <5>4
            <4> QED BY <1>2, <1>3, <3>3, <4>7, <4>8, OffKeeps
        <3> QED BY <1>5, <2>12, <3>6, <3>7, ActivationKinds
    <2> QED BY <1>19, <2>11, <2>12
<1> QED BY <1>5, <1>18, <1>19, ActivationKinds DEF Kinds
------------------------------------------------------------------------------
(* The last activation of a thread *)

LEMMA Least ==
    ASSUME NEW T, T \subseteq Nat, T # {}
    PROVE  \E x \in T : \A y \in T : x <= y
<1>1. \E x \in T : \A y \in T : ~(y < x)
    <2>1. \E x \in T : \A y \in T : <<y, x>> \notin OpToRel(<, Nat)
        BY WFMin, NatLessThanWellFounded, Zenon
    <2> QED BY <2>1, Zenon DEF OpToRel
<1> QED BY <1>1

\* From an activation of L on there is one that is the last of a run of activations of L.
LEMMA LastExists ==
    ASSUME NEW s \in Seq(Activations), NEW n \in Nat, n = Len(s), NEW i \in 1..n, NEW L, L = s[i].th
    PROVE  \E j \in i..n : LastOf(s, j) /\ s[j].th = L
<1> DEFINE T == {d \in Nat : d <= n - i /\ s[n - d].th = L}
<1>1. n - i \in T
    <2>1. n - (n - i) = i /\ n - i \in Nat
        OBVIOUS
    <2> QED BY <2>1
<1>2. PICK d \in T : \A y \in T : d <= y
    BY <1>1, Least
<1>3. PICK j \in Nat : j = n - d /\ j \in i..n /\ s[j].th = L
    BY <1>2
<1>4. LastOf(s, j)
    <2>1. CASE j < n
        <3>1. PICK y \in Nat : d = y + 1 /\ y <= n - i /\ n - y = j + 1
            BY <1>3, <2>1
        <3>2. y \notin T
            BY <1>2, <3>1
        <3>3. s[j + 1].th # L
            BY <3>1, <3>2
        <3> QED BY <1>3, <3>3 DEF LastOf
    <2> QED BY <1>3, <2>1 DEF LastOf
<1> QED BY <1>3, <1>4

------------------------------------------------------------------------------
(* The actions that call or raise *)

LEMMA ReturnLuaKeeps == ASSUME ThreadsInv, ReturnLua PROVE ThreadsInv'
<1>1. cstack # <<>> /\ Top.k = "execute"
    BY DEF ReturnLua, InExecute, Alive
<1>2. PICK L : L = Running
    OBVIOUS
<1>3. ThreadsTyped /\ L \in States /\ Top \in ExecuteRecs /\ ~IsResume(Top) /\ status[L] = "ok"
    BY <1>1, <1>2, Who, ActivationKinds
<1>4. CASE Top.n > 1
    <2>1. /\ base_ci' = [base_ci EXCEPT ![L] = Front(base_ci[L])]
          /\ cstack' = Append(Below(1), [Top EXCEPT !.n = Top.n - 1])
          /\ UNCHANGED <<nCcalls, baseCcalls, errfunc, allowhook, size_ci, status, fresh>>
        BY <1>2, <1>4 DEF ReturnLua
    <2>2. PICK m \in Nat \ {0} : Top.n = m + 1
        BY <1>3, <1>4 DEF ExecuteRecs
    <2>3. PICK n \in Nat : n = Len(cstack)
        BY <1>3, StackOf
    <2>4. Len(base_ci[L]) = Frames(cstack, L, n)
        BY <1>1, <1>2, <1>3, <2>3, Now
    <2>5. PICK g \in Nat : Len(base_ci[L]) = g + 1
        <3>1. n >= 1
            BY <1>1, <2>3, <1>3, StackOf
        <3>2. PICK p \in Nat : n = p + 1
            BY <3>1
        <3>3. Frames(cstack, L, n) = Frames(cstack, L, p) + Top.n /\ Frames(cstack, L, p) \in Nat
            BY <1>1, <1>2, <2>3, <3>2, TopExecute
        <3>4. PICK a \in Nat : a = Frames(cstack, L, p)
            BY <3>3
        <3>5. a + m \in Nat /\ a + (m + 1) = (a + m) + 1
            BY <2>2
        <3> QED BY <2>2, <2>4, <3>3, <3>4, <3>5
    <2>6. PICK fr : fr = Front(base_ci[L])
        OBVIOUS
    <2>7. base_ci[L] \in Seq({"lua", "c"})
        BY <1>3, OwnValues
    <2>8. fr \in Seq({"lua", "c"}) /\ Len(fr) = g /\ \A k \in 1..g : fr[k] = base_ci[L][k]
        BY <2>5, <2>6, <2>7, FrontOf
    <2>9. Sets(L, fr, nCcalls[L], allowhook[L], errfunc[L], size_ci[L], "ok") /\ fresh' \in [States -> BOOLEAN]
        BY <1>3, <2>1, <2>6, OwnValues DEF Sets
    <2>10. size_ci[L] \in Nat /\ 2 <= size_ci[L] /\ Len(fr) < size_ci[L]
        BY <1>3, <2>5, <2>8, OwnValues
    <2>11. /\ Len(fr) = Len(base_ci[L]) - Top.n + m
           /\ \A k \in 1..Len(fr) : fr[k] = IF k <= Len(base_ci[L]) THEN base_ci[L][k] ELSE "lua"
        <3>1. Len(fr) = Len(base_ci[L]) - Top.n + m
            BY <2>2, <2>5, <2>8
        <3>2. \A k \in 1..Len(fr) : k <= Len(base_ci[L]) /\ fr[k] = base_ci[L][k]
            BY <2>5, <2>8
        <3> QED BY <3>1, <3>2
    <2>12. Top.n - 1 = m
        BY <2>2
    <2>13. cstack' = Append(Below(1), [Top EXCEPT !.n = m])
        BY <2>1, <2>12
    <2> QED BY <1>1, <1>2, <2>8, <2>9, <2>10, <2>11, <2>13, RunsKeeps
<1>5. CASE ~(Top.n > 1) /\ Top.handler
    <2>1. luaD_throw(L, "ERRRUN", size_ci[L])
        BY <1>2, <1>5 DEF ReturnLua
    <2>2. size_ci[L] \in Nat /\ Len(base_ci[L]) < size_ci[L] /\ 2 <= size_ci[L]
        BY <1>3, OwnValues
    <2> QED BY <1>1, <1>2, <1>3, <2>1, <2>2, ThrowKeeps
<1>6. CASE ~(Top.n > 1) /\ ~Top.handler
    <2>1. ExecuteReturns(L, Front(base_ci[L]))
        BY <1>2, <1>6 DEF ReturnLua
    <2>2. Top.n = 1
        BY <1>3, <1>6 DEF ExecuteRecs
    <2> QED BY <1>1, <1>2, <1>6, <2>1, <2>2, ExecuteReturnsKeeps
<1> QED BY <1>4, <1>5, <1>6

LEMMA MetamethodKeeps == ASSUME ThreadsInv, Metamethod PROVE ThreadsInv'
<1>1. cstack # <<>> /\ Top.k # "try" /\ luaD_call(Running)
    BY DEF Metamethod, InExecute, Alive
<1> QED BY <1>1, Who, luaD_callKeeps

LEMMA HookCallsKeeps == ASSUME ThreadsInv, HookCalls PROVE ThreadsInv'
<1>1. cstack # <<>> /\ Top.k # "try" /\ luaD_call(Running)
    BY DEF HookCalls, Alive
<1> QED BY <1>1, Who, luaD_callKeeps

LEMMA CallbackKeeps == ASSUME ThreadsInv, Callback PROVE ThreadsInv'
<1>1. cstack # <<>> /\ Top.k # "try" /\ luaD_call(Running)
    BY DEF Callback, InFunction, Alive
<1> QED BY <1>1, Who, luaD_callKeeps

LEMMA ProtectedCallKeeps == ASSUME ThreadsInv, ProtectedCall PROVE ThreadsInv'
<1>1. cstack # <<>> /\ IsPcall(Top) /\ luaD_call(Running)
    BY DEF ProtectedCall, Alive, IsPcall
<1> QED BY <1>1, Who, luaD_callKeeps

LEMMA RaisesKeeps ==
    ASSUME ThreadsInv, cstack # <<>>, Top.k # "try", Enters(Running, Raising(Running), cstack)
    PROVE  ThreadsInv'
<1>1. GoodOutcome(Running, Raising(Running), 0) /\ Raising(Running).out # "ok" /\ ~IsResume(Top)
    BY Who, Outcomes
<1> QED BY <1>1, EntersKeeps

LEMMA RunTimeErrorKeeps == ASSUME ThreadsInv, RunTimeError PROVE ThreadsInv'
<1>1. cstack # <<>> /\ Top.k # "try" /\ Enters(Running, Raising(Running), cstack)
    BY DEF RunTimeError, InExecute, Alive
<1> QED BY <1>1, RaisesKeeps

LEMMA WrapRaisesKeeps == ASSUME ThreadsInv, WrapRaises PROVE ThreadsInv'
<1>1. cstack # <<>> /\ Top.k # "try" /\ Enters(Running, Raising(Running), cstack)
    BY DEF WrapRaises, Alive
<1> QED BY <1>1, RaisesKeeps
------------------------------------------------------------------------------
(* Resuming a coroutine *)

\* A coroutine that is suspended has nothing on the C stack: one that has, and is not at the top, has
\* called a function that resumes another, and so has frames.
LEMMA SuspendedAbsent ==
    ASSUME ThreadsInv, cstack # <<>>, Top.k # "try", NEW co \in States, costatus(Running, co) = "suspended"
    PROVE  Absent(cstack, co) /\ co # Running /\ status[co] \in {"ok", "yield"} /\ (status[co] = "ok" => base_ci[co] = <<>>)
<1>1. PICK s : s = cstack
    OBVIOUS
<1>2. PICK n \in Nat : n = Len(cstack)
    BY StackOf DEF ThreadsInv
<1>3. s \in Seq(Activations) /\ n = Len(s) /\ n >= 1 /\ n \in 1..n /\ s[n] = Top /\ s[n].th = Running /\ ~IsResume(s[n])
    BY <1>1, <1>2, StackOf DEF ThreadsInv, IsResume
<1>4. co # Running /\ status[co] \in {"ok", "yield"} /\ (status[co] = "ok" => base_ci[co] = <<>>)
    BY DEF costatus
<1>5. ASSUME NEW i \in 1..n, s[i].th = co PROVE FALSE
    <2>1. PICK j \in i..n : LastOf(s, j) /\ s[j].th = co
        BY <1>3, <1>5, LastExists
    <2>2. j \in 1..n /\ j \in 1..Len(s)
        BY <1>3
    <2>3. RecordedAt(s, j)
        BY <1>1, <2>1, <2>2 DEF ThreadsInv, Recorded
    <2>4. j # n
        BY <1>3, <1>4, <2>1
    <2>5. s[j + 1].th # s[j].th /\ j + 1 \in 2..Len(s)
        BY <1>3, <2>1, <2>2, <2>4 DEF LastOf
    <2>6. Follows(s[j], s[j + 1])
        <3>1. (j + 1) - 1 = j
            BY <2>2
        <3>2. Follows(s[(j + 1) - 1], s[j + 1])
            BY <1>1, <2>5 DEF ThreadsInv, Pieces
        <3> QED BY <3>1, <3>2
    <2>7. s[j].k = "cfunction"
        BY <2>5, <2>6 DEF Follows, IsResume
    <2>8. status[co] = "ok" /\ Len(base_ci[co]) = Frames(s, co, j)
        BY <1>3, <2>1, <2>3, <2>4 DEF RecordedAt
    <2>9. Frames(s, co, j) = 0
        <3>1. base_ci[co] = <<>>
            BY <1>4, <2>8
        <3> QED BY <2>8, <3>1
    <2>10. Frames(s, co, j) = Frames(s, co, j - 1) + Runs(s[j])
        BY <1>3, <2>1, <2>2, OneMore
    <2>11. Runs(s[j]) = 1
        BY <2>7 DEF Runs
    <2>12. j - 1 \in 0..Len(s)
        BY <1>3, <2>2
    <2>13. Frames(s, co, j - 1) \in Nat
        BY <1>3, <2>12, Finite
    <2> QED BY <2>9, <2>10, <2>11, <2>13
<1>6. Absent(cstack, co)
    BY <1>1, <1>2, <1>5 DEF Absent
<1> QED BY <1>4, <1>6

LEMMA lua_resumeKeeps == ASSUME ThreadsInv, NEW co \in Coroutines, lua_resume(co) PROVE ThreadsInv'
<1>1. cstack # <<>> /\ Top.k = "cfunction" /\ Top.k # "try"
    BY DEF lua_resume, InFunction, Alive
<1>2. PICK L : L = Running
    OBVIOUS
<1>3. PICK n \in Nat : n = Len(cstack)
    BY StackOf DEF ThreadsInv
<1>4. PICK s : s = cstack
    OBVIOUS
<1>5. /\ s \in Seq(Activations) /\ n = Len(s) /\ n >= 1 /\ n \in 1..n /\ s[n] = Top /\ s[n].th = L /\ L \in States
      /\ s[n].k = "cfunction" /\ ~IsResume(s[n])
    BY <1>1, <1>2, <1>3, <1>4, StackOf DEF ThreadsInv, IsResume
<1>6. /\ RecordedAt(cstack, n) /\ status[L] = "ok" /\ Len(base_ci[L]) = Frames(cstack, L, n)
    BY <1>1, <1>2, <1>3, <1>4, <1>5, Now
<1>7. ThreadsTyped /\ co \in States /\ co # MainThread
    BY ThreadsAssumption DEF ThreadsInv, States
<1>8. UNCHANGED <<base_ci, errfunc, allowhook, size_ci, status>>
    BY DEF lua_resume
<1>9. nCcalls[L] \in Nat /\ nCcalls[L] <= LimitCCalls /\ LimitCCalls \in Nat
    BY <1>5, <1>7, OwnValues
\* The function goes on at once.
<1>10. PICK t : t = AtStage(cstack, "failed")
    OBVIOUS
<1>11. t \in Seq(Activations) /\ Len(t) = n /\ Agree(s, t, n)
    <2>1. "failed" \in Stages /\ (s # <<>> => s[Len(s)].k = "cfunction") /\ t = AtStage(s, "failed")
        BY <1>4, <1>5, <1>10 DEF Stages
    <2> QED BY <1>5, <2>1, StageSet
<1>12. CASE costatus(L, co) # "suspended"
    <2>1. cstack' = t /\ UNCHANGED <<nCcalls, baseCcalls, fresh>>
        BY <1>2, <1>10, <1>12 DEF lua_resume
    <2>2. Sets(L, base_ci[L], nCcalls[L], allowhook[L], errfunc[L], size_ci[L], "ok")
        BY <1>5, <1>6, <1>7, <1>8, <2>1, OwnValues DEF Sets
    <2>3. CanSet(base_ci[L], nCcalls[L], allowhook[L], errfunc[L], size_ci[L], "ok")
        BY <1>5, <1>7, OwnValues DEF CanSet
    <2>4. cstack' \in Seq(Activations) /\ fresh' \in [States -> BOOLEAN]
        BY <1>7, <1>11, <2>1 DEF ThreadsTyped
    <2>5. /\ ThreadsTyped' /\ Others(L)
          /\ base_ci'[L] = base_ci[L] /\ nCcalls'[L] = nCcalls[L] /\ baseCcalls'[L] = baseCcalls[L]
          /\ errfunc'[L] = errfunc[L] /\ allowhook'[L] = allowhook[L] /\ status'[L] = "ok"
        BY <1>5, <1>7, <2>2, <2>3, <2>4, OwnChange
    <2>6. Counts(cstack, n, nCcalls[L], baseCcalls[L]) /\ Flags(cstack, n, allowhook[L], errfunc[L])
        BY <1>4, <1>5, <1>6 DEF RecordedAt
    <2>7. \A i \in n..n : cstack[i].th = L
        BY <1>4, <1>5
    <2>8. Agree(cstack, cstack', n) /\ Len(cstack') = n
        BY <1>4, <1>11, <2>1
    <2>9. /\ Counts(cstack, n, nCcalls'[L], baseCcalls[L]) /\ Flags(cstack, n, allowhook'[L], errfunc'[L])
          /\ Len(base_ci'[L]) = Frames(cstack, L, n) /\ \A k \in 1..Frames(cstack, L, n) : base_ci'[L][k] = base_ci[L][k]
        BY <1>6, <2>5, <2>6
    <2> QED BY <1>3, <1>5, <2>5, <2>7, <2>8, <2>9, BackKeeps
<1>13. CASE costatus(L, co) = "suspended"
    <2>1. /\ Absent(cstack, co) /\ co # L /\ status[co] \in {"ok", "yield"} /\ (status[co] = "ok" => base_ci[co] = <<>>)
        BY <1>1, <1>2, <1>7, <1>13, SuspendedAbsent
    <2>2. \A i \in 1..n : s[i].th # co
        BY <1>4, <1>5, <2>1 DEF Absent
    <2>3. RestingAt(co)
        BY <1>7 DEF ThreadsInv, Resting
    <2>4. /\ Frames(s, co, n) = 0 /\ ExecsOf(s, co, n) = 0 /\ ~HookIn(s, co, n) /\ ~Handled(s, co, n)
        <3>1. n \in 0..Len(s)
            BY <1>5
        <3> QED BY <1>5, <2>2, <3>1, AbsentNone
    <2>5. \A k \in 1..Frames(cstack, co, n) : base_ci'[co][k] = base_ci[co][k]
        BY <1>8
    <2>6. ASSUME NEW x \in Nat, NEW y \in Nat, x <= LimitCCalls, nCcalls' = [nCcalls EXCEPT ![co] = x],
                 baseCcalls' = [baseCcalls EXCEPT ![co] = y], fresh' \in [States -> BOOLEAN], cstack' \in Seq(Activations)
          PROVE  ThreadsTyped' /\ Others(co) /\ nCcalls'[co] = x /\ baseCcalls'[co] = y
        <3>1. /\ nCcalls' \in [States -> Nat] /\ baseCcalls' \in [States -> Nat] /\ nCcalls'[co] = x /\ baseCcalls'[co] = y
              /\ \A M \in States \ {co} : nCcalls'[M] = nCcalls[M] /\ baseCcalls'[M] = baseCcalls[M]
            BY <1>7, <2>6 DEF ThreadsTyped
        <3>2. baseCcalls'[MainThread] = 0 /\ \A M \in States : nCcalls'[M] <= LimitCCalls
            <4>1. MainThread \in States
                BY DEF States
            <4> QED BY <1>7, <2>6, <3>1, <4>1 DEF ThreadsTyped
        <3>3. ThreadsTyped'
            BY <1>7, <1>8, <2>6, <3>1, <3>2 DEF ThreadsTyped
        <3>4. Others(co)
            BY <1>8, <3>1 DEF Others
        <3> QED BY <3>1, <3>3, <3>4
    <2>7. CASE nCcalls[L] >= MaxCCalls
        <3>1. /\ cstack' = t /\ nCcalls' = [nCcalls EXCEPT ![co] = nCcalls[L]] /\ baseCcalls' = baseCcalls
              /\ fresh' = [fresh EXCEPT ![co] = FALSE]
            BY <1>2, <1>10, <1>13, <2>7 DEF lua_resume
        <3>2. baseCcalls[co] \in Nat /\ baseCcalls' = [baseCcalls EXCEPT ![co] = baseCcalls[co]] /\ fresh' \in [States -> BOOLEAN]
            BY <1>7, <3>1 DEF ThreadsTyped
        <3>3. ThreadsTyped' /\ Others(co) /\ baseCcalls'[co] = baseCcalls[co]
            BY <1>9, <1>11, <2>6, <3>1, <3>2
        <3>4. Grows(cstack, cstack', n, co)
            <4>1. n <= Len(s) /\ (\A i \in (n + 1)..Len(s) : s[i].th = co) /\ Len(t) = n
                BY <1>5, <1>11
            <4> QED BY <1>4, <1>11, <3>1, <4>1 DEF Grows
        <3>5. Step(co, n)
            BY <1>1, <1>5, <2>5, <3>3, <3>4 DEF Step
        <3>6. \A i \in 1..n : cstack'[i].th # co
            <4>1. \A i \in 1..n : Same(s[i], t[i])
                BY <1>11 DEF Agree
            <4> QED BY <2>2, <3>1, <4>1, SameKind
        <3>7. Absent(cstack', co) /\ n = Len(cstack')
            BY <1>11, <3>1, <3>6 DEF Absent
        <3>8. RestingAt(co)'
            BY <1>8, <2>1, <2>3 DEF RestingAt
        <3>9. cstack'[n].th # co
            BY <1>5, <3>6
        <3> QED BY <1>7, <3>3, <3>5, <3>7, <3>8, <3>9, StepKeeps
    <2>8. CASE ~(nCcalls[L] >= MaxCCalls)
        <3>1. PICK c \in Nat : c = nCcalls[L] + 1
            BY <1>9
        <3>2. /\ cstack' = Append(cstack, TryResume(co)) /\ nCcalls' = [nCcalls EXCEPT ![co] = c]
              /\ baseCcalls' = [baseCcalls EXCEPT ![co] = c] /\ fresh' = fresh
            BY <1>2, <1>13, <2>8, <3>1 DEF lua_resume
        <3>3. PICK q \in Nat : q = n + 1
            OBVIOUS
        <3>4. PICK e : e = TryResume(co)
            OBVIOUS
        <3>5. e \in Activations /\ IsResume(e) /\ e.th = co /\ e.k = "try" /\ ~IsPcall(e) /\ Runs(e) = 0
            BY <3>4 DEF TryResume, Activations, ResumeRecs, IsResume, IsPcall, Runs
        <3>6. PICK r : r = cstack'
            OBVIOUS
        <3>7. r \in Seq(Activations) /\ Len(r) = n + 1 /\ r[n + 1] = e /\ Agree(s, r, n)
            BY <1>3, <1>4, <1>7, <3>2, <3>4, <3>5, <3>6, Pushed
        <3>8. r[q] = e /\ Len(r) = q /\ q >= 2 /\ q # n /\ q - 1 = n
            BY <1>5, <3>3, <3>7
        <3>9. ThreadsTyped' /\ Others(co) /\ nCcalls'[co] = c /\ baseCcalls'[co] = c
            <4>1. c <= LimitCCalls
                BY <1>9, <2>8, <3>1, Limits
            <4>2. fresh' \in [States -> BOOLEAN] /\ cstack' \in Seq(Activations)
                <5>1. fresh \in [States -> BOOLEAN]
                    BY <1>7 DEF ThreadsTyped
                <5> QED BY <3>2, <3>6, <3>7, <5>1
            <4> QED BY <2>6, <3>2, <4>1, <4>2
        <3>10. Grows(s, r, n, co)
            <4>1. Same(s[n], r[n])
                BY <1>5, <3>7 DEF Agree
            <4>2. r[n].k = "cfunction" /\ r[n].th = L
                BY <1>5, <4>1, SameKind
            <4>3. Follows(r[n], r[n + 1])
                BY <2>1, <3>5, <3>7, <4>2 DEF Follows
            <4>4. n <= Len(s) /\ (\A i \in (n + 1)..Len(s) : s[i].th = co) /\ n >= 1
                BY <1>5
            <4> QED BY <2>2, <3>5, <3>7, <4>3, <4>4 DEF Grows
        <3>11. Step(co, n)
            <4>1. \A i \in 1..n : cstack[i].th # co
                BY <1>4, <2>2
            <4> QED BY <1>1, <1>4, <1>5, <2>5, <3>6, <3>9, <3>10, <4>1 DEF Step
        <3>12. /\ Execs(r, q) = Execs(s, n) /\ ExecsOf(r, co, q) = 0 /\ Frames(r, co, q) = 0
               /\ HandlerIn(r, q) <=> HandlerIn(s, n)
               /\ ~HookIn(r, co, q) /\ ~Handled(r, co, q)
            <4>1. n \in 0..Len(s)
                BY <1>5
            <4>2. AddsOne(s, r, n, q, co)
                BY <1>5, <3>3, <3>7, <4>1, Extended
            <4>3. ~PcallOf(r, co, q) /\ r[q].k # "execute" /\ r[q].k # "hook" /\ Runs(r[q]) = 0
                BY <3>5, <3>8 DEF PcallOf
            <4>4. Execs(s, n) \in Nat
                BY <1>5, <4>1, Finite
            <4>5. Execs(r, q) = Execs(s, n) + 0 /\ ExecsOf(r, co, q) = 0 + 0 /\ Frames(r, co, q) = 0 + 0
                BY <2>4, <3>5, <3>8, <4>2, <4>3 DEF AddsOne
            <4>6. (HandlerIn(r, q) <=> HandlerIn(s, n)) /\ ~HookIn(r, co, q) /\ ~Handled(r, co, q)
                BY <2>4, <4>2, <4>3 DEF AddsOne
            <4> QED BY <4>4, <4>5, <4>6
        <3>13. RecordedAt(r, q)'
            <4>1. PICK x \in Nat : x = Execs(s, n)
                <5>1. n \in 0..Len(s)
                    BY <1>5
                <5> QED BY <1>5, <5>1, Finite
            <4>2. nCcalls[L] >= x /\ (~HandlerIn(s, n) => nCcalls[L] = x)
                <5>1. Counts(s, n, nCcalls[L], baseCcalls[L])
                    BY <1>4, <1>5, <1>6 DEF RecordedAt
                <5>2. (IF IsResume(s[n]) THEN 1 ELSE 0) = 0
                    BY <1>5
                <5> QED BY <4>1, <5>1, <5>2 DEF Counts
            <4>3. Counts(r, q, c, c)
                <5>1. (IF IsResume(r[q]) THEN 1 ELSE 0) = 1
                    BY <3>5, <3>8
                <5>2. c >= x + 1 /\ (~HandlerIn(s, n) => c = x + 1) /\ c >= c + 0 - 1
                    BY <1>9, <3>1, <4>2
                <5>3. r[q].th = co /\ Execs(r, q) = x /\ ExecsOf(r, co, q) = 0
                    BY <3>5, <3>8, <3>12, <4>1
                <5> QED BY <3>12, <5>1, <5>2, <5>3 DEF Counts
            <4>4. Flags(r, q, allowhook[co], errfunc[co])
                BY <2>1, <2>3, <3>5, <3>8, <3>12 DEF Flags, RestingAt
            <4>5. status[co] = "ok" => Len(base_ci[co]) = 0
                BY <2>1
            <4> QED BY <1>8, <2>1, <3>5, <3>8, <3>9, <3>12, <4>3, <4>4, <4>5 DEF RecordedAt
        <3>14. SavedAt(cstack, q)' /\ PlacedAt(cstack, q)' /\ RecordedAt(cstack, q)'
            <4>1. SavedAt(r, q)'
                BY <3>5, <3>8 DEF SavedAt
            <4>2. PlacedAt(r, q)'
                <5>1. 1..Runs(r[q]) = {}
                    BY <3>5, <3>8
                <5> QED BY <5>1 DEF PlacedAt
            <4> QED BY <3>6, <3>13, <4>1, <4>2 DEF SavedAt, PlacedAt, RecordedAt
        <3>15. RestingAt(co)'
            <4>1. ~Absent(r, co)
                <5>1. q \in 1..Len(r) /\ r[q].th = co
                    BY <3>5, <3>8
                <5> QED BY <5>1 DEF Absent
            <4> QED BY <1>8, <2>3, <3>6, <4>1 DEF RestingAt
        <3>16. q = Len(cstack') /\ cstack'[q].th = co
            BY <3>5, <3>6, <3>8
        <3> QED BY <1>7, <3>9, <3>11, <3>14, <3>15, <3>16, StepKeeps
    <2> QED BY <2>7, <2>8
<1> QED BY <1>12, <1>13
LEMMA resumeKeeps == ASSUME ThreadsInv, resume PROVE ThreadsInv'
<1>1. cstack # <<>> /\ IsResume(Top)
    BY DEF resume, Alive, IsResume
<1>2. PICK L : L = Running
    OBVIOUS
<1>3. PICK n \in Nat : n = Len(cstack)
    BY StackOf DEF ThreadsInv
<1>4. PICK s : s = cstack
    OBVIOUS
<1>5. /\ s \in Seq(Activations) /\ n = Len(s) /\ n >= 1 /\ n \in 1..n /\ s[n] = Top /\ s[n].th = L /\ L \in States
    BY <1>1, <1>2, <1>3, <1>4, StackOf DEF ThreadsInv
<1>6. RecordedAt(s, n) /\ ThreadsTyped /\ RestingAt(L)
    BY <1>1, <1>2, <1>3, <1>4, <1>5, Now DEF ThreadsInv, Resting
<1>7. ExecsOf(s, L, n) = 0 /\ Frames(s, L, n) = 0
    BY <1>1, <1>2, <1>3, <1>4, Begins
<1>8. /\ status[L] \in {"ok", "yield"} /\ Counts(s, n, nCcalls[L], baseCcalls[L]) /\ Flags(s, n, allowhook[L], errfunc[L])
      /\ status[L] = "ok" => Len(base_ci[L]) = 0
    BY <1>5, <1>6, <1>7 DEF RecordedAt
<1>9. /\ base_ci[L] \in Seq({"lua", "c"}) /\ nCcalls[L] \in 0..LimitCCalls /\ nCcalls[L] \in Nat /\ size_ci[L] \in Nat
      /\ Len(base_ci[L]) < size_ci[L] /\ 2 <= size_ci[L] /\ errfunc[L] \in BOOLEAN /\ allowhook[L] \in BOOLEAN
      /\ LimitCCalls \in Nat /\ fresh \in [States -> BOOLEAN] /\ baseCcalls[L] \in Nat
    BY <1>5, <1>6, OwnValues
<1>10. CASE status[L] = "ok"
    <2>1. Len(base_ci[L]) = 0 /\ 0 < size_ci[L] - 1 /\ 0 + 1 < size_ci[L] + 1
        BY <1>8, <1>9, <1>10
    <2>2. HasRoom(L, size_ci[L])
        BY <2>1 DEF HasRoom
    <2>3. Entering(L) = Outcome("ok", nCcalls[L], size_ci[L])
        BY <2>2 DEF Entering, growCI
    <2>4. Entering(L).out = "ok" /\ Entering(L).s = size_ci[L]
        BY <2>3 DEF Outcome
    <2>5. /\ cstack' = Append(cstack, Execute(L, 1, FALSE)) /\ base_ci' = [base_ci EXCEPT ![L] = Append(base_ci[L], "lua")]
          /\ size_ci' = [size_ci EXCEPT ![L] = size_ci[L]] /\ fresh' = [fresh EXCEPT ![L] = FALSE]
          /\ UNCHANGED <<nCcalls, baseCcalls, errfunc, allowhook, status>>
        BY <1>2, <1>10, <2>4 DEF resume
    <2>6. Sets(L, Append(base_ci[L], "lua"), nCcalls[L], allowhook[L], errfunc[L], size_ci[L], status[L])
        BY <1>5, <1>6, <2>5, OwnValues DEF Sets
    <2>7. fresh' \in [States -> BOOLEAN]
        BY <1>9, <2>5
    <2>8. Len(base_ci[L]) + 1 < size_ci[L]
        BY <1>9, <2>1
    <2>9. nCcalls[L] >= nCcalls[L] + (IF IsResume(Top) THEN 0 ELSE 1) /\ nCcalls[L] = nCcalls[L] + (IF IsResume(Top) THEN 0 ELSE 1)
        <3>1. (IF IsResume(Top) THEN 0 ELSE 1) = 0
            BY <1>1
        <3> QED BY <1>9, <3>1
    <2> QED BY <1>1, <1>2, <1>9, <1>10, <2>5, <2>6, <2>7, <2>8, <2>9, CallKeeps
<1>11. CASE status[L] = "yield"
    <2>1. Yielded(base_ci[L])
        BY <1>6, <1>11 DEF RestingAt
    <2>2. PICK m \in Nat : Len(base_ci[L]) = m + 1 /\ m >= 1 /\ Len(base_ci[L]) - 1 = m
        <3>1. PICK g \in Nat : g = Len(base_ci[L])
            BY <1>9
        <3>2. g >= 2
            BY <2>1, <3>1 DEF Yielded
        <3>3. g - 1 \in Nat /\ g = (g - 1) + 1 /\ g - 1 >= 1
            BY <3>2
        <3> QED BY <3>1, <3>3
    <2>3. PICK fr : fr = Front(base_ci[L])
        OBVIOUS
    <2>4. fr \in Seq({"lua", "c"}) /\ Len(fr) = m /\ \A k \in 1..m : fr[k] = base_ci[L][k]
        BY <1>9, <2>2, <2>3, FrontOf
    <2>5. \A k \in 1..m : fr[k] = "lua"
        <3>1. \A k \in 1..m : base_ci[L][k] = "lua"
            BY <2>1, <2>2 DEF Yielded
        <3> QED BY <2>4, <3>1
    <2>6. PICK e : e = Execute(L, m, FALSE)
        OBVIOUS
    <2>7. e \in Activations /\ e.th = L /\ e.k = "execute" /\ ~IsResume(e) /\ ~IsPcall(e) /\ ~e.handler /\ Runs(e) = m /\ One(e) = 1
        BY <1>5, <2>2, <2>6 DEF Execute, Activations, ExecuteRecs, IsResume, IsPcall, Runs, One
    <2>8. status[L] # "ok"
        BY <1>11
    <2>9. /\ cstack' = Append(cstack, e) /\ base_ci' = [base_ci EXCEPT ![L] = fr] /\ status' = [status EXCEPT ![L] = "ok"]
          /\ UNCHANGED <<nCcalls, baseCcalls, errfunc, allowhook, size_ci, fresh>>
        BY <1>2, <2>2, <2>3, <2>6, <2>8 DEF resume
    <2>10. cstack' \in Seq(Activations) /\ Len(cstack') = n + 1 /\ cstack'[n + 1] = e /\ Agree(cstack, cstack', n)
        BY <1>3, <1>6, <2>7, <2>9, Pushed
    <2>11. Sets(L, fr, nCcalls[L], allowhook[L], errfunc[L], size_ci[L], "ok") /\ fresh' \in [States -> BOOLEAN]
        BY <1>5, <1>6, <1>9, <2>9, OwnValues DEF Sets
    <2>12. CanSet(fr, nCcalls[L], allowhook[L], errfunc[L], size_ci[L], "ok")
        <3>1. Len(fr) < size_ci[L]
            BY <1>9, <2>2, <2>4
        <3> QED BY <1>9, <2>4, <3>1 DEF CanSet
    <2>13. /\ ThreadsTyped' /\ Others(L)
           /\ base_ci'[L] = fr /\ nCcalls'[L] = nCcalls[L] /\ baseCcalls'[L] = baseCcalls[L]
           /\ errfunc'[L] = errfunc[L] /\ allowhook'[L] = allowhook[L] /\ status'[L] = "ok"
        BY <1>5, <1>6, <2>10, <2>11, <2>12, OwnChange
    <2>14. PICK x \in Nat : x = Execs(s, n)
        <3>1. n \in 0..Len(s)
            BY <1>5
        <3> QED BY <1>5, <3>1, Finite
    <2>15. MoreCounts(L, n, e)
        <3>1. (IF IsResume(s[n]) THEN 1 ELSE 0) = 1
            BY <1>1, <1>5
        <3>2. nCcalls[L] >= x + 1 /\ (~HandlerIn(s, n) => nCcalls[L] = x + 1) /\ nCcalls[L] >= baseCcalls[L]
            BY <1>8, <2>14, <3>1 DEF Counts
        <3>3. nCcalls[L] >= baseCcalls[L] + 0 + 1 - 1
            BY <1>9, <3>2
        <3> QED BY <1>4, <1>7, <2>7, <2>13, <2>14, <3>2, <3>3 DEF MoreCounts
    <2>16. MoreFlags(L, n, e)
        BY <1>4, <1>5, <1>8, <2>7, <2>13 DEF MoreFlags, Flags
    <2>17. MoreFrames(L, n, e)
        <3>1. 0 + m = m /\ 1..0 = {} /\ \A k \in 1..m : 0 + k = k
            OBVIOUS
        <3>2. Len(base_ci'[L]) = 0 + m /\ \A k \in 1..m : base_ci'[L][0 + k] = "lua"
            BY <2>4, <2>5, <2>13, <3>1
        <3> QED BY <1>4, <1>7, <2>7, <3>1, <3>2 DEF MoreFrames
    <2>18. Saves(L, n, e)
        BY <2>7 DEF Saves
    <2>19. Follows(cstack[n], e)
        BY <1>4, <1>5, <2>7 DEF Follows
    <2>20. \A i \in n..n : cstack[i].th = L
        BY <1>4, <1>5
    <2> QED BY <1>3, <1>5, <2>7, <2>10, <2>13, <2>15, <2>16, <2>17, <2>18, <2>19, <2>20, MoreKeeps
<1> QED BY <1>8, <1>10, <1>11
\* Where a thread may yield, it has called one function since it was resumed.
LEMMA MayYield ==
    ASSUME ThreadsInv, cstack # <<>>, Top.k = "cfunction", NEW L, L = Running, nCcalls[L] <= baseCcalls[L],
           NEW n \in Nat, n = Len(cstack)
    PROVE  \E p \in Nat : /\ n = p + 3 /\ p >= 1 /\ nCcalls[L] >= 1
                          /\ cstack[p + 1] = TryResume(L) /\ cstack[p].k = "cfunction" /\ \A i \in 1..p : cstack[i].th # L
                          /\ cstack[p + 2].k = "execute" /\ cstack[p + 2].th = L
<1>1. PICK s : s = cstack
    OBVIOUS
<1>2. /\ s \in Seq(Activations) /\ n = Len(s) /\ n >= 1 /\ n \in 1..n /\ s[n] = Top /\ s[n].th = L /\ L \in States
      /\ s[n].k = "cfunction" /\ ~IsResume(s[n])
    BY <1>1, StackOf DEF ThreadsInv, IsResume
<1>3. RecordedAt(s, n) /\ ThreadsTyped /\ \A i \in 1..n : s[i] \in Activations
    BY <1>1, <1>2, Now, StackOf DEF ThreadsInv
<1>4. nCcalls[L] \in Nat /\ baseCcalls[L] \in Nat
    BY <1>2, <1>3, OwnValues
<1>5. ASSUME NEW i \in 1..n, s[i].th = L PROVE s[i].k \in {"execute", "cfunction", "hook"} => ExecsOf(s, L, i) >= 1
    BY <1>1, <1>2, <1>5, HasRun
<1>6. ASSUME NEW q \in Nat, q + 1 \in 1..n
      PROVE  /\ ExecsOf(s, L, q + 1) = ExecsOf(s, L, q) + (IF s[q + 1].k = "execute" /\ s[q + 1].th = L THEN 1 ELSE 0)
             /\ ExecsOf(s, L, q) \in Nat
             /\ q >= 1 => Follows(s[q], s[q + 1])
             /\ q = 0 => s[q + 1] = FirstCall
    <2>1. q + 1 \in 1..Len(s) /\ (q + 1) - 1 = q /\ q \in 0..Len(s)
        BY <1>2, <1>6
    <2>2. ExecsOf(s, L, q + 1) = ExecsOf(s, L, (q + 1) - 1) + (IF s[q + 1].k = "execute" /\ s[q + 1].th = L THEN 1 ELSE 0)
        BY <1>2, <2>1, OneMore
    <2>3. ExecsOf(s, L, q) \in Nat
        BY <1>2, <2>1, Finite
    <2>4. q >= 1 => Follows(s[q], s[q + 1])
        <3>1. q >= 1 => q + 1 \in 2..Len(s)
            BY <2>1
        <3>2. q >= 1 => Follows(s[(q + 1) - 1], s[q + 1])
            BY <1>1, <3>1 DEF ThreadsInv, Pieces
        <3> QED BY <2>1, <3>2
    <2>5. q = 0 => s[q + 1] = FirstCall
        BY <1>1, <1>2 DEF ThreadsInv, Pieces
    <2> QED BY <2>1, <2>2, <2>3, <2>4, <2>5
<1>7. ExecsOf(s, L, n) = 1
    <2>1. PICK x \in Nat : x = ExecsOf(s, L, n)
        <3>1. n \in 0..Len(s)
            BY <1>2
        <3> QED BY <1>2, <3>1, Finite
    <2>2. Counts(s, n, nCcalls[L], baseCcalls[L])
        BY <1>2, <1>3 DEF RecordedAt
    <2>3. nCcalls[L] >= baseCcalls[L] + x - 1
        BY <1>2, <2>1, <2>2 DEF Counts
    <2>4. x <= 1
        BY <1>4, <2>3
    <2>5. x >= 1
        BY <1>2, <1>5, <2>1
    <2> QED BY <2>1, <2>4, <2>5
\* The function, called by luaV_execute
<1>8. PICK a \in Nat : n = a + 1
    BY <1>2
<1>9. a >= 1 /\ Follows(s[a], s[n])
    BY <1>2, <1>6, <1>8 DEF FirstCall
<1>10. s[a].k = "execute" /\ s[a].th = L /\ ExecsOf(s, L, a) = 1
    <2>1. s[a].k = "execute" /\ s[a].th = L
        BY <1>2, <1>9 DEF Follows
    <2>2. ExecsOf(s, L, n) = ExecsOf(s, L, a) + 0 /\ ExecsOf(s, L, a) \in Nat
        BY <1>2, <1>6, <1>8
    <2> QED BY <1>7, <2>1, <2>2
<1>11. PICK b \in Nat : a = b + 1
    BY <1>9
<1>12. b >= 1 /\ Follows(s[b], s[a]) /\ ExecsOf(s, L, b) = 0 /\ b \in 1..n
    <2>1. b + 1 \in 1..n
        BY <1>8, <1>9, <1>11
    <2>2. b # 0
        BY <1>6, <1>10, <1>11, <2>1 DEF FirstCall
    <2>3. ExecsOf(s, L, a) = ExecsOf(s, L, b) + 1 /\ ExecsOf(s, L, b) \in Nat
        BY <1>6, <1>10, <1>11, <2>1
    <2> QED BY <1>6, <1>8, <1>10, <1>11, <2>1, <2>2, <2>3
\* The setjmp point of its lua_resume
<1>13. s[b].th = L /\ s[b].k = "try"
    <2>1. ~IsResume(s[a])
        BY <1>10 DEF IsResume
    <2>2. s[b].th = L
        BY <1>10, <1>12, <2>1 DEF Follows
    <2>3. s[b].k \notin {"execute", "cfunction", "hook"}
        BY <1>5, <1>12, <2>2
    <2> QED BY <1>3, <1>12, <2>2, <2>3, ActivationKinds DEF Kinds
<1>14. PICK p \in Nat : b = p + 1
    <2>1. b >= 1
        BY <1>12
    <2>2. b - 1 \in Nat /\ b = (b - 1) + 1
        BY <2>1
    <2> QED BY <2>2
<1>15. nCcalls[L] >= 1
    <2>1. PICK x \in Nat : x = Execs(s, n)
        <3>1. n \in 0..Len(s)
            BY <1>2
        <3> QED BY <1>2, <3>1, Finite
    <2>2. x >= 1
        <3>1. n \in 0..Len(s) /\ a \in 1..n
            BY <1>2, <1>8, <1>9
        <3> QED BY <1>2, <1>10, <2>1, <3>1, Entered
    <2>3. Counts(s, n, nCcalls[L], baseCcalls[L]) /\ (IF IsResume(s[n]) THEN 1 ELSE 0) = 0
        BY <1>2, <1>3 DEF RecordedAt
    <2>4. nCcalls[L] >= x
        BY <2>1, <2>3 DEF Counts
    <2> QED BY <1>4, <2>2, <2>4
<1>16. IsResume(s[b])
    <2>1. SUFFICES ASSUME IsPcall(s[b]) PROVE FALSE
        BY <1>3, <1>12, <1>13, ActivationKinds
    <2>2. CASE p = 0
        <3>1. s[b] = FirstCall
            BY <1>6, <1>12, <1>14, <2>2
        <3>2. L = MainThread
            BY <1>13, <3>1 DEF FirstCall
        <3>3. baseCcalls[L] = 0
            BY <1>3, <3>2 DEF ThreadsTyped
        <3> QED BY <1>4, <1>15, <3>3
    <2>3. CASE p >= 1
        <3>1. Follows(s[p], s[b]) /\ p \in 1..n
            BY <1>6, <1>12, <1>14, <2>3
        <3>2. ~IsResume(s[b])
            BY <2>1 DEF IsPcall, IsResume
        <3>3. s[p].k = "cfunction" /\ s[p].th = L
            BY <1>13, <3>1, <3>2 DEF Follows
        <3>4. ExecsOf(s, L, b) = ExecsOf(s, L, p) + 0 /\ ExecsOf(s, L, p) \in Nat
            BY <1>6, <1>12, <1>13, <1>14
        <3> QED BY <1>5, <1>12, <3>1, <3>3, <3>4
    <2> QED BY <2>2, <2>3
<1>17. p >= 1 /\ Follows(s[p], s[b]) /\ s[b] = TryResume(L)
    <2>1. p # 0
        BY <1>6, <1>12, <1>14, <1>16 DEF FirstCall, IsResume
    <2> QED BY <1>3, <1>6, <1>12, <1>13, <1>14, <1>16, <2>1, ActivationKinds
<1>18. s[p].k = "cfunction"
    BY <1>13, <1>17 DEF Follows
<1>19. \A i \in 1..p : s[i].th # L
    <2>1. \A i, j \in 1..n : i < j /\ IsResume(s[j]) => s[i].th # s[j].th
        BY <1>1 DEF ThreadsInv, Pieces
    <2>2. \A i \in 1..p : i \in 1..n /\ i < b
        BY <1>12, <1>14
    <2> QED BY <1>12, <1>13, <1>16, <2>1, <2>2
<1>20. n = p + 3 /\ b = p + 1 /\ a = p + 2
    BY <1>8, <1>11, <1>14
<1> QED BY <1>1, <1>10, <1>15, <1>17, <1>18, <1>19, <1>20
LEMMA lua_yieldKeeps == ASSUME ThreadsInv, lua_yield PROVE ThreadsInv'
<1>1. cstack # <<>> /\ Top.k = "cfunction" /\ Top.k # "try"
    BY DEF lua_yield, InFunction, Alive
<1>2. PICK L : L = Running
    OBVIOUS
<1>3. PICK n \in Nat : n = Len(cstack)
    BY StackOf DEF ThreadsInv
<1>4. PICK s : s = cstack
    OBVIOUS
<1>5. /\ s \in Seq(Activations) /\ n = Len(s) /\ n >= 1 /\ n \in 1..n /\ s[n] = Top /\ s[n].th = L /\ L \in States
      /\ s[n].k = "cfunction" /\ ~IsResume(s[n]) /\ ~IsPcall(s[n])
    BY <1>1, <1>2, <1>3, <1>4, StackOf DEF ThreadsInv, IsResume, IsPcall
<1>6. /\ RecordedAt(s, n) /\ ThreadsTyped /\ status[L] = "ok" /\ Len(base_ci[L]) = Frames(s, L, n)
      /\ \A i \in 1..n : s[i] \in Activations
    BY <1>1, <1>2, <1>3, <1>4, <1>5, Now, StackOf DEF ThreadsInv
<1>7. nCcalls[L] \in Nat /\ baseCcalls[L] \in Nat /\ base_ci[L] \in Seq({"lua", "c"}) /\ nCcalls[L] <= LimitCCalls /\ LimitCCalls \in Nat
    BY <1>5, <1>6, OwnValues
<1>8. CASE nCcalls[L] > baseCcalls[L]
    <2>1. Enters(Running, Raising(Running), cstack)
        BY <1>2, <1>8 DEF lua_yield
    <2> QED BY <1>1, <2>1, RaisesKeeps
<1>9. CASE ~(nCcalls[L] > baseCcalls[L])
    <2>1. /\ status' = [status EXCEPT ![L] = "yield"] /\ cstack' = AtStage(Below(3), "done")
          /\ nCcalls' = [nCcalls EXCEPT ![L] = nCcalls[L] - 1]
          /\ UNCHANGED <<base_ci, baseCcalls, errfunc, allowhook, size_ci, fresh>>
        BY <1>2, <1>9 DEF lua_yield
    <2>2. PICK p \in Nat : /\ n = p + 3 /\ p >= 1 /\ nCcalls[L] >= 1
                           /\ s[p + 1] = TryResume(L) /\ s[p].k = "cfunction" /\ \A i \in 1..p : s[i].th # L
                           /\ s[p + 2].k = "execute" /\ s[p + 2].th = L
        <3>1. nCcalls[L] <= baseCcalls[L]
            BY <1>7, <1>9
        <3> QED BY <1>1, <1>2, <1>3, <1>4, <3>1, MayYield
    <2>3. PICK b \in Nat : b = p + 1
        OBVIOUS
    <2>4. PICK a \in Nat : a = p + 2
        OBVIOUS
    <2>5. /\ p \in 0..Len(s) /\ p \in 1..n /\ p \in 0..n /\ b \in 1..Len(s) /\ a \in 1..Len(s) /\ n \in 1..Len(s)
          /\ b - 1 = p /\ a - 1 = b /\ n - 1 = a /\ b > 1 /\ n - 3 = p /\ p <= n /\ p \in 0..(n - 1)
          /\ \A i \in (p + 1)..n : i = b \/ i = a \/ i = n
        <3>1. n = p + 3 /\ p >= 1 /\ n = Len(s)
            BY <1>5, <2>2
        <3>2. p \in 0..n /\ p \in 1..n /\ b \in 1..n /\ a \in 1..n /\ n \in 1..n
            BY <2>3, <2>4, <3>1
        <3>3. b - 1 = p /\ a - 1 = b /\ n - 1 = a /\ b > 1 /\ n - 3 = p /\ p <= n /\ p \in 0..(n - 1)
            BY <2>3, <2>4, <3>1
        <3>4. \A i \in (p + 1)..n : i = b \/ i = a \/ i = n
            BY <2>3, <2>4, <3>1
        <3> QED BY <3>1, <3>2, <3>3, <3>4
    <2>6. /\ s[b].th = L /\ IsResume(s[b]) /\ s[b].k = "try" /\ ~IsPcall(s[b]) /\ Runs(s[b]) = 0
          /\ s[a].th = L /\ s[a].k = "execute" /\ ~IsPcall(s[a])
        BY <2>2, <2>3, <2>4 DEF TryResume, IsResume, IsPcall, Runs
    <2>7. /\ Frames(s, L, p) = 0 /\ ~HookIn(s, L, p) /\ ~Handled(s, L, p)
        BY <1>5, <2>2, <2>5, AbsentNone
    <2>8. /\ Frames(s, L, b) = 0 /\ ~HookIn(s, L, b) /\ ~Handled(s, L, b)
        <3>1. /\ Frames(s, L, b) = Frames(s, L, b - 1) + (IF s[b].th = L THEN Runs(s[b]) ELSE 0)
              /\ HookIn(s, L, b) <=> HookIn(s, L, b - 1) \/ (s[b].th = L /\ s[b].k = "hook")
              /\ Handled(s, L, b) <=> IF PcallOf(s, L, b) /\ b > 1 THEN s[b - 1].f = "xpcall" ELSE Handled(s, L, b - 1)
            BY <1>5, <2>5, OneMore
        <3>2. ~PcallOf(s, L, b)
            BY <2>6 DEF PcallOf
        <3>3. Frames(s, L, b) = 0 + 0
            BY <2>5, <2>6, <2>7, <3>1
        <3>4. ~HookIn(s, L, b) /\ ~Handled(s, L, b)
            BY <2>5, <2>6, <2>7, <3>1, <3>2
        <3> QED BY <3>3, <3>4
    <2>9. PICK m \in Nat \ {0} : m = Runs(s[a])
        <3>1. s[a] \in ExecuteRecs
            BY <1>5, <1>6, <2>5, <2>6, ActivationKinds
        <3> QED BY <3>1, <2>6 DEF ExecuteRecs, Runs
    <2>10. Frames(s, L, a) = m /\ ~HookIn(s, L, a) /\ ~Handled(s, L, a)
        <3>1. /\ Frames(s, L, a) = Frames(s, L, a - 1) + (IF s[a].th = L THEN Runs(s[a]) ELSE 0)
              /\ HookIn(s, L, a) <=> HookIn(s, L, a - 1) \/ (s[a].th = L /\ s[a].k = "hook")
              /\ Handled(s, L, a) <=> IF PcallOf(s, L, a) /\ a > 1 THEN s[a - 1].f = "xpcall" ELSE Handled(s, L, a - 1)
            BY <1>5, <2>5, OneMore
        <3>2. ~PcallOf(s, L, a)
            BY <2>6 DEF PcallOf
        <3>3. Frames(s, L, a) = 0 + m
            BY <2>5, <2>6, <2>8, <2>9, <3>1
        <3>4. ~HookIn(s, L, a) /\ ~Handled(s, L, a)
            BY <2>5, <2>6, <2>8, <3>1, <3>2
        <3> QED BY <3>3, <3>4
    <2>11. Frames(s, L, n) = m + 1 /\ ~HookIn(s, L, n) /\ ~Handled(s, L, n)
        <3>1. /\ Frames(s, L, n) = Frames(s, L, n - 1) + (IF s[n].th = L THEN Runs(s[n]) ELSE 0)
              /\ HookIn(s, L, n) <=> HookIn(s, L, n - 1) \/ (s[n].th = L /\ s[n].k = "hook")
              /\ Handled(s, L, n) <=> IF PcallOf(s, L, n) /\ n > 1 THEN s[n - 1].f = "xpcall" ELSE Handled(s, L, n - 1)
            BY <1>5, <2>5, OneMore
        <3>2. ~PcallOf(s, L, n) /\ Runs(s[n]) = 1
            BY <1>5 DEF PcallOf, Runs
        <3>3. Frames(s, L, n) = m + 1
            BY <1>5, <2>5, <2>10, <3>1, <3>2
        <3>4. ~HookIn(s, L, n) /\ ~Handled(s, L, n)
            BY <1>5, <2>5, <2>10, <3>1, <3>2
        <3> QED BY <3>3, <3>4
    <2>12. allowhook[L] /\ ~errfunc[L]
        <3>1. Flags(s, n, allowhook[L], errfunc[L])
            BY <1>5, <1>6 DEF RecordedAt
        <3> QED BY <1>5, <2>11, <3>1 DEF Flags
    <2>13. Yielded(base_ci[L])
        <3>1. Len(base_ci[L]) = m + 1
            BY <1>6, <2>11
        <3>2. PlacedAt(s, n) /\ PlacedAt(s, a)
            BY <1>3, <1>4, <1>5, <2>5 DEF ThreadsInv, Placed
        <3>3. base_ci[L][m + 1] = "c"
            <4>1. 1 \in 1..Runs(s[n]) /\ s[n].k # "execute"
                BY <1>5 DEF Runs
            <4>2. base_ci[s[n].th][Frames(s, s[n].th, n - 1) + 1] = "c"
                BY <3>2, <4>1 DEF PlacedAt
            <4> QED BY <1>5, <2>5, <2>10, <4>2
        <3>4. \A k \in 1..m : base_ci[L][k] = "lua"
            <4>1. \A k \in 1..m : base_ci[s[a].th][Frames(s, s[a].th, a - 1) + k] = "lua"
                BY <2>6, <2>9, <3>2 DEF PlacedAt
            <4>2. Frames(s, s[a].th, a - 1) = 0
                BY <2>5, <2>6, <2>8
            <4>3. \A k \in 1..m : 0 + k = k
                OBVIOUS
            <4>4. \A k \in 1..m : base_ci[L][0 + k] = "lua"
                BY <2>6, <4>1, <4>2
            <4> QED BY <4>3, <4>4
        <3>5. m + 1 >= 2 /\ (m + 1) - 1 = m
            BY <2>9
        <3> QED BY <3>1, <3>3, <3>4, <3>5 DEF Yielded
    <2>14. "done" \in Stages /\ cstack' = AtStage(SubSeq(s, 1, p), "done") /\ (p > 0 => s[p].k = "cfunction")
        <3>1. Below(3) = SubSeq(s, 1, p)
            BY <1>3, <1>4, <2>5 DEF Below
        <3> QED BY <2>1, <2>2, <3>1 DEF Stages
    <2>15. cstack' \in Seq(Activations) /\ Len(cstack') = p /\ Agree(s, cstack', p)
        BY <1>5, <2>5, <2>14, LeftBelow
    <2>16. PICK c \in Nat : c = nCcalls[L] - 1 /\ c \in 0..LimitCCalls
        BY <1>7, <2>2
    <2>17. Sets(L, base_ci[L], c, allowhook[L], errfunc[L], size_ci[L], "yield") /\ fresh' \in [States -> BOOLEAN]
        BY <1>5, <1>6, <2>1, <2>16, OwnValues DEF Sets
    <2>18. CanSet(base_ci[L], c, allowhook[L], errfunc[L], size_ci[L], "yield")
        BY <1>5, <1>6, <2>16, OwnValues DEF CanSet
    <2>19. /\ ThreadsTyped' /\ Others(L)
           /\ base_ci'[L] = base_ci[L] /\ nCcalls'[L] = c /\ baseCcalls'[L] = baseCcalls[L]
           /\ errfunc'[L] = errfunc[L] /\ allowhook'[L] = allowhook[L] /\ status'[L] = "yield"
        BY <1>5, <1>6, <2>15, <2>17, <2>18, OwnChange
    <2>20. \A i \in (p + 1)..n : cstack[i].th = L
        BY <1>4, <1>5, <2>5, <2>6
    <2>21. p > 0 => cstack[p].th # L
        BY <1>4, <2>2, <2>5
    <2>22. /\ Agree(cstack, cstack', p)
           /\ status'[L] = "yield" => Yielded(base_ci'[L])
           /\ status'[L] \in {"ok", "yield"} => allowhook'[L] /\ ~errfunc'[L]
        BY <1>4, <2>12, <2>13, <2>15, <2>19
    <2> QED BY <1>3, <1>5, <2>5, <2>15, <2>19, <2>20, <2>21, <2>22, OffKeeps
<1> QED BY <1>8, <1>9
------------------------------------------------------------------------------
(* The invariant *)

LEMMA ThreadsInitInv == ThreadsInit => ThreadsInv
<1> SUFFICES ASSUME ThreadsInit PROVE ThreadsInv
    OBVIOUS
<1>1. PICK s : s = cstack
    OBVIOUS
<1>2. PICK e : e = Execute(MainThread, 1, FALSE)
    OBVIOUS
<1>3. PICK M : M = MainThread /\ M \in States
    BY DEF States
<1>4. s = <<FirstCall, e>>
    BY <1>1, <1>2 DEF ThreadsInit, FirstCall
<1>5. e \in Activations /\ e.th = M /\ e.k = "execute" /\ ~e.handler /\ ~IsResume(e) /\ ~IsPcall(e) /\ Runs(e) = 1
    BY <1>2, <1>3 DEF Execute, Activations, ExecuteRecs, IsResume, IsPcall, Runs
<1>6. /\ FirstCall \in Activations /\ FirstCall.th = M /\ FirstCall.k = "try" /\ Runs(FirstCall) = 0
      /\ ~IsResume(FirstCall) /\ IsPcall(FirstCall)
    <2>1. 0 \in 0..LimitCCalls
        BY Limits
    <2>2. FirstCall \in PcallRecs
        BY <1>3, <2>1 DEF FirstCall, PcallRecs
    <2> QED BY <1>3, <2>2 DEF FirstCall, Activations, IsResume, IsPcall, Runs
<1>7. s \in Seq(Activations) /\ Len(s) = 2 /\ s[1] = FirstCall /\ s[2] = e
    BY <1>4, <1>5, <1>6
<1>8. /\ base_ci = [L \in States |-> IF L = M THEN <<"lua">> ELSE <<>>]
      /\ nCcalls = [L \in States |-> IF L = M THEN 1 ELSE 0]
      /\ baseCcalls = [L \in States |-> 0]
      /\ errfunc = [L \in States |-> FALSE] /\ allowhook = [L \in States |-> TRUE]
      /\ size_ci = [L \in States |-> BasicCISize]
      /\ status = [L \in States |-> "ok"] /\ fresh = [L \in States |-> L \in Coroutines]
    BY <1>3 DEF ThreadsInit
<1>9. ThreadsTyped
    <2>1. BasicCISize \in Nat /\ 2 <= BasicCISize /\ 1 <= LimitCCalls /\ LimitCCalls \in Nat
        BY Limits, ThreadsAssumption
    <2>2. /\ base_ci \in [States -> Seq({"lua", "c"})]
          /\ \A L \in States : Len(base_ci[L]) < 2
        <3>1. <<"lua">> \in Seq({"lua", "c"}) /\ Len(<<"lua">>) = 1 /\ <<>> \in Seq({"lua", "c"}) /\ Len(<<>>) = 0
            OBVIOUS
        <3>2. PICK one : one = <<"lua">>
            OBVIOUS
        <3>3. PICK none : none = <<>>
            OBVIOUS
        <3>4. base_ci = [L \in States |-> IF L = M THEN one ELSE none]
            BY <1>8, <3>2, <3>3
        <3>5. one \in Seq({"lua", "c"}) /\ Len(one) = 1 /\ none \in Seq({"lua", "c"}) /\ Len(none) = 0
            BY <3>1, <3>2, <3>3
        <3>6. PICK S : S = Seq({"lua", "c"})
            OBVIOUS
        <3>7. base_ci \in [States -> S] /\ \A L \in States : base_ci[L] = one \/ base_ci[L] = none
            BY <3>4, <3>5, <3>6
        <3>8. \A L \in States : Len(base_ci[L]) < 2
            <4>1. Len(one) < 2 /\ Len(none) < 2
                BY <3>5
            <4> QED BY <4>1, <3>7, Zenon
        <3> QED BY <3>6, <3>7, <3>8
    <2>3. \A L \in States : nCcalls[L] \in Nat /\ nCcalls[L] <= LimitCCalls /\ nCcalls \in [States -> Nat]
        BY <1>8, <2>1
    <2>4. \A L \in States : Len(base_ci[L]) < size_ci[L] /\ 2 <= size_ci[L]
        <3>1. \A L \in States : Len(base_ci[L]) \in Nat
            BY <2>2
        <3> QED BY <1>8, <2>1, <2>2, <3>1
    <2>5. /\ nCcalls \in [States -> Nat] /\ baseCcalls \in [States -> Nat]
          /\ errfunc \in [States -> BOOLEAN] /\ allowhook \in [States -> BOOLEAN]
          /\ size_ci \in [States -> Nat] /\ fresh \in [States -> BOOLEAN]
          /\ status \in [States -> {"ok", "yield", "ERRRUN", "ERRERR"}]
        BY <1>8, <2>1
    <2>6. baseCcalls[MainThread] = 0
        BY <1>3, <1>8
    <2> QED BY <1>1, <1>7, <2>2, <2>3, <2>4, <2>5, <2>6 DEF ThreadsTyped
<1>10. Pieces(s)
    <2>1. \A i \in 1..Len(s) : (i = 1 \/ i = 2) /\ s[i].th = M /\ ~IsResume(s[i])
        BY <1>5, <1>6, <1>7
    <2>2. \A i \in 2..Len(s) : Follows(s[i - 1], s[i])
        <3>1. Follows(FirstCall, e)
            BY <1>5, <1>6 DEF Follows
        <3>2. \A i \in 2..Len(s) : i = 2 /\ i - 1 = 1
            BY <1>7
        <3> QED BY <1>7, <3>1, <3>2
    <2>3. \A i, j \in 1..Len(s) : \A m \in i..j : m \in 1..Len(s)
        BY <1>7
    <2>4. \A i, j \in 1..Len(s) : \A m \in i..j : s[i].th = s[j].th => s[m].th = s[i].th
        BY <2>1, <2>3
    <2> QED BY <1>3, <1>7, <2>1, <2>2, <2>4 DEF Pieces
<1>11. /\ Execs(s, 2) = 1 /\ ExecsOf(s, M, 2) = 1 /\ Frames(s, M, 2) = 1 /\ Frames(s, M, 1) = 0
       /\ ~HandlerIn(s, 2) /\ ~HookIn(s, M, 2) /\ ~Handled(s, M, 2)
    <2>1. PICK z \in Nat : z = 0
        OBVIOUS
    <2>2. PICK a \in Nat : a = 1
        OBVIOUS
    <2>3. PICK b \in Nat : b = 2
        OBVIOUS
    <2>4. a \in 1..Len(s) /\ b \in 1..Len(s) /\ a - 1 = z /\ b - 1 = a
        BY <1>7, <2>1, <2>2, <2>3
    <2>5. /\ Execs(s, z) = 0 /\ ExecsOf(s, M, z) = 0 /\ Frames(s, M, z) = 0
          /\ ~HandlerIn(s, z) /\ ~HookIn(s, M, z) /\ ~Handled(s, M, a)
        BY <2>1, <2>2, None0
    <2>6. /\ Execs(s, a) = Execs(s, a - 1) + (IF s[a].k = "execute" THEN 1 ELSE 0)
          /\ ExecsOf(s, M, a) = ExecsOf(s, M, a - 1) + (IF s[a].k = "execute" /\ s[a].th = M THEN 1 ELSE 0)
          /\ Frames(s, M, a) = Frames(s, M, a - 1) + (IF s[a].th = M THEN Runs(s[a]) ELSE 0)
          /\ HandlerIn(s, a) <=> HandlerIn(s, a - 1) \/ (s[a].k = "execute" /\ s[a].handler)
          /\ HookIn(s, M, a) <=> HookIn(s, M, a - 1) \/ (s[a].th = M /\ s[a].k = "hook")
        BY <1>7, <2>4, OneMore
    <2>7. /\ Execs(s, a) = 0 + 0 /\ ExecsOf(s, M, a) = 0 + 0 /\ Frames(s, M, a) = 0 + 0
          /\ ~HandlerIn(s, a) /\ ~HookIn(s, M, a)
        BY <1>6, <1>7, <2>2, <2>4, <2>5, <2>6
    <2>8. /\ Execs(s, b) = Execs(s, b - 1) + (IF s[b].k = "execute" THEN 1 ELSE 0)
          /\ ExecsOf(s, M, b) = ExecsOf(s, M, b - 1) + (IF s[b].k = "execute" /\ s[b].th = M THEN 1 ELSE 0)
          /\ Frames(s, M, b) = Frames(s, M, b - 1) + (IF s[b].th = M THEN Runs(s[b]) ELSE 0)
          /\ HandlerIn(s, b) <=> HandlerIn(s, b - 1) \/ (s[b].k = "execute" /\ s[b].handler)
          /\ HookIn(s, M, b) <=> HookIn(s, M, b - 1) \/ (s[b].th = M /\ s[b].k = "hook")
          /\ Handled(s, M, b) <=> IF PcallOf(s, M, b) /\ b > 1 THEN s[b - 1].f = "xpcall" ELSE Handled(s, M, b - 1)
        BY <1>7, <2>4, OneMore
    <2>9. ~PcallOf(s, M, b)
        BY <1>5, <1>7, <2>3 DEF PcallOf
    <2>10. s[b].k = "execute" /\ s[b].th = M /\ Runs(s[b]) = 1 /\ ~s[b].handler
        BY <1>5, <1>7, <2>3
    <2>11. /\ Execs(s, b) = 0 + 1 /\ ExecsOf(s, M, b) = 0 + 1 /\ Frames(s, M, b) = 0 + 1
        BY <2>4, <2>7, <2>8, <2>10
    <2>12. ~HandlerIn(s, b) /\ ~HookIn(s, M, b) /\ ~Handled(s, M, b)
        BY <2>4, <2>5, <2>7, <2>8, <2>9, <2>10
    <2> QED BY <2>2, <2>3, <2>7, <2>11, <2>12
<1>12. Recorded
    <2>1. SUFFICES ASSUME NEW i \in 1..Len(s), LastOf(s, i) PROVE RecordedAt(s, i)
        BY <1>1 DEF Recorded
    <2>2. i = 2
        <3>1. i = 1 \/ i = 2
            BY <1>7
        <3>2. ~LastOf(s, 1)
            BY <1>5, <1>6, <1>7 DEF LastOf
        <3> QED BY <2>1, <3>1, <3>2
    <2>3. Counts(s, 2, 1, 0)
        <3>1. (IF IsResume(s[2]) THEN 1 ELSE 0) = 0 /\ s[2].th = M
            BY <1>5, <1>7
        <3> QED BY <1>11, <3>1 DEF Counts
    <2>4. Flags(s, 2, TRUE, FALSE)
        BY <1>5, <1>7, <1>11 DEF Flags
    <2>5. /\ nCcalls[M] = 1 /\ baseCcalls[M] = 0 /\ allowhook[M] = TRUE /\ errfunc[M] = FALSE /\ status[M] = "ok"
          /\ Len(base_ci[M]) = 1 /\ s[2].th = M
        BY <1>3, <1>5, <1>7, <1>8
    <2>6. RecordedAt(s, 2)
        BY <1>11, <2>3, <2>4, <2>5 DEF RecordedAt
    <2> QED BY <2>2, <2>6
<1>13. Saved
    <2>1. \A i \in 2..Len(s) : i = 2
        BY <1>7
    <2>2. SavedAt(s, 2)
        BY <1>5, <1>7 DEF SavedAt
    <2>3. \A i \in 2..Len(s) : SavedAt(s, i)
        BY <2>1, <2>2
    <2> QED BY <1>1, <2>3 DEF Saved
<1>14. Placed
    <2>1. \A i \in 1..Len(s) : i = 1 \/ i = 2
        BY <1>7
    <2>2. PlacedAt(s, 1)
        <3>1. 1..Runs(s[1]) = {}
            BY <1>6, <1>7
        <3> QED BY <3>1 DEF PlacedAt
    <2>3. PlacedAt(s, 2)
        <3>1. base_ci[M][0 + 1] = "lua"
            BY <1>3, <1>8
        <3>2. s[2].th = M /\ s[2].k = "execute" /\ Runs(s[2]) = 1 /\ 2 - 1 = 1 /\ \A m \in 1..1 : m = 1
            BY <1>5, <1>7
        <3> QED BY <1>11, <3>1, <3>2 DEF PlacedAt
    <2>4. \A i \in 1..Len(s) : PlacedAt(s, i)
        BY <2>1, <2>2, <2>3
    <2> QED BY <1>1, <2>4 DEF Placed
<1>15. Resting
    BY <1>8 DEF Resting, RestingAt
<1> QED BY <1>1, <1>9, <1>10, <1>12, <1>13, <1>14, <1>15 DEF ThreadsInv

LEMMA ThreadsStutter == ASSUME ThreadsInv, UNCHANGED threadvars PROVE ThreadsInv'
<1>1. /\ cstack' = cstack /\ base_ci' = base_ci /\ nCcalls' = nCcalls /\ baseCcalls' = baseCcalls /\ errfunc' = errfunc
      /\ allowhook' = allowhook /\ size_ci' = size_ci /\ status' = status /\ fresh' = fresh
    BY DEF threadvars
<1>2. ThreadsTyped'
    BY <1>1 DEF ThreadsInv, ThreadsTyped
<1>3. Pieces(cstack)'
    BY <1>1 DEF ThreadsInv
<1>4. Recorded'
    BY <1>1 DEF ThreadsInv, Recorded, RecordedAt
<1>5. Saved'
    BY <1>1 DEF ThreadsInv, Saved, SavedAt
<1>6. Placed'
    BY <1>1 DEF ThreadsInv, Placed, PlacedAt
<1>7. Resting'
    BY <1>1 DEF ThreadsInv, Resting, RestingAt
<1> QED BY <1>2, <1>3, <1>4, <1>5, <1>6, <1>7 DEF ThreadsInv

LEMMA ThreadsNextInv == ThreadsInv /\ [ThreadsNext]_threadvars => ThreadsInv'
<1> SUFFICES ASSUME ThreadsInv, [ThreadsNext]_threadvars PROVE ThreadsInv'
    OBVIOUS
<1>1. CASE CallLua
    BY <1>1, CallLuaKeeps
<1>2. CASE Metamethod
    BY <1>2, MetamethodKeeps
<1>3. CASE RunTimeError
    BY <1>3, RunTimeErrorKeeps
<1>4. CASE ReturnLua
    BY <1>4, ReturnLuaKeeps
<1>5. CASE \E f \in Functions : CallC(f)
    BY <1>5, CallCKeeps
<1>6. CASE \E isgc \in BOOLEAN : StartHook(isgc)
    BY <1>6, StartHookKeeps
<1>7. CASE HookCalls
    BY <1>7, HookCallsKeeps
<1>8. CASE ProtectedCall
    BY <1>8, ProtectedCallKeeps
<1>9. CASE Callback
    BY <1>9, CallbackKeeps
<1>10. CASE CReturns
    BY <1>10, CReturnsKeeps
<1>11. CASE WrapRaises
    BY <1>11, WrapRaisesKeeps
<1>12. CASE EnterPcall("pcall") \/ EnterPcall("xpcall")
    BY <1>12, EnterPcallKeeps
<1>13. CASE \E co \in Coroutines : lua_resume(co)
    BY <1>13, lua_resumeKeeps
<1>14. CASE resume
    BY <1>14, resumeKeeps
<1>15. CASE lua_yield
    BY <1>15, lua_yieldKeeps
<1>16. CASE UNCHANGED threadvars
    BY <1>16, ThreadsStutter
<1> QED BY <1>1, <1>2, <1>3, <1>4, <1>5, <1>6, <1>7, <1>8, <1>9, <1>10, <1>11, <1>12, <1>13, <1>14, <1>15, <1>16
        DEF ThreadsNext
------------------------------------------------------------------------------
(* What the invariant says of the whole stack *)

\* The last activation of a thread, above which there is none of it.
LEMMA AtLast ==
    ASSUME ThreadsInv, NEW n \in Nat, n = Len(cstack), NEW L, NEW i \in 1..n, cstack[i].th = L
    PROVE  \E j \in 1..n : /\ cstack[j].th = L /\ RecordedAt(cstack, j) /\ \A m \in 1..n : cstack[m].th = L => m <= j
<1>1. PICK s : s = cstack
    OBVIOUS
<1>2. s \in Seq(Activations) /\ n = Len(s)
    BY <1>1, StackOf DEF ThreadsInv
<1>3. PICK j \in i..n : LastOf(s, j) /\ s[j].th = L
    BY <1>1, <1>2, LastExists
<1>4. j \in 1..n
    OBVIOUS
<1>5. RecordedAt(s, j)
    BY <1>1, <1>2, <1>3, <1>4 DEF ThreadsInv, Recorded
<1>6. ASSUME NEW m \in 1..n, s[m].th = L PROVE m <= j
    <2>1. SUFFICES ASSUME m > j PROVE FALSE
        BY <1>4, <1>6
    <2>2. j # n /\ j + 1 \in j..m
        BY <1>4, <2>1
    <2>3. s[j + 1].th # s[j].th
        BY <1>2, <1>3, <2>2 DEF LastOf
    <2>4. s[j + 1].th = s[j].th
        BY <1>1, <1>2, <1>3, <1>4, <1>6, <2>2 DEF ThreadsInv, Pieces
    <2> QED BY <2>3, <2>4
<1> QED BY <1>1, <1>3, <1>4, <1>5, <1>6

LEMMA SoundTypes == ThreadsInv => ThreadsTypeOK
<1> SUFFICES ASSUME ThreadsInv PROVE ThreadsTypeOK
    OBVIOUS
<1>1. ThreadsTyped
    BY DEF ThreadsInv
<1>2. \A i \in DOMAIN cstack : cstack[i].th \in States /\ cstack[i].k \in {"execute", "cfunction", "hook", "try"}
    <2>1. DOMAIN cstack = 1..Len(cstack)
        BY <1>1 DEF ThreadsTyped
    <2>2. \A i \in 1..Len(cstack) : cstack[i] \in Activations
        BY <1>1, StackOf
    <2> QED BY <2>1, <2>2, ActivationKinds DEF Kinds
<1>3. \A L \in States : base_ci[L] \in Seq({"lua", "c"}) /\ Len(base_ci[L]) < size_ci[L]
    BY <1>1 DEF ThreadsTyped
<1> QED BY <1>1, <1>2, <1>3 DEF ThreadsTyped, ThreadsTypeOK

LEMMA SoundCounts == ThreadsInv => CStackCounted
<1> SUFFICES ASSUME ThreadsInv, Alive PROVE CStackCounted
    BY DEF CStackCounted
<1>1. PICK s : s = cstack
    OBVIOUS
<1>2. PICK n \in Nat : n = Len(cstack)
    BY StackOf DEF ThreadsInv
<1>3. PICK L : L = Running
    OBVIOUS
<1>4. /\ s \in Seq(Activations) /\ n = Len(s) /\ n >= 1 /\ n \in 1..n /\ s[n] = Top /\ s[n].th = L /\ L \in States
      /\ DOMAIN s = 1..n
    BY <1>1, <1>2, <1>3, StackOf DEF ThreadsInv, Alive
<1>5. RecordedAt(s, n)
    BY <1>1, <1>2, <1>3, Now DEF Alive
<1>6. nCcalls[L] \in Nat /\ nCcalls[L] <= LimitCCalls /\ LimitCCalls \in Nat
    BY <1>4, OwnValues DEF ThreadsInv
<1>7. Executes = Execs(s, n) /\ (Handling <=> HandlerIn(s, n))
    BY <1>1, <1>4 DEF Executes, Execs, Handling, HandlerIn
<1>8. PICK x \in Nat : x = Execs(s, n)
    <2>1. n \in 0..Len(s)
        BY <1>4
    <2> QED BY <1>4, <2>1, Finite
<1>9. PICK o \in Nat : o = IF IsResume(s[n]) THEN 1 ELSE 0
    OBVIOUS
<1>10. (IF Top.k = "try" /\ Top.by = "resume" THEN 1 ELSE 0) = o
    BY <1>4, <1>9 DEF IsResume
<1>11. nCcalls[L] >= x + o /\ (~HandlerIn(s, n) => nCcalls[L] = x + o)
    BY <1>4, <1>5, <1>8, <1>9 DEF RecordedAt, Counts
<1>12. x <= MaxCCalls + MaxCCalls \div 8
    <2>1. x <= LimitCCalls
        BY <1>6, <1>11
    <2> QED BY <2>1 DEF LimitCCalls
<1> QED BY <1>3, <1>7, <1>8, <1>10, <1>11, <1>12 DEF CStackCounted

LEMMA SoundStacks == ThreadsInv => StacksAgree
<1> SUFFICES ASSUME ThreadsInv, NEW L \in States
             PROVE  /\ \A i, j \in OnStack(L) : \A m \in i..j : m \in OnStack(L)
                    /\ OnStack(L) # {} => status[L] = "ok" \/ Top = TryResume(L)
                    /\ status[L] = "yield" /\ OnStack(L) = {} =>
                         Last(base_ci[L]) = "c" /\ \A i \in 1..(Len(base_ci[L]) - 1) : base_ci[L][i] = "lua"
                    /\ OnStack(L) # {} /\ status[L] = "ok" => Len(base_ci[L]) = Cardinality(FramesRun(L))
    BY DEF StacksAgree
<1>1. PICK s : s = cstack
    OBVIOUS
<1>2. PICK n \in Nat : n = Len(cstack)
    BY StackOf DEF ThreadsInv
<1>3. s \in Seq(Activations) /\ n = Len(s) /\ DOMAIN s = 1..n /\ Pieces(s) /\ \A i \in 1..n : s[i] \in Activations
    BY <1>1, <1>2, StackOf DEF ThreadsInv
<1>4. OnStack(L) = {i \in 1..n : s[i].th = L}
    BY <1>1, <1>3 DEF OnStack
<1>5. \A i, j \in OnStack(L) : \A m \in i..j : m \in OnStack(L)
    <2>1. SUFFICES ASSUME NEW i \in 1..n, NEW j \in 1..n, s[i].th = L, s[j].th = L, NEW m \in i..j PROVE m \in 1..n /\ s[m].th = L
        BY <1>4
    <2>2. m \in 1..n
        OBVIOUS
    <2> QED BY <1>3, <2>1, <2>2 DEF Pieces
<1>6. status[L] = "yield" => Last(base_ci[L]) = "c" /\ \A i \in 1..(Len(base_ci[L]) - 1) : base_ci[L][i] = "lua"
    BY DEF ThreadsInv, Resting, RestingAt, Yielded, Last
<1>7. ASSUME OnStack(L) # {}
      PROVE  /\ status[L] = "ok" \/ Top = TryResume(L)
             /\ status[L] = "ok" => Len(base_ci[L]) = Cardinality(FramesRun(L))
    <2>1. PICK i \in 1..n : s[i].th = L
        BY <1>4, <1>7
    <2>2. PICK j \in 1..n : s[j].th = L /\ RecordedAt(s, j) /\ \A m \in 1..n : s[m].th = L => m <= j
        BY <1>1, <1>2, <2>1, AtLast
    <2>3. status[L] = "ok" \/ Top = TryResume(L)
        <3>1. status[L] = "ok" \/ (j = n /\ IsResume(s[n]))
            BY <1>3, <2>2 DEF RecordedAt
        <3>2. Top = s[n]
            BY <1>1, <1>3 DEF Top, Last
        <3>3. IsResume(s[j]) => s[j] = TryResume(L)
            BY <1>3, <2>2, ActivationKinds
        <3> QED BY <3>1, <3>2, <3>3
    <2>4. status[L] = "ok" => Len(base_ci[L]) = Frames(s, L, j)
        BY <2>2 DEF RecordedAt
    <2>5. FramesRun(L) = FrameSet(s, L, j)
        <3>1. {m \in 1..j : s[m].th = L} = {m \in 1..n : s[m].th = L}
            BY <2>2
        <3> QED BY <1>1, <1>4, <3>1 DEF FramesRun, FrameSet
    <2> QED BY <2>3, <2>4, <2>5 DEF Frames
<1> QED BY <1>5, <1>6, <1>7

LEMMA SoundFlags == ThreadsInv => HooksRestored /\ HandlerIsInnermost
<1> SUFFICES ASSUME ThreadsInv, NEW L \in States, status[L] \in {"ok", "yield"},
                    NEW calls, calls = {i \in OnStack(L) : cstack[i].k = "try" /\ cstack[i].by = "pcall"}
             PROVE  /\ allowhook[L] <=> \A i \in OnStack(L) : cstack[i].k # "hook"
                    /\ errfunc[L] <=> \E i \in calls \ {1} : (\A j \in calls : j <= i) /\ cstack[i - 1].f = "xpcall"
    BY DEF HooksRestored, HandlerIsInnermost
<1>1. PICK s : s = cstack
    OBVIOUS
<1>2. PICK n \in Nat : n = Len(cstack)
    BY StackOf DEF ThreadsInv
<1>3. s \in Seq(Activations) /\ n = Len(s) /\ DOMAIN s = 1..n
    BY <1>1, <1>2, StackOf DEF ThreadsInv
<1>4. OnStack(L) = {i \in 1..n : s[i].th = L} /\ calls = {i \in 1..n : PcallOf(s, L, i)}
    BY <1>1, <1>3 DEF OnStack, PcallOf, IsPcall
<1>5. CASE OnStack(L) = {}
    <2>1. Absent(cstack, L)
        BY <1>1, <1>3, <1>4, <1>5 DEF Absent
    <2>2. allowhook[L] /\ ~errfunc[L]
        BY <2>1 DEF ThreadsInv, Resting, RestingAt
    <2>3. calls = {}
        BY <1>4, <1>5 DEF PcallOf
    <2> QED BY <1>5, <2>2, <2>3
<1>6. CASE OnStack(L) # {}
    <2>1. PICK i \in 1..n : s[i].th = L
        BY <1>4, <1>6
    <2>2. PICK j \in 1..n : s[j].th = L /\ RecordedAt(s, j) /\ \A m \in 1..n : s[m].th = L => m <= j
        BY <1>1, <1>2, <2>1, AtLast
    <2>3. (allowhook[L] <=> ~HookIn(s, L, j)) /\ (errfunc[L] <=> Handled(s, L, j))
        BY <2>2 DEF RecordedAt, Flags
    <2>4. HookIn(s, L, j) <=> \E m \in OnStack(L) : s[m].k = "hook"
        BY <1>4, <2>2 DEF HookIn
    <2>5. Handled(s, L, j) <=> \E m \in calls \ {1} : (\A k \in calls : k <= m) /\ s[m - 1].f = "xpcall"
        <3>1. calls \ {1} = {m \in 2..j : PcallOf(s, L, m)}
            BY <1>4, <2>2 DEF PcallOf
        <3>2. \A m \in 2..j : (\A k \in calls : k <= m) <=> \A k \in 2..j : PcallOf(s, L, k) => k <= m
            BY <1>4, <3>1
        <3>3. Handled(s, L, j) <=> \E m \in {k \in 2..j : PcallOf(s, L, k)} :
                                      (\A k \in 2..j : PcallOf(s, L, k) => k <= m) /\ s[m - 1].f = "xpcall"
            BY DEF Handled
        <3> QED BY <3>1, <3>2, <3>3
    <2> QED BY <1>1, <2>3, <2>4, <2>5
<1> QED BY <1>5, <1>6

\* What each coroutine records of itself (frames, nCcalls, allowhook, errfunc) agrees with the C stack
\* that they share, after whatever calls, errors, resumes and yields (ldo.c:371-477): entries into
\* luaV_execute are counted across coroutines and bounded, no error, yield or hook leaves a count, a
\* frame, a forbidden hook or a foreign error handler behind.
THEOREM ThreadsAreSound == ThreadsSpec => []ThreadsSound
<1>1. ThreadsInv => ThreadsSound
    BY SoundTypes, SoundCounts, SoundStacks, SoundFlags DEF ThreadsSound
<1> QED BY <1>1, ThreadsInitInv, ThreadsNextInv, PTL DEF ThreadsSpec
=============================================================================
