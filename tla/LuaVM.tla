-------------------------------- MODULE LuaVM --------------------------------
(***************************************************************************)
(* The virtual machine of the bundled Lua (luaV_execute, with the calls of *)
(* ldo.c and the upvalues of lfunc.c) over what the parser and the code    *)
(* generator make of a program, one instruction a step, against what the   *)
(* program means (LuaEval). Register r of the running function is          *)
(* stack[base + r]; top is the first slot after the values in use.         *)
(***************************************************************************)
EXTENDS LuaParser, LuaEval
LOCAL INSTANCE SequencesExt
LOCAL INSTANCE TLC

CONSTANTS
    Programs,       \* sources, as blocks of LuaParser
    StackSize       \* slots of the stack (LUAI_MAXCSTACK): enough for Programs

VARIABLES
    main,       \* the compiled program
    meaning,    \* what it means: the trace and the outcome
    stack, top, frames, upvals, closures, tables, globals,
    trace, outcome

codevars == <<main, meaning, stack, top, frames, upvals, closures, tables, globals, trace, outcome>>
memory == <<upvals, closures, tables, globals>>

Frame == Last(frames)
RECURSIVE ProtoAt(_, _)
ProtoAt(p, path) == IF path = <<>> THEN p ELSE ProtoAt(p.p[Head(path)], Tail(path))
Cl == closures[Frame.cl]
P == ProtoAt(main, Cl.p)
I == P.code[Frame.pc + 1]
RA == Frame.base + I.a
R(r) == stack[Frame.base + r]
RK(x) == IF x >= BitRK THEN P.k[x - BitRK + 1] ELSE R(x)
Executing(ops) == outcome = "running" /\ I.op \in ops
Now(op) == Executing({op})

\* The values vs put into st from slot on.
Put(st, slot, vs) == [i \in DOMAIN st |-> IF i >= slot /\ i < slot + Len(vs) THEN vs[i - slot + 1] ELSE st[i]]
Nils(n) == [i \in 1 .. n |-> Nil]
Goes(d) == frames' = [frames EXCEPT ![Len(frames)].pc = @ + 1 + d]
Unchanged == UNCHANGED <<main, meaning>>

\* An instruction that gives register A the value v (and skips d), one that only jumps, an error.
Sets(v, d) ==
    /\ stack' = [stack EXCEPT ![RA] = v]
    /\ Goes(d)
    /\ UNCHANGED <<top, memory, trace, outcome>> /\ Unchanged
JumpsBy(d) == Goes(d) /\ UNCHANGED <<stack, top, memory, trace, outcome>> /\ Unchanged
Fails == outcome' = "error" /\ UNCHANGED <<stack, top, frames, memory, trace>> /\ Unchanged

------------------------------------------------------------------------------
(* Moves, variables and tables. *)

OP_MOVE == Now("MOVE") /\ Sets(R(I.b), 0)
OP_LOADK == Now("LOADK") /\ Sets(P.k[I.b + 1], 0)
OP_LOADBOOL == Now("LOADBOOL") /\ Sets(Bool(I.b = 1), I.c)
OP_LOADNIL ==
    /\ Now("LOADNIL")
    /\ stack' = Put(stack, RA, Nils(I.b - I.a + 1))
    /\ Goes(0) /\ UNCHANGED <<top, memory, trace, outcome>> /\ Unchanged

IsOpen(u) == u.slot > 0
ValueOf(u) == IF IsOpen(u) THEN stack[u.slot] ELSE u.v
OP_GETUPVAL == Now("GETUPVAL") /\ Sets(ValueOf(upvals[Cl.upvals[I.b + 1]]), 0)
OP_SETUPVAL ==
    LET u == Cl.upvals[I.b + 1]
    IN  /\ Now("SETUPVAL")
        /\ IF IsOpen(upvals[u]) THEN stack' = [stack EXCEPT ![upvals[u].slot] = R(I.a)] /\ UNCHANGED upvals
           ELSE upvals' = [upvals EXCEPT ![u].v = R(I.a)] /\ UNCHANGED stack
        /\ Goes(0) /\ UNCHANGED <<top, closures, tables, globals, trace, outcome>> /\ Unchanged

OP_GETGLOBAL == Now("GETGLOBAL") /\ Sets(Get1(globals, P.k[I.b + 1][2][1]), 0)
OP_SETGLOBAL ==
    /\ Now("SETGLOBAL")
    /\ globals' = Set1(globals, P.k[I.b + 1][2][1], R(I.a))
    /\ Goes(0) /\ UNCHANGED <<stack, top, upvals, closures, tables, trace, outcome>> /\ Unchanged

\* luaV_gettable and luaV_settable without metatables
OP_GETTABLE ==
    /\ Now("GETTABLE")
    /\ IF IsTable(R(I.b)) THEN Sets(Get1(tables[R(I.b)[2]], RK(I.c)), 0) ELSE Fails
OP_SETTABLE ==
    /\ Now("SETTABLE")
    /\ IF ~IsTable(R(I.a)) \/ RK(I.b) = Nil THEN Fails
       ELSE /\ tables' = [tables EXCEPT ![R(I.a)[2]] = Set1(@, RK(I.b), RK(I.c))]
            /\ Goes(0) /\ UNCHANGED <<stack, top, upvals, closures, globals, trace, outcome>> /\ Unchanged
OP_NEWTABLE ==
    /\ Now("NEWTABLE")
    /\ tables' = Append(tables, <<>>)
    /\ stack' = [stack EXCEPT ![RA] = <<"table", Len(tables) + 1>>]
    /\ Goes(0) /\ UNCHANGED <<top, upvals, closures, globals, trace, outcome>> /\ Unchanged
OP_SELF ==
    /\ Now("SELF")
    /\ IF ~IsTable(R(I.b)) THEN Fails
       ELSE /\ stack' = [stack EXCEPT ![RA + 1] = R(I.b), ![RA] = Get1(tables[R(I.b)[2]], RK(I.c))]
            /\ Goes(0) /\ UNCHANGED <<top, memory, trace, outcome>> /\ Unchanged

\* B = 0: up to top, which an open call before left there.
OP_SETLIST ==
    LET n == IF I.b = 0 THEN top - RA - 1 ELSE I.b
        t == R(I.a)[2]
        last == (I.c - 1) * FieldsPerFlush
    IN  /\ Now("SETLIST")
        /\ tables' = [tables EXCEPT ![t] = FoldLeft(LAMBDA m, i : Set1(m, LuaNumber(last + i), stack[RA + i]), @,
                                                    [i \in 1 .. n |-> i])]
        /\ top' = IF I.b = 0 THEN Frame.top ELSE top
        /\ Goes(0) /\ UNCHANGED <<stack, upvals, closures, globals, trace, outcome>> /\ Unchanged

------------------------------------------------------------------------------
(* Operators and conditions. Metamethods and conversions of strings to numbers are not modelled. *)

Arithmetic == {"ADD", "SUB", "MUL", "DIV", "MOD", "POW"}
Arith ==
    LET b == RK(I.b)
        c == RK(I.c)
    IN  /\ Executing(Arithmetic)
        /\ IF ~(IsNum(b) /\ IsNum(c)) THEN Fails
           ELSE Sets(IF I.op \in {"DIV", "MOD"} /\ c[2] = 0 THEN <<"huge">> ELSE LuaNumber(NumberOp(I.op, b[2], c[2])), 0)
OP_UNM == Now("UNM") /\ IF IsNum(R(I.b)) THEN Sets(LuaNumber(-R(I.b)[2]), 0) ELSE Fails
OP_NOT == Now("NOT") /\ Sets(Bool(~Truth(R(I.b))), 0)
OP_LEN ==
    LET v == R(I.b)
    IN  /\ Now("LEN")
        /\ IF IsTable(v) THEN Sets(LuaNumber(Border(tables[v[2]])), 0)
           ELSE IF IsStr(v) THEN Sets(LuaNumber(Len(v[2])), 0) ELSE Fails
\* luaV_concat of registers B to C, the result in B and in A
OP_CONCAT ==
    LET vs == [i \in 1 .. I.c - I.b + 1 |-> R(I.b + i - 1)]
        all == <<"str", FoldLeft(LAMBDA x, v : x \o Text(v), <<>>, vs)>>
    IN  /\ Now("CONCAT")
        /\ IF \E i \in DOMAIN vs : ~(IsNum(vs[i]) \/ IsStr(vs[i])) THEN Fails
           ELSE /\ stack' = [stack EXCEPT ![Frame.base + I.b] = all, ![RA] = all]
                /\ Goes(0) /\ UNCHANGED <<top, memory, trace, outcome>> /\ Unchanged

OP_JMP == Now("JMP") /\ JumpsBy(I.b)
\* The jump that follows a test is taken as a part of it.
Tests(c) == JumpsBy(IF c THEN 1 + P.code[Frame.pc + 2].b ELSE 1)
OP_EQ == Now("EQ") /\ Tests((RK(I.b) = RK(I.c)) <=> (I.a = 1))
OP_LESS ==
    LET b == RK(I.b)
        c == RK(I.c)
    IN  /\ Executing({"LT", "LE"})
        /\ IF ~(IsNum(b) /\ IsNum(c)) THEN Fails
           ELSE Tests((IF I.op = "LT" THEN b[2] < c[2] ELSE b[2] <= c[2]) <=> (I.a = 1))
OP_TEST == Now("TEST") /\ Tests(Truth(R(I.a)) <=> (I.c = 1))
OP_TESTSET ==
    /\ Now("TESTSET")
    /\ IF Truth(R(I.b)) <=> (I.c = 1) THEN Sets(R(I.b), 1 + P.code[Frame.pc + 2].b) ELSE JumpsBy(1)

------------------------------------------------------------------------------
(* Calls. *)

\* luaD_poscall: results vs go where the function was; top of the caller, if it wanted a fixed number.
Returned(st, func, vs, wanted) ==
    Put(st, func, IF wanted = MultRet THEN vs ELSE [i \in 1 .. wanted |-> Nth(vs, i)])

\* adjust_varargs: the parameters move above the arguments; arg gets those that are left.
adjust_varargs(p, func, args) ==
    LET n == IF Len(args) < p.numparams THEN p.numparams ELSE Len(args)
        all == [i \in 1 .. n |-> Nth(args, i)]
        fixed == SubSeq(all, 1, p.numparams)
        rest == SubSeq(all, p.numparams + 1, n)
        st == Put(Put(stack, func + 1, Nils(p.numparams) \o rest), func + n + 1, fixed)
        argt == [k \in {LuaNumber(i) : i \in DOMAIN rest} \cup {<<"str", <<"n">>>>} |->
                    IF IsNum(k) THEN rest[k[2]] ELSE LuaNumber(Len(rest))]
    IN  [base |-> func + n + 1, arg |-> argt, needs |-> "needsarg" \in p.vararg,
         st |-> IF "needsarg" \in p.vararg
                THEN [st EXCEPT ![func + n + 1 + p.numparams] = <<"table", Len(tables) + 1>>] ELSE st]

\* luaD_precall of a Lua function: the frame it gets, with all other registers nil.
Entered(func, args, nresults) ==
    LET p == ProtoAt(main, closures[stack[func][2]].p)
        fixed == [base |-> func + 1, needs |-> FALSE, arg |-> <<>>,
                  st |-> Put(stack, func + 1, [i \in 1 .. p.numparams |-> Nth(args, i)])]
        v == IF p.vararg = {} THEN fixed ELSE adjust_varargs(p, func, args)
        used == p.numparams + IF v.needs THEN 1 ELSE 0
    IN  [frame |-> [cl |-> stack[func][2], func |-> func, base |-> v.base, pc |-> 0,
                    top |-> v.base + p.maxstack, nresults |-> nresults],
         st |-> Put(v.st, v.base + used, Nils(p.maxstack - used)),
         tables |-> IF v.needs THEN Append(tables, v.arg) ELSE tables]

\* Slots of a function and its arguments; results come back to where it was.
CallOf(func, args, nresults) ==
    LET f == stack[func]
        r == Native([tables |-> tables, trace |-> trace, err |-> FALSE], f[2], args)
        e == Entered(func, args, nresults)
    IN  CASE f[1] = "native" ->
               /\ stack' = Returned(stack, func, r.v, nresults)
               /\ top' = IF nresults = MultRet THEN func + Len(r.v) ELSE Frame.top
               /\ trace' = r.s.trace
               /\ Goes(0) /\ UNCHANGED <<memory, outcome>> /\ Unchanged
          [] f[1] = "function" ->
               /\ stack' = e.st
               /\ top' = e.frame.top
               /\ frames' = Append([frames EXCEPT ![Len(frames)].pc = @ + 1], e.frame)
               /\ tables' = e.tables
               /\ UNCHANGED <<upvals, closures, globals, trace, outcome>> /\ Unchanged
          [] OTHER -> Fails

ArgsTop == IF I.b # 0 THEN RA + I.b ELSE top
Args == SubSeq(stack, RA + 1, ArgsTop - 1)
OP_CALL == Now("CALL") /\ CallOf(RA, Args, I.c - 1)

UpvalsClosed(level) ==
    [i \in DOMAIN upvals |-> IF upvals[i].slot >= level /\ IsOpen(upvals[i])
                             THEN [slot |-> 0, v |-> stack[upvals[i].slot]] ELSE upvals[i]]

\* The frame of a function that is called last takes the place of its caller's.
InPlaceOfKeepsTop(frame, old) ==
    LET d == frame.func - old.func
    IN  [frame EXCEPT !.func = @ - d, !.base = @ - d, !.nresults = old.nresults]
InPlaceOf(frame, old) ==
    LET d == frame.func - old.func
    IN  [frame EXCEPT !.func = @ - d, !.base = @ - d, !.top = @ - d, !.nresults = old.nresults]
OP_TAILCALL ==
    LET e == Entered(RA, Args, MultRet)
        moved == SubSeq(e.st, RA, e.frame.top - 1)
    IN  /\ Now("TAILCALL")
        /\ IF stack[RA][1] # "function" THEN CallOf(RA, Args, MultRet)
           ELSE /\ stack' = Put(e.st, Frame.func, moved)
                /\ frames' = [frames EXCEPT ![Len(frames)] = InPlaceOf(e.frame, @)]
                /\ top' = e.frame.top - (RA - Frame.func)
                /\ upvals' = UpvalsClosed(Frame.base)
                /\ tables' = e.tables
                /\ UNCHANGED <<closures, globals, trace, outcome>> /\ Unchanged

OP_RETURN ==
    LET vs == SubSeq(stack, RA, (IF I.b # 0 THEN RA + I.b - 1 ELSE top) - 1)
        caller == frames[Len(frames) - 1]
    IN  /\ Now("RETURN")
        /\ upvals' = UpvalsClosed(Frame.base)
        /\ frames' = Front(frames)
        /\ IF Len(frames) = 1
           THEN /\ trace' = Append(trace, [i \in DOMAIN vs |-> Shown(vs[i])])
                /\ outcome' = "done"
                /\ UNCHANGED <<stack, top>>
           ELSE /\ stack' = Returned(stack, Frame.func, vs, Frame.nresults)
                /\ top' = IF Frame.nresults = MultRet THEN Frame.func + Len(vs) ELSE caller.top
                /\ UNCHANGED <<trace, outcome>>
        /\ UNCHANGED <<closures, tables, globals>> /\ Unchanged

OP_VARARG ==
    LET n == Frame.base - Frame.func - P.numparams - 1
        b == IF I.b = 0 THEN n ELSE I.b - 1
        from == Frame.base - n
    IN  /\ Now("VARARG")
        /\ stack' = Put(stack, RA, [j \in 1 .. b |-> IF j <= n THEN stack[from + j - 1] ELSE Nil])
        /\ top' = IF I.b = 0 THEN RA + n ELSE top
        /\ Goes(0) /\ UNCHANGED <<memory, trace, outcome>> /\ Unchanged

------------------------------------------------------------------------------
(* Loops and closures. *)

OP_FORPREP ==
    /\ Now("FORPREP")
    /\ IF \E i \in 0 .. 2 : ~IsNum(R(I.a + i)) THEN Fails
       ELSE Sets(LuaNumber(R(I.a)[2] - R(I.a + 2)[2]), I.b)
OP_FORLOOP ==
    LET step == R(I.a + 2)[2]
        idx == R(I.a)[2] + step
        limit == R(I.a + 1)[2]
    IN  /\ Now("FORLOOP")
        /\ IF IF step > 0 THEN idx <= limit ELSE limit <= idx
           THEN /\ stack' = [stack EXCEPT ![RA] = LuaNumber(idx), ![RA + 3] = LuaNumber(idx)]
                /\ Goes(I.b) /\ UNCHANGED <<top, memory, trace, outcome>> /\ Unchanged
           ELSE JumpsBy(0)

\* The generator is a native function here; luaD_call of it runs within the instruction.
OP_TFORLOOP ==
    LET r == Native([tables |-> tables, trace |-> trace, err |-> FALSE], R(I.a)[2], <<R(I.a + 1), R(I.a + 2)>>)
        vs == [i \in 1 .. I.c |-> Nth(r.v, i)]
        st == Put(stack, RA + 3, vs)
    IN  /\ Now("TFORLOOP")
        /\ IF R(I.a)[1] # "native" THEN Fails
           ELSE /\ stack' = IF vs[1] # Nil THEN Put(st, RA + 2, <<vs[1]>>) ELSE st
                /\ Goes(IF vs[1] # Nil THEN 1 + P.code[Frame.pc + 2].b ELSE 1)
                /\ trace' = r.s.trace
                /\ top' = Frame.top
                /\ UNCHANGED <<memory, outcome>> /\ Unchanged

OP_CLOSE ==
    /\ Now("CLOSE")
    /\ upvals' = UpvalsClosed(RA)
    /\ Goes(0) /\ UNCHANGED <<stack, top, closures, tables, globals, trace, outcome>> /\ Unchanged

\* The open upvalue of a slot, if there is one: closures that name the same variable share it.
luaF_findupval(us, slot) == {i \in DOMAIN us : us[i].slot = slot}
\* The pseudo instructions that follow say whose variables the closure uses.
OP_CLOSURE ==
    LET path == Append(Cl.p, I.b + 1)
        uses == SubSeq(P.code, Frame.pc + 2, Frame.pc + 1 + ProtoAt(main, path).nups)
        find(x, u) ==
            LET slot == Frame.base + u.b
            IN  IF u.op = "GETUPVAL" THEN [x EXCEPT !.ids = Append(@, Cl.upvals[u.b + 1])]
                ELSE IF luaF_findupval(x.us, slot) # {}
                     THEN [x EXCEPT !.ids = Append(@, CHOOSE i \in luaF_findupval(x.us, slot) : TRUE)]
                ELSE [us |-> Append(x.us, [slot |-> slot, v |-> Nil]), ids |-> Append(x.ids, Len(x.us) + 1)]
        f == FoldLeft(find, [us |-> upvals, ids |-> <<>>], uses)
    IN  /\ Now("CLOSURE")
        /\ upvals' = f.us
        /\ closures' = Append(closures, [p |-> path, upvals |-> f.ids])
        /\ stack' = [stack EXCEPT ![RA] = <<"function", Len(closures) + 1>>]
        /\ Goes(Len(uses)) /\ UNCHANGED <<top, tables, globals, trace, outcome>> /\ Unchanged

------------------------------------------------------------------------------
(* luaG_checkcode: the checker of ldebug.c for code that was compiled or loaded. *)

\* Modes of the operands B and C: none, used, register, register or constant; for a Bx, constant or used.
OperandModes ==
    LET m(ops, b, c) == [op \in ops |-> <<b, c>>]
    IN  [op \in {"MOVE", "LOADNIL", "UNM", "NOT", "LEN", "JMP", "FORLOOP", "FORPREP"} |-> <<"R", "N">>]
          @@ m({"LOADK", "GETGLOBAL", "SETGLOBAL"}, "K", "N")
          @@ m({"LOADBOOL", "NEWTABLE", "CALL", "TAILCALL", "SETLIST"}, "U", "U")
          @@ m({"GETUPVAL", "SETUPVAL", "RETURN", "CLOSURE", "VARARG"}, "U", "N")
          @@ m({"GETTABLE", "SELF"}, "R", "K") @@ m({"SETTABLE", "EQ", "LT", "LE"} \cup Arithmetic, "K", "K")
          @@ m({"CONCAT"}, "R", "R") @@ m({"TEST", "TESTSET"}, "R", "U") @@ m({"TFORLOOP"}, "N", "U")
          @@ m({"CLOSE"}, "N", "N")
Jumping == {"JMP", "FORLOOP", "FORPREP"}
luaG_checkopenop(i) == i.op \in {"CALL", "TAILCALL", "RETURN", "SETLIST"} /\ i.b = 0

checkArgMode(p, r, mode) ==
    CASE mode = "N" -> r = 0 [] mode = "U" -> TRUE [] mode = "R" -> r < p.maxstack
      [] mode = "K" -> IF r >= BitRK THEN r - BitRK < Len(p.k) ELSE r < p.maxstack

precheck(p) ==
    /\ p.maxstack <= 250
    /\ p.numparams + (IF "hasarg" \in p.vararg THEN 1 ELSE 0) <= p.maxstack
    /\ "needsarg" \in p.vararg => "hasarg" \in p.vararg
    /\ p.code # <<>> /\ Last(p.code).op = "RETURN"

\* One instruction, at pc. The last one of the code is not looked at.
symbexec(p, pc) ==
    LET i == p.code[pc + 1]
        reg(r) == r < p.maxstack
        next == p.code[pc + 2]
        within(dest) == dest >= 0 /\ dest < Len(p.code)
    IN  /\ reg(i.a)
        /\ IF i.op \in Jumping THEN within(pc + 1 + i.b)
           ELSE IF i.op \in {"LOADK", "GETGLOBAL", "SETGLOBAL"} THEN i.b < Len(p.k)
           ELSE checkArgMode(p, i.b, OperandModes[i.op][1]) /\ checkArgMode(p, i.c, OperandModes[i.op][2])
        /\ i.op \in TestModes => within(pc + 2) /\ next.op = "JMP"
        /\ CASE i.op = "LOADBOOL" -> i.c = 1 => within(pc + 2)
             [] i.op \in {"GETUPVAL", "SETUPVAL"} -> i.b < p.nups
             [] i.op \in {"GETGLOBAL", "SETGLOBAL"} -> p.k[i.b + 1][1] = "str"
             [] i.op = "SELF" -> reg(i.a + 1)
             [] i.op = "CONCAT" -> i.b < i.c
             [] i.op = "TFORLOOP" -> i.c >= 1 /\ reg(i.a + 2 + i.c)
             [] i.op \in {"FORLOOP", "FORPREP"} -> reg(i.a + 3)
             [] i.op \in {"CALL", "TAILCALL"} ->
                  /\ i.b # 0 => reg(i.a + i.b - 1)
                  /\ IF i.c = 0 THEN luaG_checkopenop(next) ELSE i.c > 1 => reg(i.a + i.c - 2)
             [] i.op = "RETURN" -> i.b > 1 => reg(i.a + i.b - 2)
             [] i.op = "SETLIST" -> i.b > 0 => reg(i.a + i.b)
             [] i.op = "CLOSURE" ->
                  /\ i.b < Len(p.p) /\ within(pc + p.p[i.b + 1].nups)
                  /\ \A j \in 1 .. p.p[i.b + 1].nups : p.code[pc + 1 + j].op \in {"GETUPVAL", "MOVE"}
             [] i.op = "VARARG" ->
                  /\ "isvararg" \in p.vararg /\ "needsarg" \notin p.vararg
                  /\ i.b = 0 => luaG_checkopenop(next)
                  /\ reg(i.a + i.b - 2)
             [] OTHER -> TRUE
luaG_checkcode(p) == precheck(p) /\ \A pc \in 0 .. Len(p.code) - 1 : symbexec(p, pc)

------------------------------------------------------------------------------
CodeStarts(b) ==
    /\ main = luaY_parser(b)
    /\ meaning = Meaning(b)
    /\ stack = Put(Nils(StackSize), 1, <<<<"function", 1>>>>)
    /\ top = 2 + main.maxstack
    /\ frames = <<[cl |-> 1, func |-> 1, base |-> 2, pc |-> 0, top |-> 2 + main.maxstack, nresults |-> MultRet]>>
    /\ closures = <<[p |-> <<>>, upvals |-> <<>>]>>
    /\ upvals = <<>> /\ tables = <<>> /\ globals = Natives /\ trace = <<>> /\ outcome = "running"

CodeInit == \E b \in Programs : CodeStarts(b)

CodeNext ==
    \/ OP_MOVE \/ OP_LOADK \/ OP_LOADBOOL \/ OP_LOADNIL \/ OP_GETUPVAL \/ OP_SETUPVAL \/ OP_GETGLOBAL \/ OP_SETGLOBAL
    \/ OP_GETTABLE \/ OP_SETTABLE \/ OP_NEWTABLE \/ OP_SELF \/ OP_SETLIST \/ Arith \/ OP_UNM \/ OP_NOT \/ OP_LEN
    \/ OP_CONCAT \/ OP_JMP \/ OP_EQ \/ OP_LESS \/ OP_TEST \/ OP_TESTSET \/ OP_CALL \/ OP_TAILCALL \/ OP_RETURN
    \/ OP_VARARG \/ OP_FORPREP \/ OP_FORLOOP \/ OP_TFORLOOP \/ OP_CLOSE \/ OP_CLOSURE

CodeSpec == CodeInit /\ [][CodeNext]_codevars

------------------------------------------------------------------------------
(* Properties. *)

\* Slots hold values, frames lie on the stack in order, closures name their upvalues. What luaV_execute relies on.
CodeTypeOK ==
    /\ outcome \in {"running", "done", "error"}
    /\ Len(stack) = StackSize /\ top \in 1 .. StackSize + 1
    /\ \A i \in DOMAIN stack : stack[i][1] \in {"nil", "bool", "num", "huge", "str", "table", "function", "native"}
    /\ \A i \in DOMAIN frames :
        /\ frames[i].func < frames[i].base
        /\ frames[i].top <= StackSize + 1
        /\ frames[i].top = frames[i].base + ProtoAt(main, closures[frames[i].cl].p).maxstack
        /\ i > 1 => frames[i].func >= frames[i - 1].base
    /\ \A i \in DOMAIN closures : \A j \in DOMAIN closures[i].upvals : closures[i].upvals[j] \in DOMAIN upvals

\* The program does what it means: what it has done so far is how its meaning begins, and it ends as that ends.
\* Registers, jump lists, closed upvalues and folded constants (lcode.c, lparser.c) leave no trace of their own.
DoesWhatItMeans ==
    /\ IsPrefix(trace, meaning.trace)
    /\ outcome # "running" => trace = meaning.trace /\ outcome = meaning.outcome

RECURSIVE ProtosOf(_)
ProtosOf(p) == {p} \cup UNION {ProtosOf(p.p[i]) : i \in DOMAIN p.p}
\* The parser's assertions on registers, jumps and blocks hold, and the checker of ldebug.c accepts what it compiled.
CodeIsAccepted == \A p \in ProtosOf(main) : p.sound /\ luaG_checkcode(p)

\* The assertion of the main loop (lvm.c:399): top is the frame's unless the next instruction takes what
\* an open call left.
TopIsTheFrames == outcome = "running" => top = Frame.top \/ luaG_checkopenop(I)

\* An open upvalue is the variable of one slot in use by a call that has not returned, and no two are the same slot.
OpenUpvaluesLive ==
    \A i \in DOMAIN upvals :
        IsOpen(upvals[i]) /\ outcome = "running" =>
            /\ upvals[i].slot >= frames[1].base /\ upvals[i].slot < Frame.top
            /\ \A j \in DOMAIN upvals : upvals[j].slot = upvals[i].slot => i = j
=============================================================================
