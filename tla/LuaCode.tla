------------------------------- MODULE LuaCode -------------------------------
(***************************************************************************)
(* The code generator of the bundled Lua (lcode.c). A FuncState is a       *)
(* record that every operator takes and returns; its field e is the        *)
(* expression descriptor in hand (the expdesc that the C functions get a   *)
(* pointer to), code the instructions so far (pc is their number), jpc the *)
(* list of jumps that wait for the next instruction. Instructions carry    *)
(* the operand sBx or Bx in b. The lua_asserts on the way are collected in *)
(* the field sound.                                                        *)
(***************************************************************************)
EXTENDS Integers, Sequences
LOCAL INSTANCE SequencesExt

CONSTANTS
    MaxIndexRK,         \* MAXINDEXRK: the last constant an operand can name
    FieldsPerFlush      \* LFIELDS_PER_FLUSH

ASSUME CodeAssumption == MaxIndexRK \in 0 .. 255 /\ FieldsPerFlush \in Nat \ {0}

NoJump == -1
NoReg == 255
BitRK == 256
MultRet == -1

Instr(op, a, b, c) == [op |-> op, a |-> a, b |-> b, c |-> c]
\* init_exp. The number of a VKNUM is in info.
Exp(k, info) == [k |-> k, info |-> info, aux |-> 0, t |-> NoJump, f |-> NoJump]
Void == Exp("VVOID", 0)
hasjumps(e) == e.t # e.f
isnumeral(e) == e.k = "VKNUM" /\ e.t = NoJump /\ e.f = NoJump
hasmultret(k) == k \in {"VCALL", "VVARARG"}

Hold(s, e) == [s EXCEPT !.e = e]
Pc(s) == Len(s.code)
At(s, pc) == s.code[pc + 1]
Asserted(s, c) == [s EXCEPT !.sound = @ /\ c]
\* The instruction just coded is to get its register later (or it jumps, "VJMP").
Pending(s, k, e) == Hold(s, [e EXCEPT !.k = k, !.info = Pc(s) - 1])

\* The operator named by c[1], of s and of the rest of c: calls go through here, so that what TLC unfolds stays small.
RECURSIVE Gen(_, _)

------------------------------------------------------------------------------
(* Lists of jumps, linked through their offsets. *)

fixjump(s, pc, dest) == [Asserted(s, dest # NoJump) EXCEPT !.code[pc + 1].b = dest - (pc + 1)]
luaK_getlabel(s) == [s EXCEPT !.lasttarget = Pc(s)]
getjump(s, pc) == IF At(s, pc).b = NoJump THEN NoJump ELSE pc + 1 + At(s, pc).b

RECURSIVE Jumps(_, _)
Jumps(s, list) == IF list = NoJump THEN <<>> ELSE <<list>> \o Jumps(s, getjump(s, list))

TestModes == {"EQ", "LT", "LE", "TEST", "TESTSET", "TFORLOOP"}
getjumpcontrol(s, pc) == IF pc >= 1 /\ At(s, pc - 1).op \in TestModes THEN pc - 1 ELSE pc
TestSets(s, pc) == At(s, getjumpcontrol(s, pc)).op = "TESTSET"
need_value(s, list) == \E i \in DOMAIN Jumps(s, list) : ~TestSets(s, Jumps(s, list)[i])

patchtestreg(s, node, reg) ==
    LET c == getjumpcontrol(s, node)
        i == At(s, c)
    IN  IF ~TestSets(s, node) THEN s
        ELSE IF reg \notin {NoReg, i.b} THEN [s EXCEPT !.code[c + 1].a = reg]
        ELSE [s EXCEPT !.code[c + 1] = Instr("TEST", i.b, 0, i.c)]

removevalues(s, list) == FoldLeft(LAMBDA x, j : patchtestreg(x, j, NoReg), s, Jumps(s, list))

patchlistaux(s, list, vtarget, reg, dtarget) ==
    FoldLeft(LAMBDA x, j : fixjump(patchtestreg(x, j, reg), j, IF TestSets(x, j) THEN vtarget ELSE dtarget),
             s, Jumps(s, list))

dischargejpc(s) == [Gen(s, <<"patchlistaux", s.jpc, Pc(s), NoReg, Pc(s)>>) EXCEPT !.jpc = NoJump]
luaK_code(s, op, a, b, c) == [dischargejpc(s) EXCEPT !.code = Append(@, Instr(op, a, b, c))]

\* luaK_concat of l2 to l1: the head of the list, and the code with the link.
Joined(l1, l2) == IF l1 = NoJump THEN l2 ELSE l1
luaK_concat(s, l1, l2) ==
    IF NoJump \in {l1, l2} THEN s ELSE fixjump(s, Last(Jumps(s, l1)), l2)

luaK_patchtohere(s, list) ==
    LET g == luaK_getlabel(s) IN [Gen(g, <<"luaK_concat", g.jpc, list>>) EXCEPT !.jpc = Joined(g.jpc, list)]
luaK_patchlist(s, list, target) ==
    IF target = Pc(s) THEN Gen(s, <<"luaK_patchtohere", list>>)
    ELSE Asserted(Gen(s, <<"patchlistaux", list, target, NoReg, target>>), target < Pc(s))

\* The jumps that wait for this instruction go on to where it will jump.
luaK_jump(s) == Gen(Gen([s EXCEPT !.jpc = NoJump], <<"luaK_code", "JMP", 0, NoJump, 0>>), <<"luaK_concat", Pc(s), s.jpc>>)
condjump(s, op, a, b, c) == Gen(Gen(s, <<"luaK_code", op, a, b, c>>), <<"luaK_jump">>)
luaK_ret(s, first, nret) == Gen(s, <<"luaK_code", "RETURN", first, nret + 1, 0>>)

\* LOADNIL of n registers, joined to a LOADNIL before it unless a jump may land in between.
luaK_nil(s, from, n) ==
    LET p == At(s, Pc(s) - 1)
    IN  IF Pc(s) > s.lasttarget /\ Pc(s) = 0 /\ from >= s.nactvar THEN s
        ELSE IF Pc(s) > s.lasttarget /\ Pc(s) > 0 /\ p.op = "LOADNIL" /\ p.a <= from /\ from <= p.b + 1
        THEN IF from + n - 1 > p.b THEN [s EXCEPT !.code[Pc(s)].b = from + n - 1] ELSE s
        ELSE Gen(s, <<"luaK_code", "LOADNIL", from, from + n - 1, 0>>)

------------------------------------------------------------------------------
(* Registers and constants. *)

luaK_checkstack(s, n) == [s EXCEPT !.maxstack = IF s.freereg + n > @ THEN s.freereg + n ELSE @]
luaK_reserveregs(s, n) == [luaK_checkstack(s, n) EXCEPT !.freereg = @ + n]
freereg(s, reg) ==
    IF reg < BitRK /\ reg >= s.nactvar
    THEN Asserted([s EXCEPT !.freereg = @ - 1], reg = s.freereg - 1) ELSE s
freeexp(s, e) == IF e.k = "VNONRELOC" THEN freereg(s, e.info) ELSE s

addk(s, v) == IF Contains(s.k, v) THEN s ELSE [s EXCEPT !.k = Append(@, v)]
KIndex(s, v) == SelectInSeq(s.k, LAMBDA x : x = v) - 1
ConstantOf(e) ==
    CASE e.k = "VKNUM" -> <<"num", e.info>> [] e.k = "VNIL" -> <<"nil">> [] OTHER -> <<"bool", e.k = "VTRUE">>

luaK_setreturns(s, nresults) ==
    CASE s.e.k = "VCALL" -> [s EXCEPT !.code[s.e.info + 1].c = nresults + 1]
      [] s.e.k = "VVARARG" -> luaK_reserveregs([s EXCEPT !.code[s.e.info + 1].b = nresults + 1,
                                                         !.code[s.e.info + 1].a = s.freereg], 1)
      [] OTHER -> s
luaK_setoneret(s) ==
    CASE s.e.k = "VCALL" -> [s EXCEPT !.e.k = "VNONRELOC", !.e.info = At(s, s.e.info).a]
      [] s.e.k = "VVARARG" -> [s EXCEPT !.code[s.e.info + 1].b = 2, !.e.k = "VRELOCABLE"]
      [] OTHER -> s

------------------------------------------------------------------------------
(* From descriptors to registers. *)

luaK_dischargevars(s) ==
    LET e == s.e
        load(x, op, b, c) == Pending(Gen(x, <<"luaK_code", op, 0, b, c>>), "VRELOCABLE", e)
    IN  CASE e.k = "VLOCAL" -> [s EXCEPT !.e.k = "VNONRELOC"]
          [] e.k = "VUPVAL" -> load(s, "GETUPVAL", e.info, 0)
          [] e.k = "VGLOBAL" -> load(s, "GETGLOBAL", e.info, 0)
          [] e.k = "VINDEXED" -> load(freereg(freereg(s, e.aux), e.info), "GETTABLE", e.info, e.aux)
          [] OTHER -> luaK_setoneret(s)

discharge2reg(s0, reg) ==
    LET s == Gen(s0, <<"luaK_dischargevars">>)
        e == s.e
        there(x) == Hold(x, [e EXCEPT !.info = reg, !.k = "VNONRELOC"])
    IN  CASE e.k = "VNIL" -> there(Gen(s, <<"luaK_nil", reg, 1>>))
          [] e.k \in {"VFALSE", "VTRUE"} ->
               there(Gen(s, <<"luaK_code", "LOADBOOL", reg, IF e.k = "VTRUE" THEN 1 ELSE 0, 0>>))
          [] e.k = "VK" -> there(Gen(s, <<"luaK_code", "LOADK", reg, e.info, 0>>))
          [] e.k = "VKNUM" ->
               LET a == addk(s, ConstantOf(e))
               IN  there(Gen(a, <<"luaK_code", "LOADK", reg, KIndex(a, ConstantOf(e)), 0>>))
          [] e.k = "VRELOCABLE" -> there([s EXCEPT !.code[e.info + 1].a = reg])
          [] e.k = "VNONRELOC" -> there(IF reg = e.info THEN s ELSE Gen(s, <<"luaK_code", "MOVE", reg, e.info, 0>>))
          [] OTHER -> Asserted(s, e.k \in {"VVOID", "VJMP"})

discharge2anyreg(s) ==
    IF s.e.k = "VNONRELOC" THEN s ELSE Gen(luaK_reserveregs(s, 1), <<"discharge2reg", s.freereg>>)

code_label(s, reg, b, jump) == Gen(luaK_getlabel(s), <<"luaK_code", "LOADBOOL", reg, b, jump>>)

\* The jumps of e that leave no value in reg go to a LOADBOOL false or to a LOADBOOL true.
exp2reg(s0, reg) ==
    LET d == Gen(s0, <<"discharge2reg", reg>>)
        j == d.e.k = "VJMP"
        s == IF j THEN [Gen(d, <<"luaK_concat", d.e.t, d.e.info>>) EXCEPT !.e.t = Joined(d.e.t, d.e.info)] ELSE d
        e == s.e
        need == need_value(s, e.t) \/ need_value(s, e.f)
        fj == IF j THEN s ELSE Gen(s, <<"luaK_jump">>)
        loads == Gen(Gen(fj, <<"code_label", reg, 0, 1>>), <<"code_label", reg, 1, 0>>)
        over == Gen(loads, <<"luaK_patchtohere", IF j THEN NoJump ELSE Pc(s)>>)
        g == luaK_getlabel(IF need THEN over ELSE s)
        p_f == IF need THEN Pc(fj) ELSE NoJump
        p_t == IF need THEN Pc(fj) + 1 ELSE NoJump
        patched == Gen(Gen(g, <<"patchlistaux", e.f, Pc(g), reg, p_f>>), <<"patchlistaux", e.t, Pc(g), reg, p_t>>)
    IN  Hold(IF hasjumps(e) THEN patched ELSE s, Exp("VNONRELOC", reg))

luaK_exp2nextreg(s0) ==
    LET d == Gen(s0, <<"luaK_dischargevars">>)
        s == luaK_reserveregs(freeexp(d, d.e), 1)
    IN  Gen(s, <<"exp2reg", s.freereg - 1>>)

luaK_exp2anyreg(s0) ==
    LET s == Gen(s0, <<"luaK_dischargevars">>)
    IN  IF s.e.k = "VNONRELOC" /\ ~hasjumps(s.e) THEN s
        ELSE IF s.e.k = "VNONRELOC" /\ s.e.info >= s.nactvar THEN Gen(s, <<"exp2reg", s.e.info>>)
        ELSE Gen(s, <<"luaK_exp2nextreg">>)

luaK_exp2val(s) == IF hasjumps(s.e) THEN Gen(s, <<"luaK_exp2anyreg">>) ELSE Gen(s, <<"luaK_dischargevars">>)

\* A VK afterwards is a constant that fits an operand.
luaK_exp2RK(s0) ==
    LET s == Gen(s0, <<"luaK_exp2val">>)
        v == ConstantOf(s.e)
        a == addk(s, v)
    IN  IF s.e.k \in {"VKNUM", "VTRUE", "VFALSE", "VNIL"} /\ Len(s.k) <= MaxIndexRK
        THEN [a EXCEPT !.e.k = "VK", !.e.info = KIndex(a, v)]
        ELSE IF s.e.k = "VK" /\ s.e.info <= MaxIndexRK THEN s
        ELSE Gen(s, <<"luaK_exp2anyreg">>)
RKOf(e) == IF e.k = "VK" THEN BitRK + e.info ELSE e.info

\* The expression in hand goes to the variable var.
luaK_storevar(s, var) ==
    LET any == Gen(s, <<"luaK_exp2anyreg">>)
        rk == Gen(s, <<"luaK_exp2RK">>)
        done(x) == freeexp(x, x.e)
    IN  CASE var.k = "VLOCAL" -> Gen(freeexp(s, s.e), <<"exp2reg", var.info>>)
          [] var.k = "VUPVAL" -> done(Gen(any, <<"luaK_code", "SETUPVAL", any.e.info, var.info, 0>>))
          [] var.k = "VGLOBAL" -> done(Gen(any, <<"luaK_code", "SETGLOBAL", any.e.info, var.info, 0>>))
          [] var.k = "VINDEXED" -> done(Gen(rk, <<"luaK_code", "SETTABLE", var.info, var.aux, RKOf(rk.e)>>))
          [] OTHER -> Asserted(s, FALSE)

luaK_self(s0, key) ==
    LET a == Gen(s0, <<"luaK_exp2anyreg">>)
        s == luaK_reserveregs(freeexp(a, a.e), 2)
        func == s.freereg - 2
        r == Gen(Hold(s, key), <<"luaK_exp2RK">>)
        c == Gen(r, <<"luaK_code", "SELF", func, a.e.info, RKOf(r.e)>>)
    IN  Hold(freeexp(c, r.e), [a.e EXCEPT !.info = func, !.k = "VNONRELOC"])

------------------------------------------------------------------------------
(* Conditions. *)

invertjump(s) ==
    LET c == getjumpcontrol(s, s.e.info)
    IN  Asserted([s EXCEPT !.code[c + 1].a = 1 - @], At(s, c).op \in TestModes \ {"TEST", "TESTSET"})

\* A NOT just coded is taken back.
jumponcond(s, cond) ==
    IF s.e.k = "VRELOCABLE" /\ At(s, s.e.info).op = "NOT"
    THEN Gen([s EXCEPT !.code = Front(@)], <<"condjump", "TEST", At(s, s.e.info).b, 0, 1 - cond>>)
    ELSE LET d == Gen(s, <<"discharge2anyreg">>)
         IN  Gen(freeexp(d, d.e), <<"condjump", "TESTSET", NoReg, d.e.info, cond>>)

luaK_goiftrue(s0) ==
    LET s == Gen(s0, <<"luaK_dischargevars">>)
        always == s.e.k \in {"VK", "VKNUM", "VTRUE"}
        j == CASE always -> s [] s.e.k = "VJMP" -> invertjump(s) [] OTHER -> Gen(s, <<"jumponcond", 0>>)
        pc == CASE always -> NoJump [] s.e.k = "VJMP" -> s.e.info [] OTHER -> Pc(j) - 1
        l == Gen(Gen(j, <<"luaK_concat", s.e.f, pc>>), <<"luaK_patchtohere", s.e.t>>)
    IN  [l EXCEPT !.e.f = Joined(s.e.f, pc), !.e.t = NoJump]

luaK_goiffalse(s0) ==
    LET s == Gen(s0, <<"luaK_dischargevars">>)
        never == s.e.k \in {"VNIL", "VFALSE"}
        j == IF never \/ s.e.k = "VJMP" THEN s ELSE Gen(s, <<"jumponcond", 1>>)
        pc == CASE never -> NoJump [] s.e.k = "VJMP" -> s.e.info [] OTHER -> Pc(j) - 1
        l == Gen(Gen(j, <<"luaK_concat", s.e.t, pc>>), <<"luaK_patchtohere", s.e.f>>)
    IN  [l EXCEPT !.e.t = Joined(s.e.t, pc), !.e.f = NoJump]

codenot(s0) ==
    LET s == Gen(s0, <<"luaK_dischargevars">>)
        d == Gen(s, <<"discharge2anyreg">>)
        n == CASE s.e.k \in {"VNIL", "VFALSE"} -> [s EXCEPT !.e.k = "VTRUE"]
               [] s.e.k \in {"VK", "VKNUM", "VTRUE"} -> [s EXCEPT !.e.k = "VFALSE"]
               [] s.e.k = "VJMP" -> invertjump(s)
               [] OTHER -> Pending(Gen(freeexp(d, d.e), <<"luaK_code", "NOT", 0, d.e.info, 0>>), "VRELOCABLE", d.e)
        x == [n EXCEPT !.e.t = n.e.f, !.e.f = n.e.t]
    IN  Gen(Gen(x, <<"removevalues", x.e.f>>), <<"removevalues", x.e.t>>)

\* The expression in hand is a key of the table t.
luaK_indexed(s, t) ==
    LET r == Gen(s, <<"luaK_exp2RK">>) IN Hold(r, [t EXCEPT !.aux = RKOf(r.e), !.k = "VINDEXED"])

------------------------------------------------------------------------------
(* Operators. Numbers are integers; a quotient or a power that is none is out of the model. *)

FloorDiv(a, b) == IF b > 0 THEN a \div b ELSE (-a) \div (-b)
NumberOp(op, a, b) ==
    CASE op = "ADD" -> a + b [] op = "SUB" -> a - b [] op = "MUL" -> a * b [] op = "POW" -> a ^ b
      [] op = "DIV" -> FloorDiv(a, b) [] op = "MOD" -> a - FloorDiv(a, b) * b [] op = "UNM" -> -a

constfolding(op, e1, e2) ==
    isnumeral(e1) /\ isnumeral(e2) /\ op # "LEN" /\ ~(op \in {"DIV", "MOD"} /\ e2.info = 0)

codearith(s, op, e1, e2) ==
    LET unary == op \in {"UNM", "LEN"}
        x2 == IF unary THEN Hold(s, e2) ELSE Gen(Hold(s, e2), <<"luaK_exp2RK">>)
        x1 == Gen(Hold(x2, e1), <<"luaK_exp2RK">>)
        o1 == RKOf(x1.e)
        o2 == IF unary THEN 0 ELSE RKOf(x2.e)
        freed == IF o1 > o2 THEN freeexp(freeexp(x1, x1.e), x2.e) ELSE freeexp(freeexp(x1, x2.e), x1.e)
    IN  IF constfolding(op, e1, e2) THEN Hold(s, [e1 EXCEPT !.info = NumberOp(op, e1.info, e2.info)])
        ELSE Pending(Gen(freed, <<"luaK_code", op, 0, o1, o2>>), "VRELOCABLE", x1.e)

codecomp(s, op, cond, e1, e2) ==
    LET x1 == Gen(Hold(s, e1), <<"luaK_exp2RK">>)
        x2 == Gen(Hold(x1, e2), <<"luaK_exp2RK">>)
        freed == freeexp(freeexp(x2, x2.e), x1.e)
        o1 == RKOf(x1.e)
        o2 == RKOf(x2.e)
    IN  Pending(IF cond = 0 /\ op # "EQ" THEN Gen(freed, <<"condjump", op, 1, o2, o1>>) ELSE Gen(freed, <<"condjump", op, cond, o1, o2>>),
                "VJMP", x1.e)

luaK_prefix(s, op) ==
    LET any == Gen(s, <<"luaK_exp2anyreg">>)
        arith(x, o) == Gen(x, <<"codearith", o, x.e, Exp("VKNUM", 0)>>)
    IN  CASE op = "-" -> arith(IF isnumeral(s.e) THEN s ELSE any, "UNM")
          [] op = "not" -> Gen(s, <<"codenot">>)
          [] op = "#" -> arith(any, "LEN")

ArithOps == [x \in {"+", "-", "*", "/", "%", "^"} |->
                CASE x = "+" -> "ADD" [] x = "-" -> "SUB" [] x = "*" -> "MUL"
                  [] x = "/" -> "DIV" [] x = "%" -> "MOD" [] x = "^" -> "POW"]
Comparisons == [x \in {"==", "~=", "<", "<=", ">", ">="} |->
                CASE x = "==" -> <<"EQ", 1>> [] x = "~=" -> <<"EQ", 0>> [] x = "<" -> <<"LT", 1>>
                  [] x = "<=" -> <<"LE", 1>> [] x = ">" -> <<"LT", 0>> [] x = ">=" -> <<"LE", 0>>]

luaK_infix(s, op) ==
    CASE op = "and" -> Gen(s, <<"luaK_goiftrue">>)
      [] op = "or" -> Gen(s, <<"luaK_goiffalse">>)
      [] op = ".." -> Gen(s, <<"luaK_exp2nextreg">>)
      [] op \in DOMAIN ArithOps -> IF isnumeral(s.e) THEN s ELSE Gen(s, <<"luaK_exp2RK">>)
      [] OTHER -> Gen(s, <<"luaK_exp2RK">>)

luaK_posfix(s, op, e1, e2) ==
    LET d == Gen(Hold(s, e2), <<"luaK_dischargevars">>)
        v == Gen(Hold(s, e2), <<"luaK_exp2val">>)
        n == Gen(v, <<"luaK_exp2nextreg">>)
    IN  CASE op = "and" -> Asserted([Gen(d, <<"luaK_concat", d.e.f, e1.f>>) EXCEPT !.e.f = Joined(d.e.f, e1.f)], e1.t = NoJump)
          [] op = "or" -> Asserted([Gen(d, <<"luaK_concat", d.e.t, e1.t>>) EXCEPT !.e.t = Joined(d.e.t, e1.t)], e1.f = NoJump)
          [] op = ".." ->
               IF v.e.k = "VRELOCABLE" /\ At(v, v.e.info).op = "CONCAT"
               THEN Hold(Asserted([freeexp(v, e1) EXCEPT !.code[v.e.info + 1].b = e1.info],
                                e1.info = At(v, v.e.info).b - 1),
                         [e1 EXCEPT !.k = "VRELOCABLE", !.info = v.e.info])
               ELSE Gen(n, <<"codearith", "CONCAT", e1, n.e>>)
          [] op \in DOMAIN ArithOps -> Gen(s, <<"codearith", ArithOps[op], e1, e2>>)
          [] OTHER -> Gen(s, <<"codecomp", Comparisons[op][1], Comparisons[op][2], e1, e2>>)

luaK_setlist(s, base, nelems, tostore) ==
    [Asserted(Gen(s, <<"luaK_code", "SETLIST", base, IF tostore = MultRet THEN 0 ELSE tostore, (nelems - 1) \div FieldsPerFlush + 1>>), tostore # 0)
        EXCEPT !.freereg = base + 1]

Gen(s, c) ==
    CASE c[1] = "luaK_code" -> luaK_code(s, c[2], c[3], c[4], c[5])
      [] c[1] = "luaK_concat" -> luaK_concat(s, c[2], c[3])
      [] c[1] = "luaK_patchtohere" -> luaK_patchtohere(s, c[2])
      [] c[1] = "luaK_patchlist" -> luaK_patchlist(s, c[2], c[3])
      [] c[1] = "patchlistaux" -> patchlistaux(s, c[2], c[3], c[4], c[5])
      [] c[1] = "luaK_jump" -> luaK_jump(s)
      [] c[1] = "condjump" -> condjump(s, c[2], c[3], c[4], c[5])
      [] c[1] = "luaK_ret" -> luaK_ret(s, c[2], c[3])
      [] c[1] = "luaK_nil" -> luaK_nil(s, c[2], c[3])
      [] c[1] = "luaK_dischargevars" -> luaK_dischargevars(s)
      [] c[1] = "discharge2reg" -> discharge2reg(s, c[2])
      [] c[1] = "discharge2anyreg" -> discharge2anyreg(s)
      [] c[1] = "code_label" -> code_label(s, c[2], c[3], c[4])
      [] c[1] = "exp2reg" -> exp2reg(s, c[2])
      [] c[1] = "luaK_exp2nextreg" -> luaK_exp2nextreg(s)
      [] c[1] = "luaK_exp2anyreg" -> luaK_exp2anyreg(s)
      [] c[1] = "luaK_exp2val" -> luaK_exp2val(s)
      [] c[1] = "luaK_exp2RK" -> luaK_exp2RK(s)
      [] c[1] = "luaK_storevar" -> luaK_storevar(s, c[2])
      [] c[1] = "luaK_self" -> luaK_self(s, c[2])
      [] c[1] = "jumponcond" -> jumponcond(s, c[2])
      [] c[1] = "luaK_goiftrue" -> luaK_goiftrue(s)
      [] c[1] = "luaK_goiffalse" -> luaK_goiffalse(s)
      [] c[1] = "codenot" -> codenot(s)
      [] c[1] = "luaK_indexed" -> luaK_indexed(s, c[2])
      [] c[1] = "codearith" -> codearith(s, c[2], c[3], c[4])
      [] c[1] = "codecomp" -> codecomp(s, c[2], c[3], c[4], c[5])
      [] c[1] = "luaK_prefix" -> luaK_prefix(s, c[2])
      [] c[1] = "luaK_infix" -> luaK_infix(s, c[2])
      [] c[1] = "luaK_posfix" -> luaK_posfix(s, c[2], c[3], c[4])
      [] c[1] = "luaK_setlist" -> luaK_setlist(s, c[2], c[3], c[4])
      [] c[1] = "removevalues" -> removevalues(s, c[2])
=============================================================================
