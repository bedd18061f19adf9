------------------------------ MODULE LuaParser ------------------------------
(***************************************************************************)
(* The parser of the bundled Lua (lparser.c), which drives the code        *)
(* generator in one pass. Its input is the sequence of tokens with what    *)
(* stands between brackets folded into one item: an expression is a        *)
(* sequence of operands and operators, in the order of the text (field in  *)
(* of a FuncState, the next one first), a block a sequence of statements.  *)
(*                                                                         *)
(*   items       unop, binop; num str nil true false dots table function   *)
(*               primary (prefix: a name or an expression in parentheses;  *)
(*               suffixes: field, index, method, call)                     *)
(*   statements  if while do for forin repeat function local localfunction *)
(*               return break call assign                                  *)
(***************************************************************************)
EXTENDS LuaCode
LOCAL INSTANCE SequencesExt

Str(a) == <<"str", <<a>>>>

\* As Gen of LuaCode, with the operators of this module.
RECURSIVE Parse(_, _)

\* The parser goes on unless an assertion has failed.
Fold(Step(_, _), s, items) == FoldLeft(LAMBDA x, i : IF x.sound THEN Step(x, i) ELSE x, s, items)
FoldPair(Step(_, _), p, items) == FoldLeft(LAMBDA x, i : IF x.s.sound THEN Step(x, i) ELSE x, p, items)

codestring(s, a) == Hold(addk(s, Str(a)), Exp("VK", KIndex(addk(s, Str(a)), Str(a))))

------------------------------------------------------------------------------
(* Local variables and upvalues: names[i + 1] is the variable of register i, active below nactvar. *)

new_localvar(s, name, n) == [s EXCEPT !.names = Append(SubSeq(@, 1, s.nactvar + n), name)]
new_localvars(s, names) ==
    FoldLeftDomain(LAMBDA x, i : new_localvar(x, names[i], i - 1), s, names)
adjustlocalvars(s, n) == [s EXCEPT !.nactvar = @ + n]
removevars(s, level) == [s EXCEPT !.nactvar = level]

searchvar(s, n) == SelectLastInSeq(SubSeq(s.names, 1, s.nactvar), LAMBDA x : x = n) - 1

indexupvalue(s, v) ==
    LET d == [k |-> v.k, info |-> v.info]
        a == IF Contains(s.upvalues, d) THEN s ELSE [s EXCEPT !.upvalues = Append(@, d)]
    IN  Hold(a, Exp("VUPVAL", SelectInSeq(a.upvalues, LAMBDA x : x = d) - 1))

\* The block that declares the variable at this level has to close it.
markupval(s, level) ==
    LET i == SelectLastInSeq(s.bl, LAMBDA b : b.nactvar <= level)
    IN  IF i = 0 THEN s ELSE [s EXCEPT !.bl[i].upval = TRUE]

RECURSIVE singlevaraux(_, _, _)
singlevaraux(s, n, base) ==
    LET v == searchvar(s, n)
        o == singlevaraux(s.prev, n, FALSE)
        x == [s EXCEPT !.prev = Hold(o, s.prev.e)]
    IN  IF v >= 0 THEN Hold(IF base THEN s ELSE markupval(s, v), Exp("VLOCAL", v))
        ELSE IF s.level = 0 THEN Hold(s, Exp("VGLOBAL", NoReg))
        ELSE IF o.e.k = "VGLOBAL" THEN Hold(x, o.e)
        ELSE indexupvalue(x, o.e)

singlevar(s, n) ==
    LET v == singlevaraux(s, n, TRUE)
        g == codestring(v, n)
    IN  IF v.e.k = "VGLOBAL" THEN [g EXCEPT !.e = Exp("VGLOBAL", g.e.info)] ELSE v

adjust_assign(s, nvars, nexps) ==
    LET extra == nvars - nexps
        open == IF extra + 1 < 0 THEN 0 ELSE extra + 1
        r == luaK_setreturns(s, open)
        n == IF s.e.k = "VVOID" THEN s ELSE Parse(s, <<"luaK_exp2nextreg">>)
    IN  IF hasmultret(s.e.k) THEN IF open > 1 THEN luaK_reserveregs(r, open - 1) ELSE r
        ELSE IF extra > 0 THEN Parse(luaK_reserveregs(n, extra), <<"luaK_nil", n.freereg, extra>>) ELSE n

------------------------------------------------------------------------------
(* Blocks and functions. *)

enterblock(s, breakable) ==
    Asserted([s EXCEPT !.bl = Append(@, [breaklist |-> NoJump, breakable |-> breakable,
                                      nactvar |-> s.nactvar, upval |-> FALSE])], s.freereg = s.nactvar)

leaveblock(s) ==
    LET b == Last(s.bl)
        r == removevars([s EXCEPT !.bl = Front(@)], b.nactvar)
        c == IF b.upval THEN Parse(r, <<"luaK_code", "CLOSE", b.nactvar, 0, 0>>) ELSE r
    IN  Parse([Asserted(c, ~(b.breakable /\ b.upval)) EXCEPT !.freereg = c.nactvar], <<"luaK_patchtohere", b.breaklist>>)

NoState == [level |-> -1, e |-> Void]
open_func(prev) ==
    [level |-> prev.level + 1, prev |-> prev, e |-> Void, in |-> <<>>, code |-> <<>>, lasttarget |-> -1,
     jpc |-> NoJump, freereg |-> 0, k |-> <<>>, p |-> <<>>, names |-> <<>>, nactvar |-> 0, upvalues |-> <<>>,
     bl |-> <<>>, maxstack |-> 2, numparams |-> 0, vararg |-> {}, sound |-> TRUE]

close_func(s) == Asserted(Parse(removevars(s, 0), <<"luaK_ret", 0, 0>>), s.bl = <<>>)
ProtoOf(s) == [code |-> s.code, k |-> s.k, p |-> s.p, nups |-> Len(s.upvalues), numparams |-> s.numparams,
               vararg |-> s.vararg, maxstack |-> s.maxstack, sound |-> s.sound]

\* The pseudo instructions after a CLOSURE say where each upvalue comes from.
pushclosure(f) ==
    LET s == [f.prev EXCEPT !.p = Append(@, ProtoOf(f))]
        c == Pending(Parse(s, <<"luaK_code", "CLOSURE", 0, Len(s.p) - 1, 0>>), "VRELOCABLE", Void)
    IN  FoldLeft(LAMBDA x, u : Parse(x, <<"luaK_code", IF u.k = "VLOCAL" THEN "MOVE" ELSE "GETUPVAL", 0, u.info, 0>>),
                 c, f.upvalues)

\* A vararg function has the local arg (LUA_COMPAT_VARARG), filled unless ... is used.
parlist(s, f) ==
    LET n == adjustlocalvars(new_localvars(s, IF f.dots THEN Append(f.params, "arg") ELSE f.params),
                             Len(f.params) + (IF f.dots THEN 1 ELSE 0))
    IN  [luaK_reserveregs(n, n.nactvar)
            EXCEPT !.numparams = n.nactvar - (IF f.dots THEN 1 ELSE 0),
                   !.vararg = IF f.dots THEN {"hasarg", "isvararg", "needsarg"} ELSE {}]

body(s, f, needself) ==
    LET o == open_func(s)
        self == IF needself THEN adjustlocalvars(new_localvar(o, "self", 0), 1) ELSE o
    IN  Parse(close_func(Parse(parlist(self, f), <<"chunk", f.body>>)), <<"pushclosure">>)

luaY_parser(block) == ProtoOf(close_func(Parse([open_func(NoState) EXCEPT !.vararg = {"isvararg"}], <<"chunk", block>>)))

------------------------------------------------------------------------------
(* Expressions. *)

explist1(s, es) ==
    Fold(LAMBDA x, e : Parse(Parse(x, <<"luaK_exp2nextreg">>), <<"expr", e>>), Parse(s, <<"expr", Head(es)>>), Tail(es))

\* field, yindex
field(s, name) ==
    LET t == Parse(s, <<"luaK_exp2anyreg">>) IN Parse(codestring(t, name), <<"luaK_indexed", t.e>>)
yindex(s, e) ==
    LET t == Parse(s, <<"luaK_exp2anyreg">>) IN Parse(Parse(Parse(t, <<"expr", e>>), <<"luaK_exp2val">>), <<"luaK_indexed", t.e>>)

\* Fields of a constructor; cc has the last list item read, v, and the counts nh, na and tostore.
recfield(s, cc, f) ==
    LET key == Parse(IF f.k = "named" THEN codestring(s, f.name) ELSE Parse(Parse(s, <<"expr", f.key>>), <<"luaK_exp2val">>), <<"luaK_exp2RK">>)
        val == Parse(Parse(key, <<"expr", f.e>>), <<"luaK_exp2RK">>)
    IN  [s |-> [Parse(val, <<"luaK_code", "SETTABLE", cc.t.info, RKOf(key.e), RKOf(val.e)>>) EXCEPT !.freereg = s.freereg],
         cc |-> [cc EXCEPT !.nh = @ + 1]]

closelistfield(s, cc) ==
    LET n == Parse(Hold(s, cc.v), <<"luaK_exp2nextreg">>)
        full == cc.tostore = FieldsPerFlush
    IN  IF cc.v.k = "VVOID" THEN [s |-> s, cc |-> cc]
        ELSE [s |-> IF full THEN Parse(n, <<"luaK_setlist", cc.t.info, cc.na, cc.tostore>>) ELSE n,
              cc |-> [cc EXCEPT !.v = Void, !.tostore = IF full THEN 0 ELSE @]]

lastlistfield(s, cc) ==
    LET v == Hold(s, cc.v)
        n == IF cc.v.k = "VVOID" THEN v ELSE Parse(v, <<"luaK_exp2nextreg">>)
    IN  IF cc.tostore = 0 THEN s
        ELSE IF hasmultret(cc.v.k) THEN Parse(luaK_setreturns(v, MultRet), <<"luaK_setlist", cc.t.info, cc.na, MultRet>>)
        ELSE Parse(n, <<"luaK_setlist", cc.t.info, cc.na, cc.tostore>>)

listfield(s, cc, f) ==
    LET x == Parse(s, <<"expr", f.e>>) IN [s |-> x, cc |-> [cc EXCEPT !.v = x.e, !.na = @ + 1, !.tostore = @ + 1]]

constructor(s0, fields) ==
    LET s == Parse(Pending(Parse(s0, <<"luaK_code", "NEWTABLE", 0, 0, 0>>), "VRELOCABLE", Void), <<"luaK_exp2nextreg">>)
        add(x, f) == LET c == closelistfield(x.s, x.cc)
                     IN  IF f.k = "item" THEN listfield(c.s, c.cc, f) ELSE recfield(c.s, c.cc, f)
        all == FoldPair(add, [s |-> s, cc |-> [v |-> Void, t |-> s.e, nh |-> 0, na |-> 0, tostore |-> 0]], fields)
    IN  Hold(lastlistfield(all.s, all.cc), s.e)

\* The function is in hand, in a register; its arguments go to those after it.
funcargs(s0, args) ==
    LET f == s0.e
        l == luaK_setreturns(Parse(s0, <<"explist1", args>>), MultRet)
        open == args # <<>> /\ hasmultret(l.e.k)
        s == IF args = <<>> THEN s0 ELSE IF open THEN l ELSE Parse(l, <<"luaK_exp2nextreg">>)
        n == IF open THEN MultRet ELSE s.freereg - (f.info + 1)
        c == Pending(Parse(s, <<"luaK_code", "CALL", f.info, n + 1, 2>>), "VCALL", Void)
    IN  [Asserted(c, f.k = "VNONRELOC") EXCEPT !.freereg = f.info + 1]

prefixexp(s, p) == IF p.k = "name" THEN Parse(s, <<"singlevar", p.name>>) ELSE Parse(Parse(s, <<"expr", p.e>>), <<"luaK_dischargevars">>)

primaryexp(s, i) ==
    LET suffix(x, f) ==
            CASE f.k = "field" -> Parse(x, <<"field", f.name>>)
              [] f.k = "index" -> Parse(x, <<"yindex", f.e>>)
              [] f.k = "method" ->
                   LET key == codestring(x, f.name) IN Parse(Parse(Hold(key, x.e), <<"luaK_self", key.e>>), <<"funcargs", f.args>>)
              [] f.k = "call" -> Parse(Parse(x, <<"luaK_exp2nextreg">>), <<"funcargs", f.args>>)
    IN  Fold(suffix, prefixexp(s, i.prefix), i.suffixes)

simpleexp(s, i) ==
    CASE i.k = "num" -> Hold(s, Exp("VKNUM", i.v))
      [] i.k = "str" -> codestring(s, i.v)
      [] i.k = "nil" -> Hold(s, Exp("VNIL", 0))
      [] i.k = "true" -> Hold(s, Exp("VTRUE", 0))
      [] i.k = "false" -> Hold(s, Exp("VFALSE", 0))
      [] i.k = "dots" ->
           Pending(Parse([s EXCEPT !.vararg = @ \ {"needsarg"}], <<"luaK_code", "VARARG", 0, 1, 0>>), "VVARARG", Void)
      [] i.k = "table" -> Parse(s, <<"constructor", i.fields>>)
      [] i.k = "function" -> Parse(s, <<"body", i, FALSE>>)
      [] i.k = "primary" -> Parse(s, <<"primaryexp", i>>)

\* priority: left and right; UNARY_PRIORITY
LeftPriority == [op \in {"or", "and", "==", "~=", "<", "<=", ">", ">=", "..", "+", "-", "*", "/", "%", "^"} |->
    CASE op = "or" -> 1 [] op = "and" -> 2 [] op = ".." -> 5 [] op \in {"+", "-"} -> 6
      [] op \in {"*", "/", "%"} -> 7 [] op = "^" -> 10 [] OTHER -> 3]
RightPriority(op) == CASE op = ".." -> 4 [] op = "^" -> 9 [] OTHER -> LeftPriority[op]
UnaryPriority == 8

Next1(s) == [s EXCEPT !.in = Tail(@)]
subexpr(s, limit) ==
    LET i == Head(s.in)
    IN  Parse(IF i.k = "unop" THEN Parse(Parse(Next1(s), <<"subexpr", UnaryPriority>>), <<"luaK_prefix", i.op>>)
                  ELSE Parse(Next1(s), <<"simpleexp", i>>), <<"operators", limit>>)
operators(s, limit) ==
    IF s.in = <<>> \/ LeftPriority[Head(s.in).op] <= limit THEN s
    ELSE LET op == Head(s.in).op
             l == Parse(Next1(s), <<"luaK_infix", op>>)
             r == Parse(l, <<"subexpr", RightPriority(op)>>)
         IN  Parse(Parse(r, <<"luaK_posfix", op, l.e, r.e>>), <<"operators", limit>>)

expr(s, e) == [Parse([s EXCEPT !.in = e], <<"subexpr", 0>>) EXCEPT !.in = s.in]

------------------------------------------------------------------------------
(* Statements. *)

block(s, b) == Parse(Parse(Parse(s, <<"enterblock", FALSE>>), <<"chunk", b>>), <<"leaveblock">>)

\* The local v is also the table or the key of an earlier target: that one uses a copy.
UsesLocal(t, v) == t.k = "VINDEXED" /\ v.info \in {t.info, t.aux}
UsingCopy(t, v, reg) ==
    IF UsesLocal(t, v) THEN [t EXCEPT !.info = IF @ = v.info THEN reg ELSE @, !.aux = IF @ = v.info THEN reg ELSE @]
    ELSE t
check_conflictTables(s, lh) ==
    LET v == s.e
        conflict == \E i \in DOMAIN lh : lh[i].k = "VINDEXED" /\ lh[i].info = v.info
    IN  [s |-> IF conflict THEN luaK_reserveregs(Parse(s, <<"luaK_code", "MOVE", s.freereg, v.info, 0>>), 1) ELSE s,
         lh |-> [i \in DOMAIN lh |-> IF conflict THEN UsingCopy(lh[i], v, s.freereg) ELSE lh[i]]]
check_conflict(s, lh) ==
    LET v == s.e
        conflict == \E i \in DOMAIN lh : UsesLocal(lh[i], v)
    IN  [s |-> IF conflict THEN luaK_reserveregs(Parse(s, <<"luaK_code", "MOVE", s.freereg, v.info, 0>>), 1) ELSE s,
         lh |-> [i \in DOMAIN lh |-> UsingCopy(lh[i], v, s.freereg)]]

\* Stores go from the last target to the first; each takes the value on top of the registers.
assignment(s0, targets, es) ==
    LET target(x, t) == LET p == Parse(x.s, <<"primaryexp", t>>)
                            c == IF p.e.k = "VLOCAL" THEN check_conflict(p, x.lh) ELSE [s |-> p, lh |-> x.lh]
                        IN  [s |-> c.s, lh |-> Append(c.lh, p.e)]
        l == FoldPair(target, [s |-> s0, lh |-> <<>>], targets)
        nvars == Len(targets)
        nexps == Len(es)
        v == Parse(l.s, <<"explist1", es>>)
        a == Parse(v, <<"adjust_assign", nvars, nexps>>)
        store(x, t) == Parse(Hold(x, Exp("VNONRELOC", x.freereg - 1)), <<"luaK_storevar", t>>)
    IN  IF nexps = nvars
        THEN FoldLeft(store, Parse(luaK_setoneret(v), <<"luaK_storevar", Last(l.lh)>>), Reverse(Front(l.lh)))
        ELSE FoldLeft(store, IF nexps > nvars THEN [a EXCEPT !.freereg = @ - (nexps - nvars)] ELSE a, Reverse(l.lh))

\* The list of jumps taken when the condition is false is e.f.
cond(s, e) ==
    LET v == Parse(s, <<"expr", e>>) IN Parse(IF v.e.k = "VNIL" THEN [v EXCEPT !.e.k = "VFALSE"] ELSE v, <<"luaK_goiftrue">>)

breakstat(s) ==
    LET i == SelectLastInSeq(s.bl, LAMBDA b : b.breakable)
        upval == \E n \in i + 1 .. Len(s.bl) : s.bl[n].upval
        j == Parse(IF upval THEN Parse(s, <<"luaK_code", "CLOSE", s.bl[i].nactvar, 0, 0>>) ELSE s, <<"luaK_jump">>)
    IN  [Parse(j, <<"luaK_concat", s.bl[i].breaklist, Pc(j) - 1>>) EXCEPT !.bl[i].breaklist = Joined(@, Pc(j) - 1)]

JumpBack(s, to) == LET j == Parse(s, <<"luaK_jump">>) IN Parse(j, <<"luaK_patchlist", Pc(j) - 1, to>>)

whilestat(s, st) ==
    LET c == Parse(luaK_getlabel(s), <<"cond", st.cond>>)
        b == Parse(Parse(c, <<"enterblock", TRUE>>), <<"block", st.body>>)
    IN  Parse(Parse(Parse(b, <<"JumpBack", Pc(s)>>), <<"leaveblock">>), <<"luaK_patchtohere", c.e.f>>)

repeatstat(s, st) ==
    LET inner == Parse(Parse(Parse(luaK_getlabel(s), <<"enterblock", TRUE>>), <<"enterblock", FALSE>>), <<"chunk", st.body>>)
        c == Parse(inner, <<"cond", st.cond>>)
    IN  Parse(IF ~Last(c.bl).upval THEN Parse(Parse(c, <<"leaveblock">>), <<"luaK_patchlist", c.e.f, Pc(s)>>)
                   ELSE Parse(Parse(Parse(Parse(c, <<"breakstat">>), <<"luaK_patchtohere", c.e.f>>), <<"leaveblock">>), <<"JumpBack", Pc(s)>>), <<"leaveblock">>)

exp1(s, e) == Parse(Parse(s, <<"expr", e>>), <<"luaK_exp2nextreg">>)

\* forbody: the loop over the three control variables from register base on.
forbody(s0, base, nvars, isnum, b) ==
    LET a == adjustlocalvars(s0, 3)
        p == IF isnum THEN Parse(a, <<"luaK_code", "FORPREP", base, NoJump, 0>>) ELSE Parse(a, <<"luaK_jump">>)
        prep == Pc(p) - 1
        i == luaK_reserveregs(adjustlocalvars(Parse(p, <<"enterblock", FALSE>>), nvars), nvars)
        s == Parse(Parse(Parse(i, <<"block", b>>), <<"leaveblock">>), <<"luaK_patchtohere", prep>>)
        l == IF isnum THEN Parse(s, <<"luaK_code", "FORLOOP", base, NoJump, 0>>)
             ELSE Parse(Parse(s, <<"luaK_code", "TFORLOOP", base, 0, nvars>>), <<"luaK_jump">>)
    IN  Parse(l, <<"luaK_patchlist", Pc(l) - 1, prep + 1>>)

fornum(s, st) ==
    LET n == new_localvars(s, <<"(for index)", "(for limit)", "(for step)", st.name>>)
        l == Parse(Parse(n, <<"exp1", st.from>>), <<"exp1", st.to>>)
        one == addk(l, <<"num", 1>>)
        d == luaK_reserveregs(Parse(one, <<"luaK_code", "LOADK", l.freereg, KIndex(one, <<"num", 1>>), 0>>), 1)
    IN  Parse(IF st.step = <<>> THEN d ELSE Parse(l, <<"exp1", st.step>>), <<"forbody", s.freereg, 1, TRUE, st.body>>)

forlist(s, st) ==
    LET n == new_localvars(s, <<"(for generator)", "(for state)", "(for control)">> \o st.names)
        a == Parse(Parse(n, <<"explist1", st.es>>), <<"adjust_assign", 3, Len(st.es)>>)
    IN  Parse(luaK_checkstack(a, 3), <<"forbody", s.freereg, Len(st.names), FALSE, st.body>>)

forstat(s, st) ==
    LET b == Parse(s, <<"enterblock", TRUE>>) IN Parse(IF st.s = "for" THEN fornum(b, st) ELSE forlist(b, st), <<"leaveblock">>)

\* conds[i] guards blocks[i]; one more block is the else part. esc: jumps out of the statement.
ifstat(s0, st) ==
    LET escape(x) == LET j == Parse(x.s, <<"luaK_jump">>)
                     IN  [s |-> Parse(j, <<"luaK_concat", x.esc, Pc(j) - 1>>), esc |-> Joined(x.esc, Pc(j) - 1)]
        test(x, i) ==
            LET out == IF i = 1 THEN x ELSE escape(x)
                c == Parse(IF i = 1 THEN x.s ELSE Parse(out.s, <<"luaK_patchtohere", x.flist>>), <<"cond", st.conds[i]>>)
            IN  [s |-> Parse(c, <<"block", st.blocks[i]>>), esc |-> out.esc, flist |-> c.e.f]
        t == FoldLeftDomain(test, [s |-> s0, esc |-> NoJump, flist |-> NoJump], st.conds)
        e == escape(t)
    IN  IF Len(st.blocks) > Len(st.conds)
        THEN Parse(Parse(Parse(e.s, <<"luaK_patchtohere", t.flist>>), <<"block", Last(st.blocks)>>), <<"luaK_patchtohere", e.esc>>)
        ELSE Parse(Parse(t.s, <<"luaK_concat", t.esc, t.flist>>), <<"luaK_patchtohere", Joined(t.esc, t.flist)>>)

localfunc(s, st) ==
    LET v == Exp("VLOCAL", s.freereg)
    IN  Parse(Parse(adjustlocalvars(luaK_reserveregs(new_localvar(s, st.name, 0), 1), 1), <<"body", st.f, FALSE>>), <<"luaK_storevar", v>>)

localstat(s, st) ==
    LET n == new_localvars(s, st.names)
        v == IF st.es = <<>> THEN Hold(n, Void) ELSE Parse(n, <<"explist1", st.es>>)
    IN  adjustlocalvars(Parse(v, <<"adjust_assign", Len(st.names), Len(st.es)>>), Len(st.names))

funcstat(s, st) ==
    LET v == FoldLeft(LAMBDA x, name : Parse(x, <<"field", name>>), Parse(s, <<"singlevar", st.name>>), st.fields)
    IN  Parse(Parse(v, <<"body", st.f, st.method>>), <<"luaK_storevar", v.e>>)

callstat(s, st) == LET c == Parse(s, <<"primaryexp", st.call>>) IN [c EXCEPT !.code[c.e.info + 1].c = 1]

retstat(s, st) ==
    LET v == Parse(s, <<"explist1", st.es>>)
        m == luaK_setreturns(v, MultRet)
        tail == v.e.k = "VCALL" /\ Len(st.es) = 1
        t == Asserted([m EXCEPT !.code[v.e.info + 1].op = "TAILCALL"], At(m, v.e.info).a = m.nactvar)
        any == Parse(v, <<"luaK_exp2anyreg">>)
        n == Parse(v, <<"luaK_exp2nextreg">>)
    IN  IF st.es = <<>> THEN Parse(s, <<"luaK_ret", 0, 0>>)
        ELSE IF hasmultret(v.e.k) THEN Parse(IF tail THEN t ELSE m, <<"luaK_ret", s.nactvar, MultRet>>)
        ELSE IF Len(st.es) = 1 THEN Parse(any, <<"luaK_ret", any.e.info, 1>>)
        ELSE Parse(Asserted(n, Len(st.es) = n.freereg - s.nactvar), <<"luaK_ret", s.nactvar, Len(st.es)>>)

statement(s, st) ==
    CASE st.s = "if" -> Parse(s, <<"ifstat", st>>)
      [] st.s = "while" -> Parse(s, <<"whilestat", st>>)
      [] st.s = "do" -> Parse(s, <<"block", st.body>>)
      [] st.s \in {"for", "forin"} -> Parse(s, <<"forstat", st>>)
      [] st.s = "repeat" -> Parse(s, <<"repeatstat", st>>)
      [] st.s = "function" -> Parse(s, <<"funcstat", st>>)
      [] st.s = "local" -> Parse(s, <<"localstat", st>>)
      [] st.s = "localfunction" -> Parse(s, <<"localfunc", st>>)
      [] st.s = "return" -> Parse(s, <<"retstat", st>>)
      [] st.s = "break" -> Parse(s, <<"breakstat">>)
      [] st.s = "call" -> Parse(s, <<"callstat", st>>)
      [] st.s = "assign" -> Parse(s, <<"assignment", st.targets, st.es>>)

chunk(s, b) ==
    Fold(LAMBDA x, st : LET r == Parse(x, <<"statement", st>>)
                        IN  [Asserted(r, r.maxstack >= r.freereg /\ r.freereg >= r.nactvar)
                                EXCEPT !.freereg = r.nactvar],
         s, b)

Parse(s, c) ==
    CASE c[1] = "singlevar" -> singlevar(s, c[2])
      [] c[1] = "adjust_assign" -> adjust_assign(s, c[2], c[3])
      [] c[1] = "enterblock" -> enterblock(s, c[2])
      [] c[1] = "leaveblock" -> leaveblock(s)
      [] c[1] = "pushclosure" -> pushclosure(s)
      [] c[1] = "body" -> body(s, c[2], c[3])
      [] c[1] = "explist1" -> explist1(s, c[2])
      [] c[1] = "field" -> field(s, c[2])
      [] c[1] = "yindex" -> yindex(s, c[2])
      [] c[1] = "constructor" -> constructor(s, c[2])
      [] c[1] = "funcargs" -> funcargs(s, c[2])
      [] c[1] = "primaryexp" -> primaryexp(s, c[2])
      [] c[1] = "simpleexp" -> simpleexp(s, c[2])
      [] c[1] = "subexpr" -> subexpr(s, c[2])
      [] c[1] = "operators" -> operators(s, c[2])
      [] c[1] = "expr" -> expr(s, c[2])
      [] c[1] = "block" -> block(s, c[2])
      [] c[1] = "assignment" -> assignment(s, c[2], c[3])
      [] c[1] = "cond" -> cond(s, c[2])
      [] c[1] = "breakstat" -> breakstat(s)
      [] c[1] = "JumpBack" -> JumpBack(s, c[2])
      [] c[1] = "whilestat" -> whilestat(s, c[2])
      [] c[1] = "repeatstat" -> repeatstat(s, c[2])
      [] c[1] = "exp1" -> exp1(s, c[2])
      [] c[1] = "forbody" -> forbody(s, c[2], c[3], c[4], c[5])
      [] c[1] = "forstat" -> forstat(s, c[2])
      [] c[1] = "ifstat" -> ifstat(s, c[2])
      [] c[1] = "localfunc" -> localfunc(s, c[2])
      [] c[1] = "localstat" -> localstat(s, c[2])
      [] c[1] = "funcstat" -> funcstat(s, c[2])
      [] c[1] = "callstat" -> callstat(s, c[2])
      [] c[1] = "retstat" -> retstat(s, c[2])
      [] c[1] = "statement" -> statement(s, c[2])
      [] c[1] = "chunk" -> chunk(s, c[2])
      [] OTHER -> Gen(s, c)
=============================================================================
