------------------------------- MODULE LuaEval -------------------------------
(***************************************************************************)
(* What a program of the bundled Lua does, by the reference manual         *)
(* (doc/manual.html, sections 2.4 to 2.6): an interpreter of the trees     *)
(* that LuaParser takes, with an environment of variables instead of       *)
(* registers. Precedence is read off the manual's table, loosest operator  *)
(* first. Observable are the calls of emit, the values that the program    *)
(* returns, and whether it ended with an error.                            *)
(***************************************************************************)
EXTENDS Integers, Sequences, FiniteSets
LOCAL INSTANCE SequencesExt
LOCAL INSTANCE TLC

Nil == <<"nil">>
LuaNumber(n) == <<"num", n>>
Bool(b) == <<"bool", b>>
Truth(v) == v \notin {Nil, Bool(FALSE)}
IsNum(v) == v[1] = "num"
IsStr(v) == v[1] = "str"
IsTable(v) == v[1] = "table"
Shown(v) == IF v[1] \in {"table", "function"} THEN <<v[1]>> ELSE v
First(vs) == IF vs = <<>> THEN Nil ELSE vs[1]
Nth(vs, i) == IF i <= Len(vs) THEN vs[i] ELSE Nil
Set1(f, x, v) == [y \in DOMAIN f \cup {x} |-> IF y = x THEN v ELSE f[y]]
Get1(f, x) == IF x \in DOMAIN f THEN f[x] ELSE Nil
\* The border of a table whose integer keys are 1 to n.
Border(t) == Cardinality({i \in 1 .. Cardinality(DOMAIN t) : Get1(t, LuaNumber(i)) # Nil})

Text(v) == IF IsNum(v) THEN <<ToString(v[2])>> ELSE v[2]
Quotient(a, b) == IF b > 0 THEN a \div b ELSE (-a) \div (-b)
\* Result of a binary operator on values, or <<>> when it is an error.
Binary(op, a, b) ==
    CASE op \in {"+", "-", "*", "/", "%", "^"} /\ IsNum(a) /\ IsNum(b) ->
           (CASE op = "+" -> LuaNumber(a[2] + b[2]) [] op = "-" -> LuaNumber(a[2] - b[2])
             [] op = "*" -> LuaNumber(a[2] * b[2])
             [] op = "^" -> LuaNumber(a[2] ^ b[2]) [] b[2] = 0 -> <<"huge">>
             [] op = "/" -> LuaNumber(Quotient(a[2], b[2])) [] op = "%" -> LuaNumber(a[2] - Quotient(a[2], b[2]) * b[2]))
      [] op = "==" -> Bool(a = b)
      [] op = "~=" -> Bool(a # b)
      [] op \in {"<", "<=", ">", ">="} /\ IsNum(a) /\ IsNum(b) ->
           Bool(CASE op = "<" -> a[2] < b[2] [] op = "<=" -> a[2] <= b[2]
                  [] op = ">" -> a[2] > b[2] [] op = ">=" -> a[2] >= b[2])
      [] op = ".." /\ (IsNum(a) \/ IsStr(a)) /\ (IsNum(b) \/ IsStr(b)) -> <<"str", Text(a) \o Text(b)>>
      [] OTHER -> <<>>

Level(i) == CASE i.k # "binop" -> 99 [] i.op = "or" -> 1 [] i.op = "and" -> 2 [] i.op = ".." -> 4
              [] i.op \in {"+", "-"} -> 5 [] i.op \in {"*", "/", "%"} -> 6 [] i.op = "^" -> 8 [] OTHER -> 3
Loosest(e) == LET ls == {Level(e[i]) : i \in DOMAIN e} IN CHOOSE l \in ls : \A m \in ls : l <= m
\* Where e divides: at the last of the loosest operators, or at the first if they associate to the right.
Division(e) == LET l == Loosest(e) at(i) == Level(i) = l
               IN  IF l \in {4, 8} THEN SelectInSeq(e, at) ELSE SelectLastInSeq(e, at)

------------------------------------------------------------------------------
(* s: cells of variables, tables, closures, globals, trace, err. env: vars (cells by name), va. *)

Res(s, v) == [s |-> s, v |-> v]
Raise(s) == Res([s EXCEPT !.err = TRUE], <<Nil>>)
Declare(s, env, names, vals) ==
    [s |-> [s EXCEPT !.cells = @ \o [i \in DOMAIN names |-> Nth(vals, i)]],
     env |-> [env EXCEPT !.vars = FoldLeftDomain(LAMBDA m, i : Set1(m, names[i], Len(s.cells) + i), @, names)]]

Index(s, t, key) == IF IsTable(t) THEN Res(s, <<Get1(s.tables[t[2]], key)>>) ELSE Raise(s)
SetIndex(s, t, key, v) ==
    IF IsTable(t) /\ key # Nil THEN [s EXCEPT !.tables[t[2]] = Set1(@, key, v)] ELSE [s EXCEPT !.err = TRUE]

\* The functions the programs call: emit is observed, count drives a generic for.
Native(s, name, args) ==
    CASE name = "emit" -> Res([s EXCEPT !.trace = Append(@, [i \in DOMAIN args |-> Shown(args[i])])], <<>>)
      [] name = "nargs" -> Res(s, <<LuaNumber(Len(args))>>)
      [] name = "count" -> Res(s, <<IF args[2][2] < args[1][2] THEN LuaNumber(args[2][2] + 1) ELSE Nil, LuaNumber(7)>>)

\* The operator named by c[1], in the state s and the environment env, of the rest of c.
RECURSIVE Eval(_, _, _)

Ev1(s, env, e) == LET r == Eval(s, env, <<"Ev", e>>) IN Res(r.s, <<First(r.v)>>)

\* All values of a list: every expression gives one, the last one all it has.
EvList(s, env, es) ==
    IF es = <<>> THEN Res(s, <<>>)
    ELSE FoldLeftDomain(LAMBDA x, i : LET r == IF x.s.err THEN x ELSE Eval(x.s, env, <<"Ev", es[i]>>)
                                      IN  Res(r.s, x.v \o (IF i = Len(es) THEN r.v ELSE <<First(r.v)>>)),
                        Res(s, <<>>), es)

Call(s, f, args) ==
    IF s.err \/ f[1] \notin {"function", "native"} THEN Raise(s)
    ELSE IF f[1] = "native" THEN Native(s, f[2], args)
    ELSE LET c == s.closures[f[2]]
             n == Len(c.f.params)
             rest == SubSeq(args, n + 1, Len(args))
             fill == [i \in 1 .. Len(rest) |-> rest[i]]
             argt == [k \in {LuaNumber(i) : i \in DOMAIN rest} \cup {<<"str", <<"n">>>>} |->
                         IF IsNum(k) THEN fill[k[2]] ELSE LuaNumber(Len(rest))]
             s1 == IF c.f.olddots THEN [s EXCEPT !.tables = Append(@, argt)] ELSE s
             d == Declare(s1, [vars |-> c.vars, va |-> rest],
                          IF c.f.olddots THEN Append(c.f.params, "arg") ELSE c.f.params,
                          [i \in 1 .. n |-> Nth(args, i)] \o <<<<"table", Len(s1.tables)>>>>)
             r == Eval(d.s, d.env, <<"Exec", c.f.body>>)
         IN  Res(r.s, r.v)

Variable(s, env, n) == IF n \in DOMAIN env.vars THEN s.cells[env.vars[n]] ELSE Get1(s.globals, n)

Closure(s, env, f) ==
    Res([s EXCEPT !.closures = Append(@, [f |-> f, vars |-> env.vars])], <<<<"function", Len(s.closures) + 1>>>>)

Suffix(x, env, f) ==
    LET o == First(x.v)
        key == Ev1(x.s, env, f.e)
        args(s) == Eval(s, env, <<"EvList", f.args>>)
        m == Index(x.s, o, <<"str", <<f.name>>>>)
    IN  CASE f.k = "field" -> m
          [] f.k = "index" -> IF key.s.err THEN key ELSE Index(key.s, o, key.v[1])
          [] f.k = "call" -> Eval(args(x.s).s, <<>>, <<"Call", o, args(x.s).v>>)
          [] f.k = "method" -> Eval(args(m.s).s, <<>>, <<"Call", m.v[1], <<o>> \o args(m.s).v>>)

Fields(s, env, fs, t) ==
    LET add(x, i) ==
            LET f == fs[i]
                key == CASE f.k = "named" -> Res(x.s, <<<<"str", <<f.name>>>>>>)
                         [] f.k = "keyed" -> Ev1(x.s, env, f.key) [] OTHER -> Res(x.s, <<Nil>>)
                r == Eval(key.s, env, <<"Ev", f.e>>)
                vals == IF i = Len(fs) THEN r.v ELSE <<First(r.v)>>
            IN  IF x.s.err THEN x
                ELSE IF f.k = "item"
                THEN [s |-> FoldLeftDomain(LAMBDA y, j : SetIndex(y, t, LuaNumber(x.n + j), vals[j]), r.s, vals),
                      n |-> x.n + Len(vals)]
                ELSE [s |-> SetIndex(r.s, t, key.v[1], First(r.v)), n |-> x.n]
    IN  FoldLeftDomain(add, [s |-> s, n |-> 0], fs)

Item(s, env, i) ==
    CASE i.k = "num" -> Res(s, <<LuaNumber(i.v)>>)
      [] i.k = "str" -> Res(s, <<<<"str", <<i.v>>>>>>)
      [] i.k = "nil" -> Res(s, <<Nil>>)
      [] i.k \in {"true", "false"} -> Res(s, <<Bool(i.k = "true")>>)
      [] i.k = "dots" -> Res(s, env.va)
      [] i.k = "table" -> LET t == <<"table", Len(s.tables) + 1>>
                              n == [s EXCEPT !.tables = Append(@, <<>>)]
                          IN  Res(Eval(n, env, <<"Fields", i.fields, t>>).s, <<t>>)
      [] i.k = "function" -> Closure(s, env, i)
      [] i.k = "primary" ->
           FoldLeft(LAMBDA x, f : IF x.s.err THEN x ELSE Suffix(x, env, f),
                    IF i.prefix.k = "name" THEN Res(s, <<Variable(s, env, i.prefix.name)>>)
                    ELSE Ev1(s, env, i.prefix.e), i.suffixes)

Ev(s, env, e) ==
    LET d == Division(e)
        a == Ev1(s, env, SubSeq(e, 1, d - 1))
        rest == SubSeq(e, d + 1, Len(e))
        b == Ev1(a.s, env, rest)
        v == Binary(e[d].op, a.v[1], b.v[1])
        u == Ev1(s, env, Tail(e))
        x == u.v[1]
    IN  IF s.err THEN Raise(s)
        ELSE IF Len(e) = 1 THEN Eval(s, env, <<"Item", e[1]>>)
        ELSE IF e[1].k = "unop" /\ Loosest(e) >= 8
        THEN CASE e[1].op = "not" -> Res(u.s, <<Bool(~Truth(x))>>)
               [] e[1].op = "-" /\ IsNum(x) -> Res(u.s, <<LuaNumber(-x[2])>>)
               [] e[1].op = "#" /\ IsTable(x) -> Res(u.s, <<LuaNumber(Border(u.s.tables[x[2]]))>>)
               [] e[1].op = "#" /\ IsStr(x) -> Res(u.s, <<LuaNumber(Len(x[2]))>>)
               [] OTHER -> Raise(u.s)
        ELSE CASE e[d].op = "and" -> IF Truth(a.v[1]) THEN b ELSE a
               [] e[d].op = "or" -> IF Truth(a.v[1]) THEN a ELSE b
               [] OTHER -> IF b.s.err \/ v = <<>> THEN Raise(b.s) ELSE Res(b.s, <<v>>)

------------------------------------------------------------------------------
(* Statements: ctl is next, break or return. *)

Done(s, ctl, v) == [s |-> s, ctl |-> ctl, v |-> v]
Stopped(r) == r.s.err \/ r.ctl # "next"

\* Assignment evaluates all its expressions before it assigns.
Assign(s, env, targets, es) ==
    LET place(x, i) ==
            LET n == Len(i.suffixes)
                o == Eval(x.s, env, <<"Item", [i EXCEPT !.suffixes = SubSeq(@, 1, n - 1)]>>)
                f == i.suffixes[n]
                key == IF f.k = "field" THEN Res(o.s, <<<<"str", <<f.name>>>>>>) ELSE Ev1(o.s, env, f.e)
            IN  IF n = 0 THEN [s |-> x.s, ps |-> Append(x.ps, <<"variable", i.prefix.name>>)]
                ELSE [s |-> key.s, ps |-> Append(x.ps, <<"index", First(o.v), key.v[1]>>)]
        p == FoldLeft(place, [s |-> s, ps |-> <<>>], targets)
        r == Eval(p.s, env, <<"EvList", es>>)
        set(x, j) == LET i == Len(p.ps) + 1 - j
                         t == p.ps[i]
                         v == Nth(r.v, i)
                     IN  IF x.err THEN x
                         ELSE IF t[1] = "index" THEN SetIndex(x, t[2], t[3], v)
                         ELSE IF t[2] \in DOMAIN env.vars THEN [x EXCEPT !.cells[env.vars[t[2]]] = v]
                         ELSE [x EXCEPT !.globals = Set1(@, t[2], v)]
    IN  FoldLeftDomain(set, r.s, p.ps)

RECURSIVE While(_, _, _), Repeat(_, _, _), For(_, _, _, _), ForIn(_, _, _, _, _)
\* A loop goes on with next after its body ended as r.
After(r, next(_)) == IF r.s.err \/ r.ctl = "return" THEN r ELSE IF r.ctl = "break" THEN Done(r.s, "next", <<>>)
                     ELSE next(r.s)
While(s, env, st) ==
    LET c == Ev1(s, env, st.cond)
        again(x) == While(x, env, st)
    IN  IF c.s.err \/ ~Truth(c.v[1]) THEN Done(c.s, "next", <<>>) ELSE After(Eval(c.s, env, <<"Exec", st.body>>), again)
Repeat(s, env, st) ==
    LET r == Eval(s, env, <<"Run", st.body>>)
        c == Ev1(r.s, r.env, st.cond)
        again(x) == IF c.s.err \/ Truth(c.v[1]) THEN Done(c.s, "next", <<>>) ELSE Repeat(c.s, env, st)
    IN  After(r, again)
For(s, env, st, x) ==
    LET d == Declare(s, env, <<st.name>>, <<LuaNumber(x[1])>>)
        again(y) == For(y, env, st, <<x[1] + x[3], x[2], x[3]>>)
    IN  IF IF x[3] > 0 THEN x[1] > x[2] ELSE x[1] < x[2] THEN Done(s, "next", <<>>)
        ELSE After(Eval(d.s, d.env, <<"Exec", st.body>>), again)
ForIn(s, env, st, f, control) ==
    LET c == Eval(s, <<>>, <<"Call", f[1], <<f[2], control>>>>)
        d == Declare(c.s, env, st.names, c.v)
        again(x) == ForIn(x, env, st, f, First(c.v))
    IN  IF c.s.err \/ First(c.v) = Nil THEN Done(c.s, "next", <<>>) ELSE After(Eval(d.s, d.env, <<"Exec", st.body>>), again)

If(s, env, st, i) ==
    LET taken == IF i = 0 THEN Len(st.conds) + 1 ELSE i
    IN  IF taken > Len(st.blocks) THEN Done(s, "next", <<>>) ELSE Eval(s, env, <<"Exec", st.blocks[taken]>>)

\* One statement; the environment it leaves is in env.
Step1(s, env, st) ==
    LET es == Eval(s, env, <<"EvList", st.es>>)
        here(r) == [s |-> r.s, ctl |-> r.ctl, v |-> r.v, env |-> env]
        test(x, c) == IF x.at > 0 \/ x.s.err THEN x
                      ELSE LET r == Ev1(x.s, env, c)
                           IN  [s |-> r.s, n |-> x.n + 1, at |-> IF Truth(r.v[1]) THEN x.n + 1 ELSE 0]
        t == FoldLeft(test, [s |-> s, n |-> 0, at |-> 0], st.conds)
        b == Eval(s, env, <<"EvList", IF st.step = <<>> THEN <<st.from, st.to>> ELSE <<st.from, st.to, st.step>>>>)
        lim == [i \in 1 .. 3 |-> IF i > Len(b.v) THEN 1 ELSE b.v[i][2]]
        f == Declare(s, env, <<st.name>>, <<>>)
        c == Closure(f.s, f.env, st.f)
        m == Closure(s, env, IF st.method THEN [st.f EXCEPT !.params = <<"self">> \o @] ELSE st.f)
        target == [k |-> "primary", prefix |-> [k |-> "name", name |-> st.name],
                   suffixes |-> [i \in DOMAIN st.fields |-> [k |-> "field", name |-> st.fields[i]]]]
        name(n) == [k |-> "primary", prefix |-> [k |-> "name", name |-> n], suffixes |-> <<>>]
        bind(x) == LET d == Declare(x.s, env, <<"(function)">>, x.v)
                   IN  Eval(d.s, d.env, <<"Assign", <<target>>, <<<<name("(function)")>>>>>>)
    IN  CASE st.s = "local" -> LET d == Declare(es.s, env, st.names, es.v)
                               IN  [s |-> d.s, ctl |-> "next", v |-> <<>>, env |-> d.env]
          [] st.s = "localfunction" ->
               [s |-> [c.s EXCEPT !.cells[f.env.vars[st.name]] = c.v[1]], ctl |-> "next", v |-> <<>>, env |-> f.env]
          [] st.s = "assign" -> here(Done(Eval(s, env, <<"Assign", st.targets, st.es>>), "next", <<>>))
          [] st.s = "function" -> here(Done(bind(m), "next", <<>>))
          [] st.s = "call" -> here(Done(Eval(s, env, <<"Item", st.call>>).s, "next", <<>>))
          [] st.s = "do" -> here(Eval(s, env, <<"Exec", st.body>>))
          [] st.s = "if" -> here(IF t.s.err THEN Done(t.s, "next", <<>>) ELSE If(t.s, env, st, t.at))
          [] st.s = "while" -> here(While(s, env, st))
          [] st.s = "repeat" -> here(Repeat(s, env, st))
          [] st.s = "for" -> here(IF b.s.err \/ \E i \in DOMAIN b.v : ~IsNum(b.v[i]) THEN Done(Raise(b.s).s, "next", <<>>)
                                  ELSE For(b.s, env, st, lim))
          [] st.s = "forin" -> here(ForIn(es.s, env, st, <<Nth(es.v, 1), Nth(es.v, 2)>>, Nth(es.v, 3)))
          [] st.s = "return" -> here(Done(es.s, "return", es.v))
          [] st.s = "break" -> here(Done(s, "break", <<>>))

Run(s, env, b) ==
    FoldLeft(LAMBDA x, st : IF Stopped(x) THEN x ELSE Eval(x.s, x.env, <<"Step1", st>>),
             [s |-> s, ctl |-> "next", v |-> <<>>, env |-> env], b)
Exec(s, env, b) == LET r == Eval(s, env, <<"Run", b>>) IN Done(r.s, r.ctl, r.v)

Eval(s, env, c) ==
    CASE c[1] = "Ev" -> Ev(s, env, c[2])
      [] c[1] = "EvList" -> EvList(s, env, c[2])
      [] c[1] = "Call" -> Call(s, c[2], c[3])
      [] c[1] = "Item" -> Item(s, env, c[2])
      [] c[1] = "Fields" -> Fields(s, env, c[2], c[3])
      [] c[1] = "Assign" -> Assign(s, env, c[2], c[3])
      [] c[1] = "Step1" -> Step1(s, env, c[2])
      [] c[1] = "Run" -> Run(s, env, c[2])
      [] c[1] = "Exec" -> Exec(s, env, c[2])

Natives == [n \in {"emit", "nargs", "count"} |-> <<"native", n>>]
\* The trace and the end of a program.
Meaning(b) ==
    LET s == [cells |-> <<>>, tables |-> <<>>, closures |-> <<>>, globals |-> Natives, trace |-> <<>>, err |-> FALSE]
        r == Eval(s, [vars |-> <<>>, va |-> <<>>], <<"Exec", b>>)
    IN  [trace |-> IF r.s.err THEN r.s.trace ELSE Append(r.s.trace, [i \in DOMAIN r.v |-> Shown(r.v[i])]),
         outcome |-> IF r.s.err THEN "error" ELSE "done"]
=============================================================================
