------------------------------- MODULE MCLuaVM -------------------------------
(* Programs for LuaVM: every expression of a small grammar of and, or, not, comparisons and calls    *)
(* in several contexts, every multiple assignment over few targets, and loops, closures, calls,      *)
(* constructors and varargs one by one.                                                               *)
EXTENDS LuaVM

N(i) == <<[k |-> "num", v |-> i]>>
S(a) == <<[k |-> "str", v |-> a]>>
NIL == <<[k |-> "nil"]>>
TRU == <<[k |-> "true"]>>
FLS == <<[k |-> "false"]>>
DOTS == <<[k |-> "dots"]>>
Prim(p, fs) == <<[k |-> "primary", prefix |-> p, suffixes |-> fs]>>
Name(x) == [k |-> "name", name |-> x]
V(x) == Prim(Name(x), <<>>)
Par(e) == Prim([k |-> "paren", e |-> e], <<>>)
Suf(e, f) == <<[e[1] EXCEPT !.suffixes = Append(@, f)]>>
C(e, args) == Suf(e, [k |-> "call", args |-> args])
M(e, name, args) == Suf(e, [k |-> "method", name |-> name, args |-> args])
F(e, name) == Suf(e, [k |-> "field", name |-> name])
X(e, key) == Suf(e, [k |-> "index", e |-> key])
B(a, op, b) == a \o <<[k |-> "binop", op |-> op]>> \o b
U(op, a) == <<[k |-> "unop", op |-> op]>> \o a
Fn(params, b) == [k |-> "function", params |-> params, dots |-> FALSE, olddots |-> FALSE, body |-> b]
FnDots(params, b) == [k |-> "function", params |-> params, dots |-> TRUE, olddots |-> FALSE, body |-> b]
FnArg(params, b) == [k |-> "function", params |-> params, dots |-> TRUE, olddots |-> TRUE, body |-> b]
T(fields) == <<[k |-> "table", fields |-> fields]>>
It(e) == [k |-> "item", e |-> e]
Na(name, e) == [k |-> "named", name |-> name, e |-> e]
Ke(key, e) == [k |-> "keyed", key |-> key, e |-> e]

Local(ns, es) == [s |-> "local", names |-> ns, es |-> es]
Let1(n, e) == Local(<<n>>, <<e>>)
LocalFn(n, f) == [s |-> "localfunction", name |-> n, f |-> f]
Func(n, fields, method, f) == [s |-> "function", name |-> n, fields |-> fields, method |-> method, f |-> f]
Asg(ts, es) == [s |-> "assign", targets |-> [i \in DOMAIN ts |-> ts[i][1]], es |-> es]
Set(t, e) == Asg(<<t>>, <<e>>)
CallStat(e) == [s |-> "call", call |-> e[1]]
Emit(es) == CallStat(C(V("emit"), es))
Ret(es) == [s |-> "return", es |-> es]
BREAK == [s |-> "break"]
Block(b) == [s |-> "do", body |-> b]
If1(c, b) == [s |-> "if", conds |-> <<c>>, blocks |-> <<b>>]
IfElse(c, b, d) == [s |-> "if", conds |-> <<c>>, blocks |-> <<b, d>>]
IfElif(c, b, c2, b2, d) == [s |-> "if", conds |-> <<c, c2>>, blocks |-> <<b, b2, d>>]
While1(c, b) == [s |-> "while", cond |-> c, body |-> b]
Repeat1(b, c) == [s |-> "repeat", cond |-> c, body |-> b]
For1(n, a, b, c, d) == [s |-> "for", name |-> n, from |-> a, to |-> b, step |-> c, body |-> d]
ForIn1(ns, es, d) == [s |-> "forin", names |-> ns, es |-> es, body |-> d]
Count(n) == <<V("count"), N(n), N(0)>>

------------------------------------------------------------------------------
\* Conditions: x is true, y is nil, f() and n() are calls that are observed.
Prelude == <<Local(<<"x", "y">>, <<TRU>>),
             LocalFn("f", Fn(<<"v">>, <<Emit(<<V("v")>>), Ret(<<V("v")>>)>>))>>
Operands == {NIL, N(1), V("x"), V("y"), C(V("f"), <<V("x")>>)}
Atoms == Operands \cup {FLS, Par(B(V("y"), "==", V("x")))} \cup {U("not", e) : e \in {NIL, V("x"), V("y")}}
Pairs == {B(a, o, b) : a \in Atoms, o \in {"and", "or", "=="}, b \in Operands}
Conditions ==
    {B(p, o, V("x")) : p \in Pairs, o \in {"and", "or"}}
        \cup {B(Par(p), o, c) : p \in Pairs, o \in {"and", "or"}, c \in {FLS, V("y")}}
        \cup {U("not", Par(p)) : p \in Pairs}
Contexts(e) ==
    {<<Emit(<<e, N(2)>>)>>, <<Let1("z", e), Emit(<<V("z")>>)>>, <<Set(V("y"), e), Emit(<<V("y"), V("x")>>)>>,
     <<IfElse(e, <<Emit(<<S("then")>>)>>, <<Emit(<<S("else")>>)>>)>>}
ConditionPrograms == {Prelude \o c : c \in UNION {Contexts(e) : e \in Conditions}}

\* Assignments to locals that are tables and keys at once.
Targets == {V("i"), V("t"), X(V("t"), V("i")), X(V("t"), B(V("i"), "+", N(1))), F(V("t"), "k"), V("g")}
Values == {V("i"), V("t"), N(5), X(V("t"), V("i"))}
AssignmentPrograms ==
    {<<Local(<<"i", "t">>, <<N(1), T(<<It(N(10)), It(N(20)), Na("k", N(30))>>)>>), Let1("u", V("t")),
       Asg(<<a, b, c>>, es),
       Emit(<<V("i"), V("t"), V("g"), X(V("u"), N(1)), X(V("u"), N(2)), X(V("u"), N(5)), F(V("u"), "k")>>)>> :
        a \in Targets, b \in Targets, c \in Targets \ {X(V("t"), B(V("i"), "+", N(1)))},
        es \in {<<v, w, N(7)>> : v \in Values, w \in {N(5), V("i")}} \cup {<<N(5)>>, <<N(5), N(6), N(7), N(8)>>}}
\* Where two targets are the same variable the order of stores shows; the manual leaves it open.
SameTwice(p) == LET ts == p[3].targets IN ts[1] = ts[2] \/ ts[1] = ts[3] \/ ts[2] = ts[3]

\* Loops whose body makes closures, and leaves in several ways.
Captures == <<Let1("c", V("n")), Set(X(V("fs"), V("n")), <<Fn(<<>>, <<Set(V("c"), B(V("c"), "+", N(10))), Ret(<<V("c")>>)>>)>>)>>
Leaves == {<<>>, <<If1(B(V("n"), ">=", N(2)), <<BREAK>>)>>, <<If1(B(V("n"), ">=", N(2)), <<Ret(<<V("n")>>)>>)>>,
           <<Block(<<Let1("d", V("n")), Set(V("h"), <<Fn(<<>>, <<Ret(<<V("d")>>)>>)>>),
                     If1(B(V("d"), "==", N(2)), <<BREAK>>)>>)>>}
Bodies == {Captures \o l : l \in Leaves} \cup {l \o Captures : l \in Leaves} \cup Leaves
Grow(b) == <<Set(V("n"), B(V("n"), "+", N(1)))>> \o b
Loops == {<<Let1("n", N(0)), While1(B(V("n"), "<", N(3)), Grow(b))>> : b \in Bodies}
    \cup {<<Let1("n", N(0)), Repeat1(Grow(b), B(V("n"), ">=", N(3)))>> : b \in Bodies}
    \cup {<<Let1("n", N(0)), Repeat1(Grow(<<Let1("e", V("n"))>> \o b \o <<Set(X(V("fs"), N(9)), <<Fn(<<>>, <<Ret(<<V("e")>>)>>)>>)>>),
                                     B(V("e"), ">=", N(3)))>> : b \in {b \in Bodies : TRUE}}
    \cup {<<For1("n", N(1), N(3), <<>>, b)>> : b \in Bodies}
    \cup {<<For1("n", N(3), N(1), U("-", N(1)), b)>> : b \in Bodies}
    \cup {<<ForIn1(<<"n", "m">>, Count(3), b)>> : b \in Bodies}
CallIf(e) == If1(e, <<Emit(<<C(e, <<>>), C(e, <<>>)>>)>>)
LoopPrograms ==
    {<<Local(<<"fs", "h">>, <<T(<<>>)>>), LocalFn("run", Fn(<<>>, l \o <<Ret(<<S("end")>>)>>)), Emit(<<C(V("run"), <<>>)>>),
       Local(<<"p", "q", "r">>, <<N(1), N(2), N(3)>>),
       CallIf(X(V("fs"), N(1))), CallIf(X(V("fs"), N(2))), CallIf(X(V("fs"), N(3))), CallIf(X(V("fs"), N(9))), CallIf(V("h"))>> :
        l \in Loops}

------------------------------------------------------------------------------
\* Expressions by precedence: operators of every level in a row.
ArithPrograms ==
    {<<Let1("a", N(3)), Emit(<<B(B(B(u, o, N(2)), p, V("a")), q, w)>>)>> :
        u \in {N(2), V("a"), U("-", V("a")), U("-", N(2))}, o \in {"+", "-", "*", "^", "%"}, p \in {"+", "*", "-", ".."},
        q \in {"+", "-", "*", "..", "<", "=="}, w \in {N(2), U("-", N(1))}}

Two == LocalFn("two", Fn(<<"a", "b">>, <<Ret(<<V("b"), V("a")>>)>>))
Pass == LocalFn("pass", FnDots(<<"a">>, <<Ret(<<C(V("nargs"), <<DOTS>>), V("a"), DOTS>>)>>))
\* Lists whose last expression is open, in every place that takes a list.
Lists == {<<>>, <<N(1)>>, <<C(V("two"), <<N(1), N(2)>>)>>, <<N(9), C(V("two"), <<N(1), N(2)>>)>>,
          <<C(V("two"), <<N(1), N(2)>>), N(9)>>, <<Par(C(V("two"), <<N(1), N(2)>>))>>, <<C(V("pass"), <<N(4), NIL, N(5)>>)>>,
          <<N(1), N(2), N(3)>>, <<NIL, FLS, V("two")>>}
TableOf(l) == T([i \in DOMAIN l |-> It(l[i])])
ListPrograms ==
    UNION {{<<Two, Pass, Emit(<<C(V("nargs"), l)>>), Emit(l)>>,
            <<Two, Pass, Local(<<"p", "q", "r">>, l), Emit(<<V("p"), V("q"), V("r")>>)>>,
            <<Two, Pass, Let1("t", TableOf(l)), Emit(<<U("#", V("t")), X(V("t"), N(1)), X(V("t"), N(2)), X(V("t"), N(3))>>)>>,
            <<Two, Pass, LocalFn("g", Fn(<<>>, <<Ret(l)>>)), Emit(<<C(V("g"), <<>>)>>), Emit(<<Par(C(V("g"), <<>>))>>)>>,
            <<Two, Pass, LocalFn("g", FnDots(<<"a">>, <<Local(<<"b", "c">>, <<DOTS>>), Emit(<<V("a"), V("b"), V("c")>>), Ret(<<C(V("nargs"), <<V("a"), DOTS>>)>>)>>)),
              Ret(<<C(V("g"), l)>>)>>,
            <<Two, Pass, LocalFn("g", FnArg(<<"a">>, <<Ret(<<F(V("arg"), "n"), X(V("arg"), N(1))>>)>>)), Emit(<<C(V("g"), l)>>)>>} : l \in Lists}

Counter == Fn(<<>>, <<Let1("n", N(0)), Ret(<<<<Fn(<<>>, <<Set(V("n"), B(V("n"), "+", N(1))), Ret(<<V("n")>>)>>)>>,
                                            <<Fn(<<>>, <<Ret(<<V("n")>>)>>)>>>>)>>)
Others == {
    \* two closures share a variable, which outlives the call
    <<LocalFn("mk", Counter), Local(<<"inc", "get">>, <<C(V("mk"), <<>>)>>), CallStat(C(V("inc"), <<>>)), Emit(<<C(V("inc"), <<>>), C(V("get"), <<>>)>>)>>,
    \* an upvalue of an upvalue, set from the innermost function
    <<Let1("a", N(1)), LocalFn("f", Fn(<<>>, <<LocalFn("g", Fn(<<>>, <<Set(V("a"), B(V("a"), "*", N(2)))>>)), CallStat(C(V("g"), <<>>)), Ret(<<V("a")>>)>>)),
      Emit(<<C(V("f"), <<>>), C(V("f"), <<>>)>>), Emit(<<V("a")>>)>>,
    \* recursion, with and without a tail call, through locals and globals
    <<Func("fact", <<>>, FALSE, Fn(<<"n">>, <<IfElse(B(V("n"), "<=", N(1)), <<Ret(<<N(1)>>)>>, <<Ret(<<B(V("n"), "*", C(V("fact"), <<B(V("n"), "-", N(1))>>))>>)>>)>>)),
      Emit(<<C(V("fact"), <<N(4)>>)>>)>>,
    <<LocalFn("sum", Fn(<<"n", "s">>, <<If1(B(V("n"), "==", N(0)), <<Ret(<<V("s")>>)>>), Let1("k", V("n")),
        Set(V("keep"), <<Fn(<<>>, <<Ret(<<V("k")>>)>>)>>), Ret(<<C(V("sum"), <<B(V("n"), "-", N(1)), B(V("s"), "+", V("n"))>>)>>)>>)),
      Emit(<<C(V("sum"), <<N(3), N(0)>>), C(V("keep"), <<>>)>>)>>,
    \* tail calls of a vararg function and of a native one
    <<LocalFn("v", FnDots(<<"a">>, <<Ret(<<V("a"), DOTS>>)>>)), LocalFn("w", Fn(<<"a", "b">>, <<Ret(<<C(V("v"), <<V("b"), V("a"), N(3)>>)>>)>>)),
      LocalFn("z", Fn(<<>>, <<Ret(<<C(V("nargs"), <<NIL, NIL>>)>>)>>)), Emit(<<C(V("w"), <<N(1), N(2)>>)>>), Emit(<<C(V("z"), <<>>)>>)>>,
    \* methods and fields
    <<Let1("o", T(<<Na("n", N(5)), Na("p", T(<<>>))>>)), Func("o", <<"get">>, TRUE, Fn(<<"d">>, <<Ret(<<B(F(V("self"), "n"), "+", V("d"))>>)>>)),
      Func("o", <<"p", "q">>, FALSE, Fn(<<>>, <<Ret(<<S("q")>>)>>)), Emit(<<M(V("o"), "get", <<N(2)>>), C(F(F(V("o"), "p"), "q"), <<>>)>>)>>,
    \* a constructor with all kinds of fields, flushed in the middle
    <<Let1("t", T(<<It(N(1)), Na("x", S("a")), It(N(2)), Ke(N(7), N(8)), It(N(3)), It(T(<<It(N(4))>>))>>)),
      Emit(<<U("#", V("t")), F(V("t"), "x"), X(V("t"), N(7)), X(V("t"), N(3)), X(X(V("t"), N(4)), N(1))>>)>>,
    \* nils are joined, but not over the target of a jump
    <<Local(<<"a", "b">>, <<>>), Let1("c", NIL), Emit(<<V("a"), V("b"), V("c")>>)>>,
    <<Let1("n", N(0)), While1(B(V("n"), "<", N(2)), <<Local(<<"a">>, <<>>), Emit(<<V("a")>>), Set(V("a"), N(1)), Set(V("n"), B(V("n"), "+", N(1)))>>)>>,
    <<Let1("x", N(1)), Let1("p", NIL), If1(V("x"), <<Set(V("p"), N(4))>>), Let1("q", NIL), Emit(<<V("p"), V("q")>>)>>,
    <<Let1("x", N(1)), Local(<<"p", "q">>, <<N(4), N(5)>>), If1(V("q"), <<Set(V("x"), NIL)>>), Set(V("p"), NIL), Emit(<<V("x"), V("p")>>)>>,
    <<Let1("x", FLS), Local(<<"p", "q">>, <<N(4), N(5)>>), If1(V("x"), <<Set(V("p"), NIL)>>), Set(V("q"), NIL), Emit(<<V("p"), V("q")>>)>>,
    \* constants are folded, but no division by zero
    <<Let1("t", B(N(1), "/", N(0))), Emit(<<B(V("t"), "==", V("t")), B(N(7), "%", U("-", N(3))), U("-", U("-", N(2)))>>)>>,
    \* more constants than an operand can name
    <<Let1("t", T(<<>>)), Set(F(V("t"), "a"), N(1)), Set(F(V("t"), "b"), N(2)), Set(F(V("t"), "c"), NIL), Set(F(V("t"), "d"), TRU),
      Emit(<<B(F(V("t"), "a"), "+", N(3)), B(N(4), "<", F(V("t"), "b")), F(V("t"), "c"), B(F(V("t"), "d"), "and", F(V("t"), "e"))>>)>>,
    \* strings and lengths
    <<Let1("a", S("a")), Emit(<<B(B(V("a"), "..", B(N(1), "+", N(1))), "..", S("b")), U("#", B(V("a"), "..", S("c"))), U("not", U("#", V("a")))>>)>>,
    \* elseif, with and without else, and a nil condition
    <<Let1("n", N(0)), While1(B(V("n"), "<=", N(3)), <<IfElif(B(V("n"), "==", N(1)), <<Emit(<<S("one")>>)>>, B(V("n"), "~=", N(2)), <<Emit(<<V("n")>>)>>, <<Emit(<<S("two")>>)>>),
      Set(V("n"), B(V("n"), "+", N(1)))>>), If1(NIL, <<Emit(<<N(1)>>)>>)>>,
    \* scopes: the same name again, in a block and in its own value
    <<Let1("a", N(1)), Block(<<Let1("a", B(V("a"), "+", N(1))), Emit(<<V("a")>>), Set(V("a"), N(9))>>), Let1("a", B(V("a"), "+", N(5))), Emit(<<V("a")>>)>>,
    \* a block closes its variable before the registers are used again
    <<Let1("f", NIL), Block(<<Let1("a", N(1)), Set(V("f"), <<Fn(<<>>, <<Ret(<<V("a")>>)>>)>>)>>), Let1("b", N(2)), Emit(<<V("b"), C(V("f"), <<>>)>>)>>,
    \* errors end the program where they arise
    <<Emit(<<N(1)>>), Let1("t", NIL), Emit(<<B(N(1), "+", V("t"))>>), Emit(<<N(2)>>)>>,
    <<Emit(<<N(1)>>), Set(F(V("t"), "x"), C(V("nargs"), <<C(V("emit"), <<N(3)>>)>>)), Emit(<<N(2)>>)>>,
    <<Emit(<<X(V("t"), N(1))>>)>>, <<Let1("t", T(<<>>)), Set(X(V("t"), NIL), N(1))>>, <<CallStat(M(V("t"), "x", <<>>))>>,
    <<Emit(<<U("-", S("a"))>>)>>, <<Emit(<<U("#", N(1))>>)>>, <<Emit(<<B(S("a"), "..", NIL)>>)>>, <<Emit(<<B(N(1), "<", S("a"))>>)>>,
    <<CallStat(C(V("nothing"), <<>>))>>, <<For1("i", N(1), S("a"), <<>>, <<>>)>>, <<ForIn1(<<"n">>, <<N(1)>>, <<>>)>>,
    <<LocalFn("f", Fn(<<>>, <<Ret(<<C(V("nothing"), <<>>)>>)>>)), CallStat(C(V("f"), <<>>))>>}

MCPrograms == Others \cup ListPrograms \cup ArithPrograms \cup LoopPrograms
                  \cup {p \in AssignmentPrograms : ~SameTwice(p)} \cup ConditionPrograms
=============================================================================
