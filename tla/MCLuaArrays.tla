---------------------------- MODULE MCLuaArrays ----------------------------
\* Instance of LuaArrays for TLC: all arrays of five places, with and without holes.
EXTENDS LuaArrays
MCElements == 1..3
\* Functions of two elements that fail on nil: by rank, in both directions, and some that are no orders.
Function(f(_, _)) == [p \in (MCElements \cup {Nil}) \X (MCElements \cup {Nil}) |->
                        IF Nil \in {p[1], p[2]} THEN "error" ELSE IF f(p[1], p[2]) THEN "less" ELSE "not"]
MCOrders ==
    {Function(LAMBDA x, y : rank[x] < rank[y]) : rank \in [MCElements -> 1..3]} \cup
    {Function(LAMBDA x, y : x <= y), Function(LAMBDA x, y : TRUE), Function(LAMBDA x, y : y = (x % 3) + 1),
     Function(LAMBDA x, y : x # y), Function(LAMBDA x, y : x = 2), Function(LAMBDA x, y : y = 1)}
=============================================================================
