------------------------------ MODULE MCLuaGC ------------------------------
\* Instances of LuaGC for TLC. Each heap is a set of objects that show one kind of trouble.
EXTENDS LuaGC

SmallHeaps ==
    {{"main", "u1", "u2"}, {"main", "w1", "u1"}, {"main", "k1", "u1"},
     {"main", "w1", "s1"}, {"main", "p1", "s1"},
     {"main", "c1", "v1", "t1"}, {"main", "c1", "c2", "v1"}, {"main", "th", "c1", "v1"}}

\* Two closures that share an upvalue.
SharedUpvalue == {{"main", "c1", "c2", "v1", "t1"}}
=============================================================================
