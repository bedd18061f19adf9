----------------------------- MODULE MCLuaTable -----------------------------
\* An instance of LuaTable for TLC. Numbers have the hashes of their doubles (ltable.c:83).
EXTENDS LuaTable

CONSTANTS newindex, strA, objA, objB

SmallHash ==
    [k \in TableKeys |->
        CASE k = 1 -> 1072693248 [] k = 2 -> 1073741824 [] k = 4 -> 1074790400 [] k = 5 -> 1075052544
          [] k = newindex -> 1 [] k = strA -> 3 [] k = objA -> 4 [] OTHER -> 7]

SmallKeySets == {{1, 2, 4, 5}, {1, 2, 4, strA}, {strA, objA, objB, 1}, {1, newindex, strA}}
=============================================================================
