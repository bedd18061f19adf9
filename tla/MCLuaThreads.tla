---------------------------- MODULE MCLuaThreads ----------------------------
(* Two coroutines; the limits of the C stack and of the frames are within reach of each other. *)
EXTENDS LuaThreads, TLC
CONSTANTS coA, coB
SymmetricCoroutines == Permutations(Coroutines)
=============================================================================
