---------------------------- MODULE MCLuaMachine ----------------------------
\* Four units of the interpreter that share no state: its heap with the collector, its tables, its stack
\* of calls and coroutines, and its compiler with the virtual machine. Each takes all steps of its own;
\* the others rest.
EXTENDS MCLuaGC, MCLuaTable, MCLuaThreads, MCLuaVM

VARIABLE unit

NoCode ==
    /\ main = <<>> /\ meaning = <<>> /\ stack = <<>> /\ top = 0 /\ frames = <<>> /\ closures = <<>>
    /\ upvals = <<>> /\ tables = <<>> /\ globals = <<>> /\ trace = <<>> /\ outcome = "none"

NoThreads ==
    /\ cstack = <<>> /\ base_ci = [L \in States |-> <<>>] /\ status = [L \in States |-> "ok"]
    /\ nCcalls = [L \in States |-> 0] /\ baseCcalls = nCcalls /\ size_ci = [L \in States |-> BasicCISize]
    /\ errfunc = [L \in States |-> FALSE] /\ allowhook = [L \in States |-> TRUE]
    /\ fresh = [L \in States |-> L \in Coroutines]

MachineInit ==
    /\ unit \in {"heap", "table", "threads", "code"}
    /\ Init
    /\ unit # "heap" => avail = (CHOOSE H \in Heaps : TRUE)
    /\ TableInit
    /\ unit # "table" => keys = (CHOOSE ks \in KeySets : TRUE) /\ ~meta /\ tbl = luaH_new(0, 0)
    /\ IF unit = "threads" THEN ThreadsInit ELSE NoThreads
    /\ IF unit = "code" THEN CodeInit ELSE NoCode

MachineNext ==
    /\ UNCHANGED unit
    /\ \/ unit = "heap" /\ UNCHANGED <<tablevars, threadvars, codevars>> /\ Next
       \/ unit = "table" /\ UNCHANGED <<vars, threadvars, codevars>> /\ TableNext
       \/ unit = "threads" /\ UNCHANGED <<vars, tablevars, codevars>> /\ ThreadsNext
       \/ unit = "code" /\ UNCHANGED <<vars, tablevars, threadvars>> /\ CodeNext

MachineSpec == MachineInit /\ [][MachineNext]_<<unit, vars, tablevars, threadvars, codevars>>

\* A table keeps its promise to next and to lookups through rehashes, collisions and collected keys:
\* a key that next was given is found again though its field is dead, every node is on the chain of
\* its main position, a rehash leaves room for the key that asked for it, the cache of absent
\* metamethods is never stale, and the length is a border (ltable.c:148, 350-425, ltm.c:50).
TablesSound == unit = "table" => /\ TableTypeOK /\ NextFindsItsKey /\ ChainsSound
                                 /\ RehashHasRoom /\ CacheSound /\ LengthIsBorder

\* A table is a map to a script: fields that move between the parts, collide and are collected keep
\* their values, and next meets each of them once and never loses its place (ltable.c). It is the
\* specification of LuaMap, of which the units that leave the table alone ask nothing.
ImplementsMap == Map!MapInit /\ [][unit = "table" => Map!MapNext]_(Map!mapvars)

\* While code runs, open upvalues point at live slots of frames that own them, top is where the
\* instruction expects it, and what the compiler made passes the checker of precompiled code
\* (lvm.c:586-655, lfunc.c:53-104, ldebug.c symbexec).
RunningCodeSound == unit = "code" => CodeTypeOK /\ OpenUpvaluesLive /\ TopIsTheFrames /\ CodeIsAccepted

\* Compiler and virtual machine together do what the reference manual says the program means: the
\* same calls with the same values, in the same order, and the same results (lparser.c, lcode.c, lvm.c).
RunsDoWhatTheyMean == unit = "code" => DoesWhatItMeans
=============================================================================
