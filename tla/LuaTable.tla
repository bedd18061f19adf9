------------------------------ MODULE LuaTable ------------------------------
(***************************************************************************)
(* The tables of the bundled Lua (ltable.c): an array part and a hash part *)
(* of chained nodes with Brent's variation, the rehash that moves fields   *)
(* between the two, next over a table whose fields are cleared and         *)
(* collected meanwhile, the cache of absent metamethods.                   *)
(*                                                                         *)
(* A field holds its own key as its value, so that a value found in        *)
(* another's place shows. A key that is an object stands for its address,  *)
(* which another object may have once the first is collected.              *)
(***************************************************************************)
EXTENDS Integers, Sequences, FiniteSets
LOCAL INSTANCE SequencesExt
LOCAL INSTANCE FiniteSetsExt

CONSTANTS
    IntKeys,        \* numbers that are integers
    PowKeys,        \* strings and booleans, hashed by their low bits
    ModKeys,        \* objects and other numbers, hashed by a remainder
    DeadKeys,       \* the keys that the collector may mark dead
    NewIndexKey,    \* the string "__newindex"
    Hash,           \* [TableKeys -> Nat]
    MaxInt,         \* MAX_INT
    PreArray, PreHash,  \* sizes that a constructor may ask for
    KeySets,        \* the sets of keys that a script may use
    NoValue             \* nil

TableKeys == IntKeys \cup PowKeys \cup ModKeys

ASSUME TableAssumption ==
    /\ IntKeys \subseteq Int /\ NewIndexKey \in PowKeys /\ MaxInt \in Nat
    /\ PreArray \subseteq Nat /\ PreHash \subseteq Nat
    /\ Hash \in [TableKeys -> Nat] /\ NoValue \notin TableKeys

VARIABLES
    keys,       \* the keys that this script uses
    tbl,        \* its array, node (a function on 0..2^lsizenode-1), lastfree; flags: "__newindex is
                \* absent" is cached; full: a rehash found no room for what it moved
    meta,       \* whether the table is its own metatable
    reached,    \* the last key that next has returned
    met         \* history: the keys it has returned; {NoValue} when there is no traversal

tablevars == <<keys, tbl, meta, reached, met>>

------------------------------------------------------------------------------
(* Looking up *)

Null == -1
Unused == [k |-> NoValue, v |-> NoValue, dead |-> FALSE, next |-> Null]
sizenode(t) == Cardinality(DOMAIN t.node)
sizearray(t) == Len(t.array)

mainposition(t, k) ==
    Hash[k] % (IF k \in PowKeys \/ sizenode(t) = 1 THEN sizenode(t) ELSE sizenode(t) - 1)

arrayindex(k) == IF k \in IntKeys THEN k ELSE -1
InArray(t, k) == arrayindex(k) \in 1..sizearray(t)

\* The nodes met along the links from node i.
Chain(t, i) ==
    LET after[j \in DOMAIN t.node, n \in Nat] ==
            IF n = 0 \/ t.node[j].next = Null THEN <<j>> ELSE <<j>> \o after[t.node[j].next, n - 1]
    IN  after[i, sizenode(t)]

\* The first node for k in its chain that satisfies Match.
FirstNode(t, k, Match(_)) ==
    LET found == SelectSeq(Chain(t, mainposition(t, k)), LAMBDA j : t.node[j].k = k /\ Match(t.node[j]))
    IN  IF \A j \in DOMAIN t.node : t.node[j].k # k THEN Null
        ELSE IF found = <<>> THEN Null ELSE found[1]
NodeOf(t, k) == FirstNode(t, k, LAMBDA n : ~n.dead)

luaH_get(t, k) ==
    IF InArray(t, k) THEN t.array[k]
    ELSE LET j == NodeOf(t, k) IN IF j = Null THEN NoValue ELSE t.node[j].v

HasSlot(t, k) == InArray(t, k) \/ NodeOf(t, k) # Null
Store(t, k, v) ==
    IF InArray(t, k) THEN [t EXCEPT !.array[k] = v] ELSE [t EXCEPT !.node[NodeOf(t, k)].v = v]

------------------------------------------------------------------------------
(* New keys and rehash *)

getfreepos(t) == {j \in DOMAIN t.node : j < t.lastfree /\ t.node[j].k = NoValue}

NoRoom(t, k) == (t.node[mainposition(t, k)].v # NoValue \/ t.dummy) /\ getfreepos(t) = {}

\* newkey, when there is room
newkey(t, k) ==
    LET mp == mainposition(t, k)
        n == Max(getfreepos(t))
        othern == mainposition(t, t.node[mp].k)
        previous == CHOOSE j \in DOMAIN t.node : t.node[j].next = mp
    IN  IF t.node[mp].v = NoValue
        THEN [t EXCEPT !.node[mp].k = k, !.node[mp].dead = FALSE]
        ELSE IF othern # mp     \* the colliding node is out of its main position: it moves to n
        THEN [t EXCEPT !.lastfree = n, !.node[n] = t.node[mp], !.node[previous].next = n,
                       !.node[mp] = [Unused EXCEPT !.k = k]]
        ELSE [t EXCEPT !.lastfree = n, !.node[mp].next = n,
                       !.node[n] = [Unused EXCEPT !.k = k, !.next = t.node[mp].next]]

\* luaH_set and a store, of a field that is moved
Move(t, k, v) ==
    IF HasSlot(t, k) THEN Store(t, k, v)
    ELSE IF NoRoom(t, k) THEN [t EXCEPT !.full = TRUE]
    ELSE Store(newkey(t, k), k, v)

NodeVector(t, size) ==
    LET n == IF size = 0 THEN 1 ELSE CHOOSE p \in {1, 2, 4, 8, 16} : p >= size /\ p < 2 * size
    IN  [t EXCEPT !.node = [j \in 0..n - 1 |-> Unused], !.dummy = (size = 0),
                  !.lastfree = IF size = 0 THEN 0 ELSE n]

\* Mutant of resize: the vanishing slice is not inserted again.
resizeCut(t, nasize, nhsize) ==
    LET kept == [i \in 1..nasize |-> IF i <= sizearray(t) THEN t.array[i] ELSE NoValue]
        old == Reverse([i \in 1..sizenode(t) |-> t.node[i - 1]])
        moved == SelectSeq(old, LAMBDA f : f.v # NoValue)
    IN  FoldLeft(LAMBDA r, f : Move(r, f.k, f.v), [NodeVector(t, nhsize) EXCEPT !.array = kept], moved)

resize(t, nasize, nhsize) ==
    LET kept == [i \in 1..nasize |-> IF i <= sizearray(t) THEN t.array[i] ELSE NoValue]
        slice == [i \in 1..sizearray(t) |-> [k |-> i, v |-> t.array[i]]]
        vanishing == SubSeq(slice, nasize + 1, sizearray(t))
        old == Reverse([i \in 1..sizenode(t) |-> t.node[i - 1]])
        moved == SelectSeq(vanishing \o old, LAMBDA f : f.v # NoValue)
    IN  FoldLeft(LAMBDA r, f : Move(r, f.k, f.v), [NodeVector(t, nhsize) EXCEPT !.array = kept], moved)

luaH_resizearray(t, nasize) == resize(t, nasize, IF t.dummy THEN 0 ELSE sizenode(t))

\* The size of the array part for the integer keys K: the last slice ]2^(i-1), 2^i] that has keys
\* and ends more than half of the keys up to it.
computesizes(K) ==
    LET upto(p) == Cardinality({k \in K : k <= p})
        best == {p \in {1, 2, 4, 8, 16} : /\ p \div 2 < Cardinality(K)
                                          /\ \E k \in K : p \div 2 < k /\ k <= p
                                          /\ upto(p) > p \div 2}
    IN  IF best = {} THEN 0 ELSE Max(best)

rehash(t, ek) ==
    LET used == {i \in 1..sizearray(t) : t.array[i] # NoValue}
                    \cup {t.node[j].k : j \in {j \in DOMAIN t.node : t.node[j].v # NoValue}} \cup {ek}
        ints == {k \in used : arrayindex(k) > 0}
        n == computesizes(ints)
    IN  resize(t, n, Cardinality(used) - Cardinality({k \in ints : k <= n}))

\* The table in which k has a slot. Its metamethods are looked up anew.
luaH_set(t, k) ==
    [ (IF HasSlot(t, k) THEN t
       ELSE IF ~NoRoom(t, k) THEN newkey(t, k)
       ELSE LET r == rehash(t, k) IN IF HasSlot(r, k) THEN r ELSE IF NoRoom(r, k) THEN [r EXCEPT !.full = TRUE] ELSE newkey(r, k))
      EXCEPT !.flags = FALSE]

luaH_new(narray, nhash) ==
    NodeVector([array |-> [i \in 1..narray |-> NoValue], node |-> <<>>, lastfree |-> 0, dummy |-> TRUE,
                flags |-> TRUE, full |-> FALSE], nhash)

------------------------------------------------------------------------------
(* What is done with a table *)

Traversed == met # {NoValue}
\* During a traversal only fields that are there may be assigned.
MayAssign(k) == Traversed => luaH_get(tbl, k) # NoValue

Stored(t, k, v) == IF t.full THEN t ELSE Store(t, k, v)

\* luaT_gettm through fasttm, for "__newindex"
gettm(t) == IF t.flags THEN NoValue ELSE luaH_get(t, NewIndexKey)
Looked(t) == [t EXCEPT !.flags = @ \/ luaH_get(t, NewIndexKey) = NoValue]

\* A handler is a function that leaves the table alone.
luaV_settable(k, v) ==
    LET t == luaH_set(tbl, k)
        absent == luaH_get(t, k) = NoValue
        looked == IF absent /\ meta THEN Looked(t) ELSE t
    IN  /\ MayAssign(k)
        /\ tbl' = IF absent /\ meta /\ gettm(t) # NoValue THEN looked
                  ELSE [Stored(looked, k, v) EXCEPT !.flags = FALSE]
        /\ UNCHANGED <<keys, meta, reached, met>>

lua_rawset(k, v) ==
    /\ MayAssign(k)
    /\ tbl' = Stored(luaH_set(tbl, k), k, v)
    /\ UNCHANGED <<keys, meta, reached, met>>

\* The metatable's field is looked up for another table.
LookUp == NewIndexKey \in keys /\ tbl' = Looked(tbl) /\ UNCHANGED <<keys, meta, reached, met>>

\* removeentry: the collector meets a node whose value is nil.
removeentry(j) ==
    /\ tbl.node[j].v = NoValue /\ tbl.node[j].k \in DeadKeys
    /\ tbl' = [tbl EXCEPT !.node[j].dead = TRUE]
    /\ UNCHANGED <<keys, meta, reached, met>>

\* OP_SETLIST of a table that is being constructed
SetList(last) ==
    /\ ~Traversed /\ last > sizearray(tbl)
    /\ tbl' = luaH_resizearray(tbl, last)
    /\ UNCHANGED <<keys, meta, reached, met>>

\* Mutant of findindex: a key that the collector has marked dead is not found.
findindexLive(t, k) ==
    IF k = NoValue THEN -1
    ELSE IF InArray(t, k) THEN k - 1
    ELSE LET n == FirstNode(t, k, LAMBDA m : ~m.dead)
         IN  IF n = Null THEN -2 ELSE n + sizearray(t)

\* The place of k: array first, then nodes; -2 when it is not there.
findindex(t, k) ==
    IF k = NoValue THEN -1
    ELSE IF InArray(t, k) THEN k - 1
    ELSE LET n == FirstNode(t, k, LAMBDA m : TRUE)
         IN  IF n = Null THEN -2 ELSE n + sizearray(t)

FieldAt(t, i) == IF i < sizearray(t) THEN [k |-> i + 1, v |-> t.array[i + 1]] ELSE t.node[i - sizearray(t)]

luaH_next ==
    LET start == findindex(tbl, reached)
        later == {i \in start + 1..sizearray(tbl) + sizenode(tbl) - 1 : FieldAt(tbl, i).v # NoValue}
        f == FieldAt(tbl, Min(later))
    IN  /\ Traversed
        /\ start # -2
        /\ IF later # {} THEN reached' = f.k /\ met' = met \cup {f.k} ELSE reached' = NoValue /\ met' = {NoValue}
        /\ UNCHANGED <<keys, tbl, meta>>

BeginTraversal == ~Traversed /\ met' = {} /\ UNCHANGED <<keys, tbl, meta, reached>>

TableInit ==
    /\ \E narray \in PreArray, nhash \in PreHash : tbl = luaH_new(narray, nhash)
    /\ keys \in KeySets /\ meta \in BOOLEAN
    /\ reached = NoValue /\ met = {NoValue}

TableNext ==
    \/ \E k \in keys, v \in BOOLEAN :
          \/ luaV_settable(k, IF v THEN k ELSE NoValue)
          \/ lua_rawset(k, IF v THEN k ELSE NoValue)
    \/ LookUp \/ BeginTraversal \/ luaH_next
    \/ \E j \in DOMAIN tbl.node : removeentry(j)
    \/ \E last \in PreArray : SetList(last)

TableSpec == TableInit /\ [][TableNext]_tablevars

------------------------------------------------------------------------------
(* The length *)

Absent(t, j) == j \notin IntKeys \/ luaH_get(t, j) = NoValue

binary_search(t) == LET find[i \in Nat, j \in Nat] ==
                    LET m == (i + j) \div 2
                    IN  IF j - i <= 1 THEN i ELSE IF Absent(t, m) THEN find[i, m] ELSE find[m, j]
             IN  find

unbound_search(t, j0) ==
    LET double[i \in Nat, j \in Nat] ==
            IF Absent(t, j) THEN binary_search(t)[i, j]
            ELSE IF 2 * j > MaxInt THEN CHOOSE n \in 0..MaxInt : Absent(t, n + 1) /\ \A m \in 1..n : ~Absent(t, m)
            ELSE double[j, 2 * j]
    IN  double[j0, j0 + 1]

luaH_getn(t) ==
    LET n == sizearray(t)
    IN  IF n > 0 /\ t.array[n] = NoValue THEN binary_search([t EXCEPT !.array = SubSeq(t.array, 1, n)])[0, n]
        ELSE IF t.dummy THEN n ELSE unbound_search(t, n)

------------------------------------------------------------------------------
(* Properties *)

TableTypeOK ==
    /\ tbl.array \in Seq(TableKeys \cup {NoValue})
    /\ \A j \in DOMAIN tbl.node :
         tbl.node[j] \in [k : TableKeys \cup {NoValue}, v : TableKeys \cup {NoValue}, dead : BOOLEAN, next : DOMAIN tbl.node \cup {Null}]
    /\ tbl.lastfree \in 0..sizenode(tbl)
    /\ meta \in BOOLEAN /\ reached \in TableKeys \cup {NoValue} /\ met \subseteq TableKeys \cup {NoValue}

\* The map that a table is to a script.
Map == INSTANCE LuaMap WITH
    MapKeys <- TableKeys, Nil <- NoValue,
    contents <- [k \in TableKeys |-> luaH_get(tbl, k)], visited <- met

\* next always finds the key it has returned, whatever was cleared and collected since ("invalid key
\* to next", ltable.c:166).
NextFindsItsKey == Traversed => findindex(tbl, reached) # -2

\* Every key that is in use is in the chain of its main position, no node follows two others, and
\* no key has two nodes, or a node and a place in the array (ltable.c:386-430).
ChainsSound ==
    \A j \in DOMAIN tbl.node :
        /\ tbl.node[j].v # NoValue =>
              /\ NodeOf(tbl, tbl.node[j].k) = j /\ ~InArray(tbl, tbl.node[j].k)
        /\ \A i \in DOMAIN tbl.node \ {j} :
              tbl.node[i].next # Null => tbl.node[i].next # tbl.node[j].next

\* The room that rehash counts is enough for all that it moves and for the new key: it is never
\* entered again from within (ltable.c:333-352, 409-411).
RehashHasRoom == ~tbl.full

\* An event is cached as absent only while the metatable lacks it (ltm.c:54, ltable.c:496,
\* lvm.c:145), a table that is its own metatable included.
CacheSound == tbl.flags => luaH_get(tbl, NewIndexKey) = NoValue

\* The length is a boundary, wherever the fields are (ltable.c:570).
LengthIsBorder ==
    LET n == luaH_getn(tbl) IN (n = 0 \/ ~Absent(tbl, n)) /\ Absent(tbl, n + 1)
=============================================================================
