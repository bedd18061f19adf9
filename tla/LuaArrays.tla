------------------------------ MODULE LuaArrays ------------------------------
(***************************************************************************)
(* The array functions of the table library (ltablib.c): insert, remove,   *)
(* concat and the quicksort, on an array that calls may leave with holes.  *)
(* The length of such an array is any of its borders. sort takes any       *)
(* function for its order; one that is no order may lead it outside the    *)
(* part it sorts, and makes it fail.                                       *)
(***************************************************************************)
EXTENDS Integers, Sequences, FiniteSets
LOCAL INSTANCE SequencesExt
LOCAL INSTANCE FiniteSetsExt

CONSTANTS
    Elements, Nil,
    Orders,             \* functions for sort: of two elements, or of Nil, to "less", "not" or "error"
    MaxIndex, MaxLength, MaxSteps       \* bounds: of positions, of the arrays to begin with, of calls

VARIABLES
    array,              \* 0..MaxIndex + 1 -> Elements \cup {Nil}
    result,             \* of the last call
    called,             \* what was called last, on which array
    steps

arrayvars == <<array, result, called, steps>>

Filled(a) == {i \in 1..MaxIndex : a[i] # Nil}
\* luaH_getn
Borders(a) == {n \in 0..MaxIndex : (n = 0 \/ a[n] # Nil) /\ a[n + 1] = Nil}
Proper(a) == \E n \in 0..MaxIndex : Filled(a) = 1..n
Amount(a) == Cardinality(Filled(a))
AsSeq(a) == [i \in 1..Amount(a) |-> a[i]]

Returns(a, r, what) ==
    /\ steps < MaxSteps /\ steps' = steps + 1
    /\ array' = a /\ result' = r /\ called' = [what |-> what, on |-> array]

\* pos 0: not given. A hole is left when pos is behind the end.
tinsert(pos, v) ==
    \E n \in Borders(array) :
        LET e == Max({n + 1, pos})
            at == IF pos = 0 THEN e ELSE pos
        IN  /\ e <= MaxIndex
            /\ Returns([i \in DOMAIN array |-> CASE i = at -> v
                                                 [] i \in (at + 1)..e -> array[i - 1]
                                                 [] OTHER -> array[i]],
                       <<>>, <<"insert", at, v>>)

tremove(pos) ==
    \E e \in Borders(array) :
        LET at == IF pos = 0 THEN e ELSE pos
        IN  IF at \notin 1..e THEN Returns(array, <<>>, <<"remove", at>>)
            ELSE Returns([i \in DOMAIN array |-> CASE i = e -> Nil
                                                   [] i \in at..(e - 1) -> array[i + 1]
                                                   [] OTHER -> array[i]],
                         <<array[at]>>, <<"remove", at>>)

\* What is not there cannot be added.
tconcat(first, last) ==
    LET part == [k \in 1..(last - first + 1) |-> array[first + k - 1]]
    IN  Returns(array, IF Nil \in Range(part) THEN <<"error">> ELSE part, <<"concat", first, last>>)

------------------------------------------------------------------------------
(* sort *)

set2(a, i, j) == [a EXCEPT ![i] = a[j], ![j] = a[i]]
Valid(a, i) == [a |-> a, i |-> i, ok |-> TRUE]
Invalid(a) == [a |-> a, i |-> 0, ok |-> FALSE]

\* Swaps i and j if the function says so.
SwapIf(r, i, j, less) ==
    IF ~r.ok THEN r
    ELSE CASE less[<<r.a[i], r.a[j]>>] = "error" -> Invalid(r.a)
           [] less[<<r.a[i], r.a[j]>>] = "less" -> Valid(set2(r.a, i, j), 0)
           [] OTHER -> r

\* repeat ++i until a[i] >= p; 0 for an error
ScanUp(a, from, u, p, less) ==
    LET scan[i \in 0..(MaxIndex + 1)] ==
            CASE less[<<a[i], p>>] = "error" -> 0
              [] less[<<a[i], p>>] = "not" -> i
              [] OTHER -> IF i > u THEN 0 ELSE scan[i + 1]
    IN  scan[from + 1]

ScanDownSwapped(a, from, l, p, less) ==
    LET scan[j \in 0..(MaxIndex + 1)] ==
            CASE less[<<a[j], p>>] = "error" -> -1
              [] less[<<a[j], p>>] = "not" -> j
              [] OTHER -> IF j < l THEN -1 ELSE scan[j - 1]
    IN  scan[from - 1]

\* repeat --j until a[j] <= p; -1 for an error
ScanDown(a, from, l, p, less) ==
    LET scan[j \in 0..(MaxIndex + 1)] ==
            CASE less[<<p, a[j]>>] = "error" -> -1
              [] less[<<p, a[j]>>] = "not" -> j
              [] OTHER -> IF j < l THEN -1 ELSE scan[j - 1]
    IN  scan[from - 1]

RECURSIVE Partition(_, _, _, _, _, _)
Partition(a, i, j, l, u, less) ==
    LET p == a[u - 1]
        up == ScanUp(a, i, u, p, less)
        down == ScanDown(a, j, l, p, less)
    IN  IF up = 0 \/ down = -1 THEN Invalid(a)
        ELSE IF down < up THEN Valid(set2(a, u - 1, up), up)
        ELSE Partition(set2(a, up, down), up, down, l, u, less)

RECURSIVE auxsort(_, _, _, _)
auxsort(a, l, u, less) ==
    LET mid == (l + u) \div 2
        ends == SwapIf(Valid(a, 0), u, l, less)
        lower == SwapIf(ends, mid, l, less)
        three == IF less[<<ends.a[mid], ends.a[l]>>] = "not" THEN SwapIf(lower, u, mid, less) ELSE lower
        split == Partition(set2(three.a, mid, u - 1), l, u - 1, l, u, less)
        smaller == IF split.i - l < u - split.i THEN <<l, split.i - 1>> ELSE <<split.i + 1, u>>
        larger == IF split.i - l < u - split.i THEN <<split.i + 1, u>> ELSE <<l, split.i - 1>>
        once == auxsort(split.a, smaller[1], smaller[2], less)
    IN  CASE l >= u -> Valid(a, 0)
          [] l < u /\ (~ends.ok \/ u - l = 1) -> ends
          [] u - l > 1 /\ ends.ok /\ (~three.ok \/ u - l = 2) -> three
          [] OTHER -> IF ~split.ok THEN split
                      ELSE IF ~once.ok THEN once ELSE auxsort(once.a, larger[1], larger[2], less)

sort(less) ==
    \E n \in Borders(array) :
        LET r == auxsort(array, 1, n, less)
        IN  Returns(r.a, IF r.ok THEN <<>> ELSE <<"error">>, <<"sort", less, n>>)

ArraysInit ==
    /\ array \in {[i \in 0..(MaxIndex + 1) |-> IF i \in DOMAIN s THEN s[i] ELSE Nil] :
                    s \in [1..MaxLength -> Elements \cup {Nil}]}
    /\ result = <<>> /\ called = [what |-> <<"new">>, on |-> array] /\ steps = 0

ArraysNext ==
    \/ \E pos \in 0..MaxIndex : (\E v \in Elements : tinsert(pos, v)) \/ tremove(pos)
    \/ \E first, last \in 1..MaxIndex : tconcat(first, last)
    \/ \E less \in Orders : sort(less)

ArraysSpec == ArraysInit /\ [][ArraysNext]_arrayvars

------------------------------------------------------------------------------
(* Properties *)

Less(less, x, y) == less[<<x, y>>] = "less"
\* An order: asymmetric, and what it does not tell apart are classes.
IsOrder(less) ==
    \A x, y, z \in Elements :
        /\ Less(less, x, y) => ~Less(less, y, x)
        /\ Less(less, x, y) => Less(less, x, z) \/ Less(less, z, y)

Count(a, v) == Cardinality({i \in DOMAIN a : a[i] = v})

\* sort loses and doubles no element, whatever function it is given as long as that fails on nil; given
\* an order it does not fail, does not look outside the array, and sorts it.
SortSorts ==
    called.what[1] = "sort" =>
        LET less == called.what[2] n == called.what[3]
        IN  /\ (\A v \in Elements : less[<<Nil, v>>] = "error" /\ less[<<v, Nil>>] = "error") =>
                    \A v \in Elements \cup {Nil} : Count(array, v) = Count(called.on, v)
            /\ IsOrder(less) /\ Proper(called.on) =>
                    result = <<>> /\ \A i \in 1..(n - 1) : ~Less(less, array[i + 1], array[i])

\* On an array without holes insert and remove shift what is behind the position, and undo each other.
ShiftsAll ==
    LET on == AsSeq(called.on)
    IN  Proper(called.on) =>
            CASE called.what[1] = "insert" /\ called.what[2] <= Len(on) + 1 ->
                    Proper(array) /\ AsSeq(array) = InsertAt(on, called.what[2], called.what[3])
              [] called.what[1] = "remove" /\ called.what[2] \in DOMAIN on ->
                    Proper(array) /\ AsSeq(array) = RemoveAt(on, called.what[2]) /\ result = <<on[called.what[2]]>>
              [] OTHER -> TRUE

=============================================================================
