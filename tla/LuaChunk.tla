------------------------------- MODULE LuaChunk -------------------------------
(***************************************************************************)
(* Precompiled functions: string.dump writes a function block by block     *)
(* (ldump.c), lua_load reads it from a stream that comes in pieces of any  *)
(* size (lzio.c, lundump.c). A byte of the stream is the k-th of the bytes *)
(* of some datum; a datum is read again if its bytes are read in place.    *)
(* That loaded code is checked before it runs is in LuaVM.                 *)
(***************************************************************************)
EXTENDS Integers, Sequences, FiniteSets
LOCAL INSTANCE SequencesExt
LOCAL INSTANCE FiniteSetsExt

CONSTANTS
    Functions,          \* prototypes to dump
    NoString,           \* a NULL string
    PieceSizes,         \* sizes of what the reader returns
    FullWriters,        \* blocks after which a writer fails; string.dump's own never does
    MaxCCalls           \* LUAI_MAXCCALLS, less the calls in progress

VARIABLES
    f, strip,           \* what is dumped, and how
    dumped, status,     \* by luaU_dump
    stream,             \* pieces that the reader has not returned yet
    complete,           \* whether they are all of it, from this build
    loaded, outcome     \* the prototype, and how lua_load ended

chunkvars == <<f, strip, dumped, status, stream, complete, loaded, outcome>>

Width == [char |-> 1, int |-> 2, size |-> 2, number |-> 3, code |-> 2, header |-> 3]
Bytes(d, type) == [k \in 1..Width[type] |-> [of |-> d, k |-> k]]
Vector(ds, type) == FlattenSeq([i \in DOMAIN ds |-> Bytes(ds[i], type)])

------------------------------------------------------------------------------
(* ldump.c: the blocks that the writer gets, one after the other *)

DumpVar(d, type) == <<Bytes(d, type)>>
DumpVector(ds, type) == <<Bytes(Len(ds), "int"), Vector(ds, type)>>
DumpString(s) ==
    IF s = NoString THEN DumpVar(0, "size")
    ELSE <<Bytes(Len(s) + 1, "size"), Vector(Append(s, "NUL"), "char")>>

DumpConstant(o) ==
    DumpVar(o.type, "char") \o
    CASE o.type = "nil" -> <<>>
      [] o.type = "boolean" -> DumpVar(o.value, "char")
      [] o.type = "number" -> DumpVar(o.value, "number")
      [] o.type = "string" -> DumpString(o.value)

DumpDebug(p) ==
    LET Kept(info) == IF strip THEN <<>> ELSE info
        locvars == Kept(p.locvars)
        upvalues == Kept(p.upvalues)
    IN  DumpVector(Kept(p.lineinfo), "int")
        \o DumpVar(Len(locvars), "int")
        \o FlattenSeq([i \in DOMAIN locvars |-> DumpString(locvars[i].varname) \o DumpVar(locvars[i].startpc, "int")
                                                \o DumpVar(locvars[i].endpc, "int")])
        \o DumpVar(Len(upvalues), "int")
        \o FlattenSeq([i \in DOMAIN upvalues |-> DumpString(upvalues[i])])

SourceOfUnstripped(p, parent) == IF p.source = parent THEN NoString ELSE p.source
SourceOf(p, parent) == IF p.source = parent \/ strip THEN NoString ELSE p.source

RECURSIVE DumpFunction(_, _)
DumpFunction(p, parent) ==
    DumpString(SourceOf(p, parent))
    \o DumpVar(p.lines[1], "int") \o DumpVar(p.lines[2], "int")
    \o FlattenSeq([i \in 1..4 |-> DumpVar(p.sizes[i], "char")])
    \o DumpVector(p.code, "code")
    \o DumpVar(Len(p.k), "int") \o FlattenSeq([i \in DOMAIN p.k |-> DumpConstant(p.k[i])])
    \o DumpVar(Len(p.p), "int") \o FlattenSeq([i \in DOMAIN p.p |-> DumpFunction(p.p[i], p.source)])
    \o DumpDebug(p)

\* Once the writer has failed it is not called again.
luaU_dump ==
    /\ outcome = "none" /\ dumped = <<>>
    /\ \E full \in FullWriters :
        LET blocks == DumpVar("header", "header") \o DumpFunction(f, NoString)
        IN  /\ dumped' = FlattenSeq(SubSeq(blocks, 1, Min({full, Len(blocks)})))
            /\ status' = IF full < Len(blocks) THEN 1 ELSE 0
    /\ UNCHANGED <<f, strip, stream, complete, loaded, outcome>>

\* What is loaded later is a part of it in pieces, or was made by another build.
Deliver ==
    /\ dumped # <<>> /\ outcome = "none" /\ stream = <<>>
    /\ \E size \in PieceSizes, foreign \in BOOLEAN, length \in 1..Len(dumped) :
        LET whole == IF foreign THEN Bytes("foreign", "header") \o SubSeq(dumped, Width["header"] + 1, Len(dumped))
                     ELSE dumped
            part == SubSeq(whole, 1, length)
        IN  /\ foreign => length = Len(dumped)
            /\ stream' = [i \in 1..((length + size - 1) \div size) |->
                            SubSeq(part, (i - 1) * size + 1, Min({i * size, length}))]
            /\ complete' = (~foreign /\ length = Len(dumped) /\ status = 0)
    /\ UNCHANGED <<f, strip, dumped, status, loaded, outcome>>

------------------------------------------------------------------------------
(* lzio.c and lundump.c. A result: what is left of the stream, the value, what went wrong. *)

Read(z, v) == [z |-> z, v |-> v, why |-> "ok"]
Wrong(why) == [z |-> <<>>, v |-> <<>>, why |-> why]

Then(r, F(_, _)) == IF r.why = "ok" THEN F(r.z, r.v) ELSE r

\* z: the rest of the piece that is being read, before the pieces to come
Cut(z, n) == Read(<<SubSeq(z[1], n + 1, Len(z[1]))>> \o Tail(z), SubSeq(z[1], 1, n))

RECURSIVE luaZ_read(_, _)
luaZ_read(z, n) ==
    CASE n = 0 -> Read(z, <<>>)
      [] n > 0 /\ z = <<>> -> Wrong("unexpected end")
      [] n > 0 /\ z # <<>> /\ Len(z[1]) > n -> Cut(z, n)
      [] OTHER -> Then(luaZ_read(Tail(z), n - Len(z[1])), LAMBDA y, v : Read(y, z[1] \o v))

LoadBlock(z, n) == luaZ_read(z, n)

\* The datum of which these are the bytes.
Datum(bytes) == IF \A k \in DOMAIN bytes : bytes[k] = [of |-> bytes[1].of, k |-> k] THEN bytes[1].of ELSE "garbage"
LoadVar(z, type) == Then(LoadBlock(z, Width[type]), LAMBDA y, v : Read(y, Datum(v)))

LoadVector(z, type) ==
    LET w == Width[type]
        Element(v, i) == Datum(SubSeq(v, (i - 1) * w + 1, i * w))
    IN  Then(LoadVar(z, "int"), LAMBDA y, n :
            Then(LoadBlock(y, n * w), LAMBDA x, v : Read(x, [i \in 1..n |-> Element(v, i)])))

LoadString(z) ==
    Then(LoadVar(z, "size"), LAMBDA y, size :
        IF size = 0 THEN Read(y, NoString)
        ELSE Then(LoadBlock(y, size), LAMBDA x, v : Read(x, [i \in 1..(size - 1) |-> v[i].of])))

RECURSIVE LoadKind(_, _, _, _)

\* These things one after the other, or as many of one kind as an int says first.
LoadAll(z, kinds, p, depth) ==
    FoldLeft(LAMBDA r, kind : Then(r, LAMBDA y, vs :
                Then(LoadKind(y, kind, p, depth), LAMBDA x, v : Read(x, Append(vs, v)))),
             Read(z, <<>>), kinds)
LoadList(z, kind, p, depth) ==
    Then(LoadVar(z, "int"), LAMBDA y, n : LoadAll(y, [i \in 1..n |-> kind], p, depth))

LoadConstant(z) ==
    Then(LoadVar(z, "char"), LAMBDA y, t :
        IF t = "nil" THEN Read(y, [type |-> t])
        ELSE Then(CASE t = "boolean" -> LoadVar(y, "char")
                    [] t = "number" -> LoadVar(y, "number")
                    [] t = "string" -> LoadString(y)
                    [] OTHER -> Wrong("bad constant"),
                  LAMBDA x, v : Read(x, [type |-> t, value |-> v])))

Assembled(source, v) ==
    [source |-> source, lines |-> <<v[1], v[2]>>, sizes |-> SubSeq(v, 3, 6), code |-> v[7], k |-> v[8], p |-> v[9],
     lineinfo |-> v[10], locvars |-> v[11], upvalues |-> v[12]]

\* Once the source is known, the rest.
LoadBody(z, source, depth) ==
    Then(LoadAll(z, <<"int", "int", "char", "char", "char", "char", "code", "constants", "functions",
                      "lineinfo", "locvars", "upvalues">>, source, depth),
         LAMBDA y, v : Read(y, Assembled(source, v)))
LoadFunction(z, p, depth) ==
    IF depth > MaxCCalls THEN Wrong("code too deep")
    ELSE Then(LoadString(z), LAMBDA y, own : LoadBody(y, IF own = NoString THEN p ELSE own, depth))

LoadLocVar(z) ==
    Then(LoadAll(z, <<"string", "int", "int">>, NoString, 0),
         LAMBDA y, v : Read(y, [varname |-> v[1], startpc |-> v[2], endpc |-> v[3]]))

LoadKind(z, kind, p, depth) ==
    CASE kind \in {"int", "char"} -> LoadVar(z, kind)
      [] kind = "string" -> LoadString(z)
      [] kind = "code" -> LoadVector(z, "code")
      [] kind = "constants" -> LoadList(z, "constant", p, depth)
      [] kind = "constant" -> LoadConstant(z)
      [] kind = "functions" -> LoadList(z, "function", p, depth)
      [] kind = "function" -> LoadFunction(z, p, depth + 1)
      [] kind = "lineinfo" -> LoadVector(z, "int")
      [] kind = "locvars" -> LoadList(z, "locvar", p, depth)
      [] kind = "locvar" -> LoadLocVar(z)
      [] kind = "upvalues" -> LoadList(z, "string", p, depth)

LoadHeader(z) ==
    Then(LoadVar(z, "header"), LAMBDA y, h : IF h = "header" THEN Read(y, h) ELSE Wrong("bad header"))

Unknown == <<"=", "?">>
Undumped(z) == Then(LoadHeader(z), LAMBDA y, h : LoadKind(y, "function", Unknown, 0))

luaU_undump ==
    /\ stream # <<>> /\ outcome = "none"
    /\ LET r == Undumped(stream)
       IN  /\ outcome' = r.why
           /\ loaded' = IF r.why = "ok" THEN <<r.v>> ELSE <<>>
    /\ UNCHANGED <<f, strip, dumped, status, stream, complete>>

ChunkInit ==
    /\ f \in Functions /\ strip \in BOOLEAN
    /\ dumped = <<>> /\ status = 0 /\ stream = <<>> /\ complete = FALSE /\ loaded = <<>> /\ outcome = "none"

ChunkNext == luaU_dump \/ Deliver \/ luaU_undump
ChunkSpec == ChunkInit /\ [][ChunkNext]_chunkvars

------------------------------------------------------------------------------
(* Properties *)

RECURSIVE Depth(_), Expected(_, _)
Depth(p) == 1 + Max({0} \cup {Depth(p.p[i]) : i \in DOMAIN p.p})
\* A function as it comes back: without its debug information if that was stripped, and from the source of
\* the function around it if it has none.
Expected(p, parent) ==
    LET source == IF strip \/ p.source = NoString THEN parent ELSE p.source
        kept == [p EXCEPT !.source = source, !.p = [i \in DOMAIN @ |-> Expected(@[i], source)]]
    IN  IF strip THEN [kept EXCEPT !.lineinfo = <<>>, !.locvars = <<>>, !.upvalues = <<>>] ELSE kept

\* What was dumped is loaded as it was, however the stream is cut in pieces; a part of it is never loaded,
\* nor what another build has dumped.
LoadsWhatWasDumped ==
    outcome # "none" =>
        IF complete /\ Depth(f) <= MaxCCalls THEN loaded = <<Expected(f, Unknown)>> ELSE loaded = <<>>
=============================================================================
