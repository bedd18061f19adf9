---------------------------- MODULE MCLibraries ----------------------------
\* The libraries that scripts and the program use, which share no state: OSC packets, the multiplexer of
\* UDP sockets, patterns, arrays and precompiled functions. Each takes all steps of its own; the others rest.
EXTENDS MCOscPacket, MCUdpMux, MCLuaStrings, MCLuaArrays, MCLuaChunk

VARIABLE unit

\* The states of units that rest.
NoPacket ==
    /\ data = <<>> /\ typeTagsCurrent_ = <<>> /\ messageCursor_ = <<>> /\ argumentCurrent_ = <<>>
    /\ elementSizePtr_ = <<>> /\ messageIsInProgress_ = <<>> /\ table = <<>> /\ written = <<>>
    /\ refused = <<>>
NoSockets == MuxInit /\ platform = "posix"
NoStrings ==
    /\ items = <<>> /\ pattern = <<>> /\ subject = <<>> /\ init = <<>> /\ news = <<>> /\ max_s = <<>>
    /\ stage = <<>> /\ found = <<>> /\ matched = <<>> /\ newstart = <<>> /\ gmatched = <<>> /\ src = <<>>
    /\ n = <<>> /\ buffer = <<>>
NoArray ==
    /\ array = <<>> /\ result = <<>> /\ called = <<>> /\ steps = <<>>
NoChunk ==
    /\ f = <<>> /\ strip = <<>> /\ dumped = <<>> /\ status = <<>> /\ stream = <<>> /\ complete = <<>>
    /\ loaded = <<>> /\ outcome = <<>>

LibrariesInit ==
    /\ unit \in {"osc", "mux", "strings", "arrays", "chunk"}
    /\ IF unit = "osc" THEN OscInit ELSE NoPacket
    /\ IF unit = "mux" THEN MuxInit ELSE NoSockets
    /\ IF unit = "strings" THEN StringsInit ELSE NoStrings
    /\ IF unit = "arrays" THEN ArraysInit ELSE NoArray
    /\ IF unit = "chunk" THEN ChunkInit ELSE NoChunk

LibrariesNext ==
    /\ UNCHANGED unit
    /\ \/ unit = "osc" /\ OscNext /\ UNCHANGED <<muxvars, stringvars, arrayvars, chunkvars>>
       \/ unit = "mux" /\ MuxNext /\ UNCHANGED <<oscvars, stringvars, arrayvars, chunkvars>>
       \/ unit = "strings" /\ StringsNext /\ UNCHANGED <<oscvars, muxvars, arrayvars, chunkvars>>
       \/ unit = "arrays" /\ ArraysNext /\ UNCHANGED <<oscvars, muxvars, stringvars, chunkvars>>
       \/ unit = "chunk" /\ ChunkNext /\ UNCHANGED <<oscvars, muxvars, stringvars, arrayvars>>

LibrariesSpec == LibrariesInit /\ [][LibrariesNext]_<<unit, oscvars, muxvars, stringvars, arrayvars, chunkvars>>

\* Building a packet in a buffer of fixed size: arguments and type tags never meet, what does not fit
\* is refused before anything is written past the end, the links in open size slots lead out, and
\* fromOSC reads back what toOSC wrote, as far as the casts and the zeros in strings allow, or refuses
\* it where the numbers of "[" and "]" differ (OscOutboundPacketStream.cpp:179-434,
\* OscReceivedElements.cpp:612-706, osclua.cpp:26-258 and :457-594).
PacketsSound == unit = "osc" => OscTypeOK /\ PartsApart /\ RefusedWhenTooLong /\ SlotsLeadOut /\ ReadsBack

\* find and match return the first of all ways to match, gsub replaces each match, and gsub and
\* gmatch advance over empty ones (lstrlib.c:343-464, 495-582, 644-680).
PatternsSound == unit = "strings" => MatchIsTheFirst /\ GsubReplacesMatches /\ GmatchAdvances

\* sort sorts by every order, and loses and doubles no element by a function that is none; insert
\* and remove shift all that lies behind the position (ltablib.c:90-133, 173-268).
ArraysSound == unit = "arrays" => SortSorts /\ ShiftsAll

\* A function that was dumped is loaded again as it was, from pieces of any size, and a stream that
\* is cut or foreign is refused (ldump.c, lundump.c, lzio.c).
ChunksSound == unit = "chunk" => LoadsWhatWasDumped
=============================================================================
