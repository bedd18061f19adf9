------------------------------ MODULE OscPacket ------------------------------
(***************************************************************************)
(* OSC packets between a table of a script and the bytes on the wire:      *)
(* toOSC and fromOSC of osclua.cpp over the OutboundPacketStream and the   *)
(* received elements of the bundled oscpack. A bundle or message is built  *)
(* in a buffer of fixed capacity: arguments grow up from its address, type *)
(* tags grow down from the end of the buffer, and the size slot of an open *)
(* element holds where the slot around it is.                              *)
(***************************************************************************)
EXTENDS Integers, Sequences, FiniteSets
LOCAL INSTANCE SequencesExt
LOCAL INSTANCE Folds
LOCAL INSTANCE FiniteSetsExt

CONSTANTS
    Capacity,       \* of the buffer; OUTPUT_BUFFER_SIZE
    Addresses,      \* of messages, as sequences of characters
    TimeTags,       \* of bundles, 8 bytes
    Entries,        \* entries of a message's table
    OutOfRange,     \* 4 bytes: what a build's (int) makes of a double beyond 32 bits; C leaves it open
    MaxEntries,     \* bound: entries of a message
    MaxDepth        \* bound: nested elements

ASSUME OscAssumption ==
    /\ Capacity \in Nat \ {0} /\ Capacity < 256
    /\ MaxEntries \in Nat /\ MaxDepth \in Nat \ {0}
    /\ OutOfRange \in [1..4 -> 0..255]

VARIABLES
    data, typeTagsCurrent_, messageCursor_, argumentCurrent_, elementSizePtr_, messageIsInProgress_,
    table,      \* the elements of the script's table that are being written, the innermost last
    written,    \* the table, once all of it is written
    refused     \* what was being written when OutOfBufferMemoryException was thrown, or an entry
                \* was not one that toOSC takes

streamvars == <<data, typeTagsCurrent_, messageCursor_, argumentCurrent_, elementSizePtr_, messageIsInProgress_>>
oscvars == <<streamvars, table, written, refused>>

Absent == -1        \* a null pointer: elementSizePtr_ and the pointers of a message without arguments

------------------------------------------------------------------------------
(* Bytes. A number is the sequence of its bytes in the host's order, least significant first.        *)

RoundUp4(n) == ((n + 3) \div 4) * 4
Host(n) == <<n % 256, n \div 256, 0, 0>>
FromHost(b) == b[1] + 256 * b[2]

FromInt(bytes) == Reverse(bytes)        \* FromInt32, FromUInt64: the wire has the most significant first
ToInt(bytes) == Reverse(bytes)

Zeros(n) == [i \in 1..n |-> 0]
Padded(s) == s \o Zeros(RoundUp4(Len(s)) - Len(s))
Str4(s) == Padded(Append(s, 0))

Store(m, p, bytes) == [i \in DOMAIN m |-> IF i >= p /\ i < p + Len(bytes) THEN bytes[i - p + 1] ELSE m[i]]
Load(m, p, n) == [i \in 1..n |-> m[p + i - 1]]

BundleHead == <<35, 98, 117, 110, 100, 108, 101, 0>>       \* "#bundle"
Comma == 44

Tag == [True |-> 84, False |-> 70, Nil |-> 78, Infinitum |-> 73, Int32 |-> 105, Float |-> 102, Char |-> 99,
        RgbaColor |-> 114, Midi |-> 109, Int64 |-> 104, TimeTag |-> 116, Double |-> 100, String |-> 115,
        Symbol |-> 83, Blob |-> 98, ArrayBegin |-> 91, ArrayEnd |-> 93]
Empty == {Tag.True, Tag.False, Tag.Nil, Tag.Infinitum}
Arrays == {Tag.ArrayBegin, Tag.ArrayEnd}
Four == {Tag.Int32, Tag.Float, Tag.Char, Tag.RgbaColor, Tag.Midi}
Eight == {Tag.Int64, Tag.TimeTag, Tag.Double}
Strings == {Tag.String, Tag.Symbol}

------------------------------------------------------------------------------
(* osclua: a value of a script and the argument it becomes.                                          *)
(* A Lua number is a double, 8 bytes: here its whole part, with sign, in the first seven, and the   *)
(* last is 0 if there is nothing else. A cast to another type of number keeps what fits in it.       *)
(* No number with a fraction is negative, and no string is a numeral (Lua converts those).           *)

Whole(d) == d[8] = 0
Signs(byte, n) == [i \in 1..n |-> IF byte >= 128 THEN 255 ELSE 0]       \* extension of the sign
FitsInt(d) == SubSeq(d, 5, 7) = Signs(d[4], 3)
AsInt4(d) == IF FitsInt(d) THEN SubSeq(d, 1, 4) ELSE OutOfRange
AsFloat4(d) == <<d[1], d[2], d[3], d[8]>>
AsLong8(d) == SubSeq(d, 1, 7) \o Signs(d[7], 1)
AsChar4(byte) == <<byte>> \o Signs(byte, 3)
FromFloat4(f) == SubSeq(f, 1, 3) \o Signs(f[3], 4) \o <<f[4]>>
FromSigned4(b) == b \o Signs(b[4], 3) \o <<0>>
FromUnsigned4(b) == b \o Zeros(4)
FromLong8(b) == SubSeq(b, 1, 7) \o <<0>>

\* A string as C sees it, up to the first zero
CString(s) ==
    LET ends == {i \in DOMAIN s : s[i] = 0}
    IN  IF ends = {} THEN s ELSE SubSeq(s, 1, Min(ends) - 1)

Boolean(b) == [type |-> "boolean", v |-> b]
Number(d) == [type |-> "number", v |-> d]
String(s) == [type |-> "string", v |-> s]
Special(name, value) == [type |-> "table", name |-> name, v |-> value]
Argument(tag, bytes) == [tag |-> tag, v |-> bytes]

BadEntry == Argument(0, <<>>)      \* luaL_error instead of an argument

\* The types of the second element that pushSpecial takes; other names are unknown to it.
NumberNames == {"float", "double", "rgbacolor", "int32", "int64", "midi", "timetag"}
TakesType(name, type) ==
    \/ name \in NumberNames \cup {"char"} /\ type = "number"
    \/ name \in {"string", "symbol", "blob", "char"} /\ type = "string"
    \/ name = "boolean" /\ type = "boolean"
    \/ name \in {"infinity", "nil", "[", "]"}

pushSpecial(name, x) ==
    CASE ~TakesType(name, x.type) -> BadEntry
      [] name = "float" -> Argument(Tag.Float, AsFloat4(x.v))
      [] name = "double" -> Argument(Tag.Double, x.v)
      [] name = "string" -> Argument(Tag.String, CString(x.v))
      [] name = "symbol" -> Argument(Tag.Symbol, CString(x.v))
      [] name = "blob" -> Argument(Tag.Blob, x.v)
      [] name = "infinity" -> Argument(Tag.Infinitum, <<>>)
      [] name = "nil" -> Argument(Tag.Nil, <<>>)
      [] name = "rgbacolor" -> Argument(Tag.RgbaColor, AsInt4(x.v))
      [] name = "int32" -> Argument(Tag.Int32, AsInt4(x.v))
      [] name = "char" -> Argument(Tag.Char, AsChar4(IF x.type = "number" THEN AsInt4(x.v)[1] ELSE Append(x.v, 0)[1]))
      [] name = "int64" -> Argument(Tag.Int64, AsLong8(x.v))
      [] name = "midi" -> Argument(Tag.Midi, AsInt4(x.v))
      [] name = "boolean" -> Argument(IF x.v THEN Tag.True ELSE Tag.False, <<>>)
      [] name = "timetag" -> Argument(Tag.TimeTag, AsLong8(x.v))
      [] name = "[" -> Argument(Tag.ArrayBegin, <<>>)
      [] name = "]" -> Argument(Tag.ArrayEnd, <<>>)

pushValue(value) ==         \* pushValuesLua, of one entry
    CASE value.type = "boolean" -> Argument(IF value.v THEN Tag.True ELSE Tag.False, <<>>)
      [] value.type = "number" -> IF Whole(value.v) THEN Argument(Tag.Int32, AsInt4(value.v))
                                  ELSE Argument(Tag.Double, value.v)
      [] value.type = "string" -> Argument(Tag.String, CString(value.v))
      [] value.type = "table" -> pushSpecial(value.name, value.v)
      [] OTHER -> BadEntry

\* The name and the value of parseOSCMessage for an argument
parsed(a) ==
    CASE a.tag \in {Tag.True, Tag.False} -> <<"boolean", Boolean(a.tag = Tag.True)>>
      [] a.tag = Tag.Nil -> <<"nil", String("nil")>>
      [] a.tag = Tag.Infinitum -> <<"infinity", Number("INFINITY")>>
      [] a.tag = Tag.Int32 -> <<"int32", Number(FromSigned4(a.v))>>
      [] a.tag = Tag.Float -> <<"float", Number(FromFloat4(a.v))>>
      [] a.tag = Tag.Char -> <<"char", Number(FromSigned4(AsChar4(a.v[1])))>>
      [] a.tag = Tag.RgbaColor -> <<"rgbacolor", Number(FromUnsigned4(a.v))>>
      [] a.tag = Tag.Midi -> <<"midi", Number(FromUnsigned4(a.v))>>
      [] a.tag = Tag.Int64 -> <<"int64", Number(FromLong8(a.v))>>
      [] a.tag = Tag.TimeTag -> <<"timetag", Number(FromLong8(a.v))>>
      [] a.tag = Tag.Double -> <<"double", Number(a.v)>>
      [] a.tag = Tag.String -> <<"string", String(a.v)>>
      [] a.tag = Tag.Symbol -> <<"symbol", String(a.v)>>
      [] a.tag = Tag.Blob -> <<"blob", String(a.v)>>
      [] a.tag = Tag.ArrayBegin -> <<"[", String("[")>>
      [] a.tag = Tag.ArrayEnd -> <<"]", String("]")>>
parsedValue(a, fulltype) ==
    LET p == parsed(a) IN IF fulltype THEN Special(p[1], p[2]) ELSE p[2]

------------------------------------------------------------------------------
(* The OutboundPacketStream *)

ElementSizeSlotRequired == IF elementSizePtr_ # Absent THEN 4 ELSE 0
TypeTags == Capacity - typeTagsCurrent_
Size == argumentCurrent_ + (IF messageIsInProgress_ THEN RoundUp4(TypeTags + 2) ELSE 0)

SpaceForBundle == Size + ElementSizeSlotRequired + 16 <= Capacity
SpaceForMessage(address) == Size + ElementSizeSlotRequired + Len(Str4(address)) + 4 <= Capacity
SpaceForArgument(n) == argumentCurrent_ + n + RoundUp4(TypeTags + 3) <= Capacity

\* The cursor moves past the slot of the new element, in which the slot around it is remembered.
\* The outermost element has no slot: its "slot" is where the data begin.
BeginElement(p) ==
    IF elementSizePtr_ = Absent THEN [cursor |-> p, slot |-> 0, data |-> data]
    ELSE [cursor |-> p + 4, slot |-> p, data |-> Store(data, p, Host(elementSizePtr_))]

EndElementWithSlot(p, m) ==
    IF elementSizePtr_ = 0 THEN [slot |-> Absent, data |-> m]
    ELSE [slot |-> FromHost(Load(m, elementSizePtr_, 4)),
          data |-> Store(m, elementSizePtr_, FromInt(Host(p - elementSizePtr_)))]
EndElement(p, m) ==
    IF elementSizePtr_ = 0 THEN [slot |-> Absent, data |-> m]
    ELSE [slot |-> FromHost(Load(m, elementSizePtr_, 4)),
          data |-> Store(m, elementSizePtr_, FromInt(Host(p - elementSizePtr_ - 4)))]

\* toOSCLua passes the exception on as an error, like those of the entries; the buffer is dropped.
Throw(what) == refused' = what /\ UNCHANGED <<streamvars, table, written>>

Element(kind, head) == [kind |-> kind, head |-> head, items |-> <<>>]
Inside(kind) == table # <<>> /\ Last(table).kind = kind
Going == written = <<>> /\ refused = <<>>
AtElement == Going /\ (table = <<>> \/ Inside("bundle")) /\ Len(table) < MaxDepth
Items == Last(table).items

\* The element that ends becomes an item of the one around it, or it is the whole table.
EndOfElement ==
    IF Len(table) = 1 THEN written' = table /\ table' = <<>>
    ELSE /\ table' = [Front(table) EXCEPT ![Len(table) - 1].items = Append(@, Last(table))]
         /\ UNCHANGED written

BeginBundle(timeTag) ==
    /\ AtElement /\ ~messageIsInProgress_
    /\ LET b == BeginElement(messageCursor_)
           new == Append(table, Element("bundle", timeTag))
       IN  IF ~SpaceForBundle THEN Throw(new)
           ELSE /\ data' = Store(b.data, b.cursor, BundleHead \o FromInt(timeTag))
                /\ elementSizePtr_' = b.slot
                /\ messageCursor_' = b.cursor + 16 /\ argumentCurrent_' = b.cursor + 16
                /\ table' = new
                /\ UNCHANGED <<typeTagsCurrent_, messageIsInProgress_, written, refused>>

EndBundle ==
    /\ Going /\ Inside("bundle")
    /\ elementSizePtr_ # Absent /\ ~messageIsInProgress_
    /\ LET e == EndElement(messageCursor_, data) IN data' = e.data /\ elementSizePtr_' = e.slot
    /\ EndOfElement
    /\ UNCHANGED <<typeTagsCurrent_, messageCursor_, argumentCurrent_, messageIsInProgress_, refused>>

BeginMessage(address) ==
    /\ AtElement /\ ~messageIsInProgress_
    /\ LET b == BeginElement(messageCursor_)
           new == Append(table, Element("message", address))
           past == b.cursor + Len(Str4(address))
       IN  IF ~SpaceForMessage(address) THEN Throw(new)
           ELSE /\ data' = Store(b.data, b.cursor, Str4(address))
                /\ elementSizePtr_' = b.slot
                /\ messageCursor_' = past /\ argumentCurrent_' = past
                /\ typeTagsCurrent_' = Capacity /\ messageIsInProgress_' = TRUE
                /\ table' = new
                /\ UNCHANGED <<written, refused>>

\* The arguments move up to make room for the type tags, which are written in order now.
EndMessage ==
    /\ Going /\ Inside("message") /\ messageIsInProgress_
    /\ LET tags == Reverse(Load(data, typeTagsCurrent_, TypeTags))
           slot == RoundUp4(TypeTags + 2)
           arguments == Load(data, messageCursor_, argumentCurrent_ - messageCursor_)
           moved == Store(data, messageCursor_ + slot, arguments)
           head == <<Comma>> \o tags \o Zeros(slot - Len(tags) - 1)
           past == messageCursor_ + slot + Len(arguments)
           e == EndElement(past, Store(moved, messageCursor_, head))
       IN  /\ data' = e.data /\ elementSizePtr_' = e.slot
           /\ messageCursor_' = past /\ argumentCurrent_' = past
    /\ typeTagsCurrent_' = Capacity /\ messageIsInProgress_' = FALSE
    /\ EndOfElement
    /\ UNCHANGED refused

\* What operator<< writes of an argument, besides its tag
StreamNumber4(a) == FromInt(a.v)
StreamNumber8(a) == FromInt(a.v)
StreamString(a) == Str4(a.v)
StreamBlob(a) == FromInt(Host(Len(a.v))) \o Padded(a.v)
Streamed(a) ==
    CASE a.tag \in Empty \cup Arrays -> <<>>
      [] a.tag \in Four -> StreamNumber4(a)
      [] a.tag \in Eight -> StreamNumber8(a)
      [] a.tag \in Strings -> StreamString(a)
      [] a.tag = Tag.Blob -> StreamBlob(a)

PushValue(value) ==
    /\ Going /\ Inside("message") /\ Len(Items) < MaxEntries
    /\ LET a == pushValue(value)
           bytes == Streamed(a)
           new == [table EXCEPT ![Len(table)].items = Append(@, value)]
       IN  IF a = BadEntry \/ ~SpaceForArgument(Len(bytes)) THEN Throw(new)
           ELSE /\ data' = Store(Store(data, typeTagsCurrent_ - 1, <<a.tag>>), argumentCurrent_, bytes)
                /\ typeTagsCurrent_' = typeTagsCurrent_ - 1
                /\ argumentCurrent_' = argumentCurrent_ + Len(bytes)
                /\ table' = new
                /\ UNCHANGED <<messageCursor_, elementSizePtr_, messageIsInProgress_, written, refused>>

OscInit ==
    /\ data = [i \in 0..Capacity - 1 |-> 255]       \* 255: not written yet
    /\ typeTagsCurrent_ = Capacity /\ messageCursor_ = 0 /\ argumentCurrent_ = 0
    /\ elementSizePtr_ = Absent /\ messageIsInProgress_ = FALSE
    /\ table = <<>> /\ written = <<>> /\ refused = <<>>

OscNext ==
    \/ \E timeTag \in TimeTags : BeginBundle(timeTag)
    \/ \E address \in Addresses : BeginMessage(address)
    \/ \E value \in Entries : PushValue(value)
    \/ EndBundle \/ EndMessage

OscSpec == OscInit /\ [][OscNext]_oscvars

------------------------------------------------------------------------------
(* The received elements, which read the bytes from p up to end of memory m *)

Malformed == [kind |-> "malformed"]
IsMultipleOf4(n) == n % 4 = 0
RECURSIVE StringAt(_, _)
StringAt(m, p) == IF m[p] = 0 THEN <<>> ELSE <<m[p]>> \o StringAt(m, p + 1)

\* The first boundary of 4 bytes after the string at p
FindStr4End(m, p, end) ==
    IF p >= end THEN Absent
    ELSE IF m[p] = 0 THEN p + 4
    ELSE LET last == {q \in p..end - 1 : q % 4 = 3 /\ m[q] = 0 /\ \A r \in p..q - 1 : r % 4 # 3 \/ m[r] # 0}
         IN  IF last = {} THEN Absent ELSE (CHOOSE q \in last : TRUE) + 1

\* ReceivedMessageArgumentIterator::Advance: where the argument after this one is
Advance(m, tag, p, end) ==
    CASE tag \in Empty \cup Arrays -> p
      [] tag \in Four -> p + 4
      [] tag \in Eight -> p + 8
      [] tag \in Strings -> FindStr4End(m, p, end)
      [] tag = Tag.Blob -> p + 4 + RoundUp4(FromHost(ToInt(Load(m, p, 4))))

\* AsInt32, AsFloat, AsInt64, AsDouble, AsString, AsBlob and the others
AsNumber(m, p, n) == ToInt(Load(m, p, n))
AsBlob(m, p) == Load(m, p + 4, FromHost(ToInt(Load(m, p, 4))))
ArgumentAt(m, tag, p) ==
    Argument(tag, CASE tag \in Empty \cup Arrays -> <<>>
                    [] tag \in Four -> AsNumber(m, p, 4)
                    [] tag \in Eight -> AsNumber(m, p, 8)
                    [] tag \in Strings -> StringAt(m, p)
                    [] tag = Tag.Blob -> AsBlob(m, p))

\* ReceivedMessage::Init checks the arguments while it goes over the tags; "at" is Absent once one is bad.
CheckArgument(m, end, tag, s) ==
    IF s.at = Absent THEN s
    ELSE LET past == Advance(m, tag, s.at, end)
         IN  [level |-> s.level + (IF tag = Tag.ArrayBegin THEN 1 ELSE IF tag = Tag.ArrayEnd THEN -1 ELSE 0),
              at |-> IF tag \in Empty \cup Arrays THEN s.at
                     ELSE IF s.at = end \/ past > end THEN Absent ELSE past,
              args |-> Append(s.args, ArgumentAt(m, tag, s.at))]

ReceivedMessage(m, p, size) ==
    LET end == p + size
        tagsBegin == FindStr4End(m, p, end)
        arguments == FindStr4End(m, tagsBegin, end)
        message(args) == [kind |-> "message", head |-> StringAt(m, p), items |-> args]
        checked == FoldLeft(LAMBDA s, tag : CheckArgument(m, end, tag, s),
                            [level |-> 0, at |-> arguments, args |-> <<>>], StringAt(m, tagsBegin + 1))
    IN  IF size = 0 \/ ~IsMultipleOf4(size) \/ tagsBegin = Absent THEN Malformed
        ELSE IF tagsBegin = end THEN message(<<>>)
        ELSE IF m[tagsBegin] # Comma THEN Malformed
        ELSE IF m[tagsBegin + 1] = 0 THEN message(<<>>)
        ELSE IF arguments = Absent \/ checked.at = Absent \/ checked.level # 0 THEN Malformed
        ELSE message(checked.args)

\* The elements of a bundle from p on: where each begins and how long it is
RECURSIVE BundleElements(_, _, _)
BundleElements(m, p, end) ==
    IF p = end THEN <<>>
    ELSE LET size == FromHost(ToInt(Load(m, p, 4)))
         IN  IF p + 4 > end \/ ~IsMultipleOf4(size) \/ p + 4 + size > end THEN <<Malformed>>
             ELSE <<[kind |-> "element", at |-> p + 4, size |-> size]>> \o BundleElements(m, p + 4 + size, end)

\* fromOSC reads all elements of a bundle: one that is malformed ends it.
RECURSIVE ReceivedElement(_, _, _)
ReceivedBundle(m, p, size) ==
    IF size < 16 \/ ~IsMultipleOf4(size) \/ Load(m, p, 8) # BundleHead THEN Malformed
    ELSE LET elements == BundleElements(m, p + 16, p + size)
             items == [i \in DOMAIN elements |-> ReceivedElement(m, elements[i].at, elements[i].size)]
         IN  IF Malformed \in Range(elements) \/ Malformed \in Range(items) THEN Malformed
             ELSE [kind |-> "bundle", head |-> ToInt(Load(m, p + 8, 8)), items |-> items]

ReceivedElement(m, p, size) ==
    IF size > 0 /\ m[p] = 35        \* IsBundle: '#'
    THEN ReceivedBundle(m, p, size)
    ELSE ReceivedMessage(m, p, size)

ReceivedPacket == IF Size = 0 \/ ~IsMultipleOf4(Size) THEN Malformed ELSE ReceivedElement(data, 0, Size)

\* fromOSC
RECURSIVE fromOSC(_, _)
fromOSC(e, fulltype) ==
    [e EXCEPT !.items = [i \in DOMAIN e.items |-> IF e.kind = "bundle" THEN fromOSC(e.items[i], fulltype)
                                                  ELSE parsedValue(e.items[i], fulltype)]]

\* ReceivedMessageArgument::ComputeArrayItemCount of the array that begins at tag i
ComputeArrayItemCount(tags, i) ==
    LET count == FoldLeft(LAMBDA s, tag :
                     IF s.done THEN s
                     ELSE IF tag = Tag.ArrayBegin THEN [s EXCEPT !.level = @ + 1]
                     ELSE IF tag = Tag.ArrayEnd THEN IF s.level = 0 THEN [s EXCEPT !.done = TRUE]
                                                     ELSE [s EXCEPT !.level = @ - 1]
                     ELSE IF s.level = 0 THEN [s EXCEPT !.result = @ + 1] ELSE s,
                     [done |-> FALSE, level |-> 0, result |-> 0], SubSeq(tags, i + 1, Len(tags)))
    IN  count.result

------------------------------------------------------------------------------
(* Properties *)

OscTypeOK ==
    /\ typeTagsCurrent_ \in 0..Capacity /\ messageCursor_ \in 0..Capacity
    /\ argumentCurrent_ \in 0..Capacity /\ messageIsInProgress_ \in BOOLEAN
    /\ elementSizePtr_ \in 0..Capacity \cup {Absent}
    /\ \A i \in DOMAIN data : data[i] \in 0..255

\* What an element takes on the wire, by the format and not by the code that writes it
RECURSIVE WireSize(_)
WireSize(e) ==
    IF e.kind = "bundle" THEN FoldLeft(LAMBDA n, i : n + 4 + WireSize(i), 16, e.items)
    ELSE LET size(v) == LET a == pushValue(v)
                        IN  CASE a.tag \in Strings -> RoundUp4(Len(a.v) + 1)
                              [] a.tag = Tag.Blob -> 4 + RoundUp4(Len(a.v))
                              [] OTHER -> Len(a.v)
         IN  FoldLeft(LAMBDA n, v : n + size(v), RoundUp4(Len(e.head) + 1) + RoundUp4(Len(e.items) + 2), e.items)
\* ... and what a table takes of which the last elements are open: each inner one has its slot.
OpenSize(t) == FoldLeft(LAMBDA n, e : n + 4 + WireSize(e), -4, t)

\* A table is refused exactly when the entry that comes next is none that toOSC takes or its packet
\* does not fit into the buffer: no sooner, and what has been let in can be ended without another
\* check (EndMessage and EndBundle make none).
RefusedWhenTooLong ==
    /\ table # <<>> => OpenSize(table) = Size /\ Size <= Capacity
    /\ refused # <<>> => \/ LET items == Last(refused).items IN items # <<>> /\ pushValue(Last(items)) = BadEntry
                         \/ OpenSize(refused) > Capacity

\* Arguments and type tags, which grow towards each other, do not meet, and moving the arguments up
\* for the tags to be put before them stays in the buffer.
PartsApart ==
    messageIsInProgress_ =>
        /\ argumentCurrent_ <= typeTagsCurrent_ /\ TypeTags = Len(Items)
        /\ argumentCurrent_ + RoundUp4(TypeTags + 2) <= Capacity

\* From the innermost slot on, the offsets in the slots lead to all open elements.
SlotsLeadOut ==
    LET chain[n \in Nat] == IF n = 0 THEN elementSizePtr_ ELSE FromHost(Load(data, chain[n - 1], 4))
    IN  /\ elementSizePtr_ = Absent <=> table = <<>>
        /\ \A n \in 0..Len(table) - 1 :
             /\ chain[n] = 0 <=> n = Len(table) - 1
             /\ n > 0 => chain[n] < chain[n - 1]

\* toOSC does not look at how "[" and "]" are paired, fromOSC at their number (arrayLevel).
RECURSIVE BalancedArrays(_)
BalancedArrays(t) ==
    LET count(tag) == Cardinality({i \in DOMAIN t.items : pushValue(t.items[i]).tag = tag})
    IN  IF t.kind = "bundle" THEN \A i \in DOMAIN t.items : BalancedArrays(t.items[i])
        ELSE count(Tag.ArrayBegin) = count(Tag.ArrayEnd)

\* The plain values that an argument can carry as they are: a whole number is cast to 32 bits, a
\* string ends at its first zero.
IsExact(v) ==
    \/ v.type = "boolean"
    \/ v.type = "number" /\ (Whole(v.v) => FitsInt(v.v))
    \/ v.type = "string" /\ CString(v.v) = v.v

\* Colours and MIDI messages are read without the sign that the cast gave them; those of 2^31 or
\* more are numbers that do not fit the cast again.
ReadsUnsigned(a) == a.tag \in {Tag.RgbaColor, Tag.Midi} /\ a.v[4] >= 128

\* What fromOSC reads is the table: with full types every value, but for large colours and MIDI
\* messages, reads as what makes the same argument again, without them exact values read as themselves.
RECURSIVE SameTable(_, _, _)
SameTable(t, r, fulltype) ==
    /\ r.kind = t.kind /\ r.head = t.head /\ Len(r.items) = Len(t.items)
    /\ \A i \in DOMAIN t.items :
        IF t.kind = "bundle" THEN SameTable(t.items[i], r.items[i], fulltype)
        ELSE LET a == pushValue(t.items[i])
             IN  IF fulltype THEN ReadsUnsigned(a) \/ pushValue(r.items[i]) = a
                 ELSE IsExact(t.items[i]) => r.items[i] = t.items[i]

\* fromOSC takes a packet that toOSC has made exactly when in each of its messages as many arrays
\* end as begin, and then reads the table.
ReadsBack ==
    written # <<>> =>
        LET packet == ReceivedPacket
        IN  /\ packet # Malformed <=> BalancedArrays(written[1])
            /\ packet # Malformed =>
                 \A fulltype \in BOOLEAN : SameTable(written[1], fromOSC(packet, fulltype), fulltype)
=============================================================================
