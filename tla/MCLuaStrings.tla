---------------------------- MODULE MCLuaStrings ----------------------------
\* Instance of LuaStrings for TLC: all patterns of up to two items and some longer ones.
EXTENDS LuaStrings, SequencesExt

Chars == <<"\\0", "$", "%", "(", ")", "*", "+", "-", ".", "0", "1", "2", "?", "A", "D", "W", "[", "]", "^", "a", "b", "c", "d",
           "f", "l", "w", "x">>
All == {Chars[i] : i \in 2..Len(Chars)}
Letters == {"A", "D", "W", "a", "b", "c", "d", "f", "l", "w", "x"}
ClassSets == [a |-> Letters, d |-> {"0", "1", "2"}, w |-> Letters \cup {"0", "1", "2"}]

Single(text, chars, rep) == [kind |-> "item", text |-> Append(text, rep), chars |-> chars, rep |-> rep]
Item(text, chars, rep) == IF rep = "" THEN [Single(text, chars, rep) EXCEPT !.text = text] ELSE Single(text, chars, rep)
A(rep) == Item(<<"a">>, {"a"}, rep)
B(rep) == Item(<<"b">>, {"b"}, rep)
Dot(rep) == Item(<<".">>, All, rep)
Digits(rep) == Item(<<"%", "d">>, ClassSets.d, rep)
NoDigit(rep) == Item(<<"%", "D">>, All \ ClassSets.d, rep)
NotA(rep) == Item(<<"[", "^", "a", "]">>, All \ {"a"}, rep)
ABorDash(rep) == Item(<<"[", "a", "-", "b", "%", "-", "]">>, {"a", "b", "-"}, rep)
Bracket(rep) == Item(<<"[", "]", "a", "]">>, {"]", "a"}, rep)
Open == [kind |-> "open", text |-> <<"(">>]
Close == [kind |-> "close", text |-> <<")">>]
Here == [kind |-> "position", text |-> <<"(", ")">>]
Back(k) == [kind |-> "back", text |-> <<"%", <<"1", "2">>[k]>>, number |-> k]
Balance == [kind |-> "balance", text |-> <<"%", "b", "a", "b">>, left |-> "a", right |-> "b"]
Frontier == [kind |-> "frontier", text |-> <<"%", "f", "[", "b", "]">>, chars |-> {"b"}]
End == [kind |-> "end", text |-> <<"$">>]
Anchor == [kind |-> "anchor", text |-> <<"^">>]

Pieces == {A(""), A("*"), A("-"), B("+"), Dot("?"), Dot("*"), NotA("*"), ABorDash("+"), NoDigit(""), Bracket("-"),
           Open, Close, Here, Back(1), Balance, Frontier}
MCPatterns ==
    {<<>>} \cup {<<x>> : x \in Pieces} \cup ({<<x, y>> : x \in Pieces, y \in Pieces} \ {<<Open, Close>>}) \cup
    {<<Open, x, Close, y>> : x \in {A("*"), Dot("-"), ABorDash("+")}, y \in {Back(1), End, B(""), Here}} \cup
    {<<Open, Open, Dot("-"), Close, A("*"), Close, Back(2)>>, <<Open, Dot("*"), Close, Back(1), End>>,
     <<Anchor, A("*")>>, <<Anchor, Open, Dot("-"), Close, B("")>>, <<A("*"), End>>, <<Dot("-"), End>>,
     <<Open, A("?"), Close, Open, B("?"), Close, Open, Dot("?"), Close, End>>, <<Open, A("*"), Open, B("*"), Close, Close, Back(1)>>,
     <<Open, Dot("*"), Close, B(""), Here, A("-"), End>>, <<Digits("*"), Balance, Dot("?")>>}

MCSubjects == UNION {[1..k -> {"a", "b"}] : k \in 0..2} \cup
              {<<"a", "b", "a", "b">>, <<"a", "a", "b", "b">>, <<"1", "]", "a", "-">>, <<"b", "b", "a", "a", "b">>}
MCInits == {1, -2}
MCReplacements ==
    {[type |-> "string", parts |-> <<"x", "%0">>, text |-> <<"x", "%", "0">>],
     [type |-> "string", parts |-> <<"%1", "%">>, text |-> <<"%", "1", "%", "%">>],
     [type |-> "table", keys |-> {<<"a">>, <<"b">>, <<>>, <<"2">>}, text |-> <<"x">>]}
=============================================================================
