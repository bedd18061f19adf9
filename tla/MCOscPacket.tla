----------------------------- MODULE MCOscPacket -----------------------------
(* Small packets: a buffer that two bundles, a message and a few arguments fill, and arguments of   *)
(* every width, of strings and blobs around the boundary of four bytes.                             *)
EXTENDS OscPacket

One == <<1, 0, 0, 0, 0, 0, 0, 0>>
MinusTwo == <<254, 255, 255, 255, 255, 255, 255, 0>>
Beyond32 == <<1, 0, 0, 128, 0, 0, 0, 0>>
Half == <<7, 6, 5, 4, 3, 2, 1, 9>>
MCAddresses == {<<47, 97>>, <<47, 97, 98, 99>>}
MCTimeTags == {One}
MCOutOfRange == <<0, 0, 0, 128>>        \* of x86
SpecialArguments == {<<"blob", String(<<0, 1, 0, 2, 3>>)>>, <<"int64", Number(Beyond32)>>, <<"float", Number(One)>>,
             <<"char", String(<<200>>)>>, <<"symbol", String(<<97, 98, 99>>)>>, <<"nil", Boolean(FALSE)>>,
             <<"infinity", Boolean(FALSE)>>, <<"[", Boolean(FALSE)>>, <<"]", Boolean(FALSE)>>,
             <<"rgbacolor", Number(MinusTwo)>>, <<"float", String(<<>>)>>, <<"color", Number(One)>>}
MCEntries ==
    {Boolean(TRUE), Number(MinusTwo), Number(Beyond32), Number(Half), String(<<>>), String(<<97, 98, 0, 99>>),
     [type |-> "function"]}
        \cup {Special(s[1], s[2]) : s \in SpecialArguments}
=============================================================================
