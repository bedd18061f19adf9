----------------------------- MODULE MCLuaChunk -----------------------------
EXTENDS LuaChunk
Proto(source, k, p, names) ==
    [source |-> source, lines |-> <<1, 3>>, sizes |-> <<Len(names), 0, 2, 2>>, code |-> <<"GETGLOBAL", "RETURN">>, k |-> k, p |-> p,
     lineinfo |-> <<1, 3>>, locvars |-> IF names = <<>> THEN <<>> ELSE <<[varname |-> <<"x">>, startpc |-> 0, endpc |-> 1]>>,
     upvalues |-> names]
Source == <<"@", "a">>
Konstants == {<<>>, <<[type |-> "nil"], [type |-> "boolean", value |-> 1]>>,
              <<[type |-> "string", value |-> <<>>], [type |-> "number", value |-> 5]>>}
Leaves == {Proto(s, k, <<>>, n) : s \in {Source, NoString, <<"=">>}, k \in Konstants, n \in {<<>>, << <<"u">> >>}}
Deep == Proto(Source, <<>>, <<Proto(Source, <<>>, <<Proto(Source, <<>>, <<>>, <<>>)>>, <<>>)>>, <<>>)
MCFunctions == {Proto(Source, <<>>, p, <<>>) : p \in {<<x>> : x \in Leaves}} \cup
               {Proto(Source, <<>>, <<Proto(Source, <<>>, <<>>, <<>>), Proto(<<"=">>, <<>>, <<>>, <<>>)>>, <<>>), Deep} \cup
               {Proto(Source, k, <<>>, <<>>) : k \in Konstants}
=============================================================================
