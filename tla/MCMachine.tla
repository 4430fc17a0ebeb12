----------------------------- MODULE MCMachine ------------------------------
(* Two servos, at most two selected, and lines that are right, wrong, too    *)
(* long for the buffer, or have more arguments than fit.                     *)
EXTENDS Machine

SomeBauds == {115200, 1000000}
TwoServos == <<1, 2>>
SomeRegs == {"LED", "GPOS"}
SomeValue == [x \in Byte \X SomeRegs |->
    IF x[2] = "LED" THEN <<x[1]>> ELSE <<x[1], 2>>]
Silent == {{}, {2}}
Nothing == {<<>>}
NoChunk == {}
SomeBytes == {0}
NoSelections == {}

SomeNumbers == [t \in {"", "0", "1", "2", "258", "1000000", "10000000"} |->
    CASE t \in {"", "0"} -> 0 [] t = "1" -> 1 [] t = "2" -> 2
      [] t = "258" -> 258 [] t = "1000000" -> 1000000
      [] t = "10000000" -> 10000000]
WideNumbers == {"10000000"}

Get(name) == [form |-> "get", name |-> name]
Set(name, args) == [form |-> "set", name |-> name, args |-> args]
Raw(kind, tokens) == [form |-> "raw", kind |-> kind, tokens |-> tokens]

SomeLines ==
    {Get("PING"), Get("SEL"), Get("LED"), Get("GPOS"), Get("XBAUD"),
     Set("SEL", <<"2">>), Set("SEL", <<"1", "258">>), Set("SEL", <<>>),
     Set("LED", <<"1">>), Set("LED", <<"1", "", "2">>),
     Set("GPOS", <<"10000000">>), Set("PING", <<>>),
     Set("XBAUD", <<"258">>), Set("XBAUD", <<>>),
     Raw("hello", <<"X", "L", "\r", "\n">>), Raw("mistake", <<"\n">>),
     Raw("mistake", <<"X", "L", "+", "FOO", "\n">>),
     Raw("mistake", <<"X", "L", "+", "LED", "\r", "\n">>),
     Raw("mistake", <<"X", "L", "+">> \o [i \in 1..9 |-> "FOO"] \o <<"\n">>),
     Raw("mistake", [i \in 1..14 |-> "FOO"] \o <<"\r", "\n">>)}
=============================================================================
