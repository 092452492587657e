----------------------------- MODULE MCPCTable ------------------------------
(* PCTable for TLC: two servers of one name, names that begin alike, a     *)
(* name with a parenthesis, and a table that outgrows its first block.     *)
EXTENDS PCTable

MCChars == {"p", "M", "t", "N", "L", "(", ")"}

Server(name, addr) == [name |-> name, type |-> <<"p">>, addr |-> addr]

MCServers == {Server(<<"M">>, "a1"), Server(<<"M">>, "a2"),
              Server(<<"M", "t">>, "a3"), Server(<<"N", "(">>, "a4"),
              Server(<<"L">>, "a5")}

MCStatic == {Server(<<"L">>, "a5")}

MCWanted == {<<<<"p">>, <<"M">>>>, <<<<"p">>, <<"M", "t">>>>}
=============================================================================
