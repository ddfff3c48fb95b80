----------------------------- MODULE MCProxyConn -----------------------------
(* Two connections, two addresses, lists with every kind of row, and        *)
(* targets on both sides of what the dump has room for.                     *)
EXTENDS ProxyConn

CONSTANTS a1, a2, u1, u2

Chars(n) == [i \in 1 .. n |-> 120]

Row(a, uuid, flow) == [addr |-> a, uuid |-> uuid, flow |-> Chars(flow)]

MCLists == {{Row(a1, u1, 0), Row(a2, u2, 16)}, {Row(a2, NoId, 0)},
            {Row(a1, BadId, 0), Row(a2, u2, 300)}}

MCTargets == {Target(1, 443, IPv4, Chars(4)), Target(2, 53, Domain, Chars(23)),
              Target(1, 80, Domain, Chars(41)), Target(1, 80, Domain, Chars(42))}
=============================================================================
