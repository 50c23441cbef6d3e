--------------------------- MODULE MCSysRibServer ---------------------------
(***************************************************************************)
(* The server over a one-bit address space: the hosts 0 and 1 and the      *)
(* default route.                                                          *)
(***************************************************************************)
EXTENDS SysRibServer, TLC

CONSTANTS i1, i2, p1, p2, c1

Default == <<0, 0>>

Connected(p, i) == [prefix |-> p, connected |-> i, nexthops |-> {},
                    ad |-> AdminDistanceConnected, metric |-> 0]
Via(p, nhs, ad) == [prefix |-> p, connected |-> NoInterface, nexthops |-> nhs,
                    ad |-> ad, metric |-> 0]

None_ == {}
Two == {p1, p2}
Second == {p2}
Client == {c1}
BothInterfaces == {i1, i2}
FirstInterface == {i1}

\* Host 1 is on two links.
TwoLinks == {Connected(Host(1), i1), Connected(Host(1), i2)}
\* The default is reached through host 1, that is, through itself while host 1
\* has no route of its own.
CyclicRoutes == {Connected(Host(1), i1), Via(Default, {1}, AdminDistanceStatic)}
HostPolicy == {Host(1)}

\* The goroutines are interchangeable when all of them or none watch interfaces.
Interchangeable == Permutations({p1, p2})

\* The safety properties say nothing once this is false, and it stays false.
NotRaced == ~raced
=============================================================================
