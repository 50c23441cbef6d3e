------------------------------ MODULE MCSysRib ------------------------------
(***************************************************************************)
(* RIBs over a two-bit address space: 0/1 and 1/1 are subnets, hosts 0..3. *)
(***************************************************************************)
EXTENDS SysRib

CONSTANTS i1, i2

Left == <<0, 1>>
Right == <<1, 1>>

Connected(p, i) == [prefix |-> p, connected |-> i, nexthops |-> {},
                    ad |-> AdminDistanceConnected, metric |-> 0]
Via(p, nhs, ad, metric) == [prefix |-> p, connected |-> NoInterface, nexthops |-> nhs,
                            ad |-> ad, metric |-> metric]

MCInterfaces == {i1, i2}
\* A multi-homed subnet on the left; the right subnet connected, over the left
\* one, and by BGP; and host routes that resolve over these and each other,
\* some of them in a cycle.
MCRoutes == {Connected(Left, i1), Connected(Left, i2),
             Via(Right, {0}, AdminDistanceStatic, 7),
             Via(Right, {3}, AdminDistanceBGP, 5),
             Via(Right, {0, 1}, AdminDistanceBGP, 1),
             Via(Host(3), {2}, AdminDistanceGRIBI, 0),
             Via(Host(3), {1}, AdminDistanceBGP, 0),
             Connected(Right, i2),
             Via(Host(1), {3}, AdminDistanceStatic, 0)}
MCPolicies == {<<0, 0>>, Host(1)}
=============================================================================
