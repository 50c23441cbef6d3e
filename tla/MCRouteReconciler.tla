------------------------- MODULE MCRouteReconciler -------------------------
(***************************************************************************)
(* Instance of RouteReconciler: two prefixes, two hops of which one adds a *)
(* GUE header, and routes to an interface, to each hop and to both.        *)
(***************************************************************************)
EXTENDS RouteReconciler, TLC

CONSTANTS p1, p2, h1, h2

MCPrefixes == {p1, p2}
MCHops == {h1, h2}
MCGueHops == {h2}
MCRoutes == {Iface, <<h1>>, <<h2>>, <<h1, h2>>}
MCSymmetry == Permutations(MCPrefixes)
=============================================================================
