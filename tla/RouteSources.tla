---------------------------- MODULE RouteSources ----------------------------
(***************************************************************************)
(* What ManagedRouteTable promises the traffic: the routes in force are    *)
(* those of three sources, each update of a source takes effect in one     *)
(* step and leaves the other sources and the circuit-breaker settings      *)
(* alone, and a change of those settings leaves every route alone.         *)
(***************************************************************************)
EXTENDS Sequences

CONSTANTS
    Payloads,    \* route lists an update may carry
    CbConfigs    \* circuit-breaker settings, "switched off" among them

VARIABLES
    routes,      \* routes in force, by source
    breaker      \* circuit-breaker settings in force

Sources == {"static", "kv", "service"}
NoRoutes == [s \in Sources |-> <<>>]

Init == routes = NoRoutes /\ breaker \in CbConfigs

Replace(s, defs) == routes' = [routes EXCEPT ![s] = defs] /\ UNCHANGED breaker

UpdateKv(defs) == Replace("kv", defs)
UpdateServices(defs) == Replace("service", defs)
AppendStatic(defs) == Replace("static", routes["static"] \o defs)
ClearStatic == Replace("static", <<>>)
SetBreaker(cb) == breaker' = cb /\ UNCHANGED routes

Next ==
    \/ \E defs \in Payloads :
          UpdateKv(defs) \/ UpdateServices(defs) \/ AppendStatic(defs)
    \/ ClearStatic
    \/ \E cb \in CbConfigs : SetBreaker(cb)

Spec == Init /\ [][Next]_<<routes, breaker>>
=============================================================================
