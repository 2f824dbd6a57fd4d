--------------------------- MODULE MCConsulWatcher ---------------------------
EXTENDS ConsulWatcher, TLC

Check(kind, node, name, sid, status) ==
    [kind |-> kind, node |-> node, name |-> name, sid |-> sid, status |-> status, tagged |-> name # ""]
Svc(name, node, status) == Check("service", node, name, name, status)
Tag(src, path, proto) == [src |-> src, path |-> path, proto |-> proto, ours |-> TRUE, weight |-> 0]
Other == [src |-> "x", path |-> 0, proto |-> "", ours |-> FALSE, weight |-> 0]
Inst(name, node, port, tags) ==
    [node |-> node, name |-> name, sid |-> name, port |-> port, tags |-> tags,
     address |-> node, service_address |-> ""]

A(port) == Inst("a", "n1.a", port, {Tag("/", 1, ""), Tag("/api", 2, "https"), Other})
B == [Inst("b", "n2", 80, {Tag(":70", 0, "tcp")}) EXCEPT !.service_address = "vip"]
C == Inst("c", "n2", 90, {Tag("/c", 1, "")})
D == Inst("d", "n3", 100, {Tag("/d", 1, "")})

\* Another instance of a, on node n1 with id a.a: it reads as A does.
A2 == [Inst("a", "n1", 82, {Tag("/a2", 3, "")}) EXCEPT !.sid = "a.a"]
MCIdOf == <<"n1.a", "a">> :> "n1.a.a" @@ <<"n1", "a.a">> :> "n1.a.a"
          @@ <<"n2", "b">> :> "n2.b" @@ <<"n2", "c">> :> "n2.c" @@ <<"n3", "d">> :> "n3.d"

\* First a and b are well, the second instance of a is not, c is on the
\* blacklist and the node of d is down.  Then a is on another port, b's node
\* and d are under maintenance, and c warns.
MCChecks ==
    [well |-> {Svc("a", "n1.a", "passing"), Svc("b", "n2", "passing"), Svc("c", "n2", "passing"),
               Check("service", "n1", "a", "a.a", "critical"), Check("serf", "n1.a", "", "", "passing"),
               Svc("d", "n3", "passing"), Check("serf", "n3", "", "", "critical")},
     moved |-> {Svc("a", "n1.a", "passing"), Svc("b", "n2", "passing"), Svc("c", "n2", "warning"),
                Check("node_maintenance", "n2", "", "", "passing"),
                Svc("d", "n3", "passing"), Check("service_maintenance", "n3", "", "d", "critical")}]
MCCatalog ==
    [well |-> [a |-> {A(80), A2}, b |-> {B}, c |-> {C}, d |-> {D}],
     moved |-> [a |-> {A(81)}, b |-> {B}, d |-> {D}]]
MCKvPairs ==
    [none |-> {}, some |-> {[key |-> "k", value |-> "r1"], [key |-> "l", value |-> "undecodable"]}]
=============================================================================
