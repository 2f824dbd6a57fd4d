---------------------------- MODULE MCRouteTable ----------------------------
EXTENDS RouteTable

Cmd(cmd, service, src, dst) ==
    [cmd |-> cmd, service |-> service, src |-> src, dst |-> dst,
     weight |-> "", tags |-> "", opts |-> ""]
With(c, key, value) == [c EXCEPT ![key] = value]

MCHostOf == "H/" :> "H" @@ "h/a" :> "h" @@ "/" :> "" @@ "/a*" :> "" @@ ":1/" :> ":1"
            @@ "ip:1/" :> "ip:1" @@ "1/" :> "1"
MCPathOf == "H/" :> << >> @@ "h/a" :> <<"a">> @@ "/" :> << >> @@ "/a*" :> <<"a", "*">>
            @@ ":1/" :> << >> @@ "ip:1/" :> << >> @@ "1/" :> << >>
MCWeightOf == "0.25" :> 30 @@ "1.0" :> 120 @@ "1e9" :> 1000000 @@ "0.01" :> 1
MCTagsOf == "v1" :> {"v1"} @@ "v1,v2" :> {"v1", "v2"} @@ "" :> {}
MCOptsOf == "proto=tcp" :> [proto |-> "tcp"] @@ "proto=udp" :> [proto |-> "udp"]
MCLower == "" :> "" @@ "h" :> "h" @@ "H" :> "h" @@ ":1" :> ":1" @@ "ip:1" :> "ip:1"
           @@ "1" :> "1"
MCFold == "a" :> "a" @@ "A" :> "a" @@ "*" :> "*"
MCRank == "*" :> 1 @@ "A" :> 2 @@ "a" :> 3
MCScheme == "http://u1" :> "http" @@ "http://u2" :> "http" @@ "tcp://u3" :> "tcp"
MCLastPart == "" :> "" @@ "h" :> "h" @@ "1" :> "1" @@ ":1" :> "1" @@ "ip:1" :> "1"
              @@ "me:1" :> "1"
MCParsePort == "1" :> 1
MCPortName == <<"1">>
MCCatchAll == <<":1">>
MCLocalAddrs == {"ip:1", "me:1"}
MCRequestPaths == {<< >>, <<"a">>, <<"A", "a">>}

\* Where targets go, and what deletes and weights them again.  The same add
\* comes from all three sources; two of the static ones differ in tags only.
Small == With(Cmd("add", "s1", "H/", "http://u2"), "weight", "0.01")
MCCommands ==
    [static |-> {
        Small,
        Cmd("add", "s1", "H/", "http://u1"),
        With(With(Cmd("add", "s2", "H/", "http://u2"), "weight", "0.25"), "tags", "v1,v2"),
        With(Cmd("add", "s1", "h/a", "http://u1"), "weight", "0.01"),
        With(Cmd("add", "s1", "/", "http://u1"), "weight", "1e9"),
        With(Cmd("add", "s1", "/", "http://u1"), "tags", "v1"),
        With(With(Cmd("add", "s2", ":1/", "http://u1"), "opts", "proto=tcp"), "weight", "1.0"),
        With(Cmd("weight", "", "H/", ""), "weight", "1.0"),
        Cmd("del", "s1", "", "") },
     kv |-> {
        Small,
        With(Cmd("add", "s1", "/a*", "nowhere"), "tags", "v1"),
        With(Cmd("add", "s2", ":1/", "http://u2"), "opts", "proto=udp"),
        With(With(Cmd("weight", "s2", "H/", ""), "weight", "0.25"), "tags", "v1"),
        Cmd("del", "s1", "H/", "http://u1"),
        With(Cmd("del", "", "", ""), "tags", "v1"),
        With(Cmd("del", "s2", "H/", ""), "tags", "v1") }]

MCDiscovered == {
    Small,
    With(Cmd("add", "s1", "ip:1/", "tcp://u3"), "weight", "1e9"),
    With(Cmd("add", "s2", "1/", "tcp://u3"), "opts", "proto=tcp") }

MCJunk == { << >>, <<"route", "add", "s1", "/">>, <<"route", "del", "tags", "">>,
            <<"route", "flush", "all">>, <<"add", "s1", "/", "http://u1">>,
            <<"route", "weight", "s1">> }
=============================================================================
