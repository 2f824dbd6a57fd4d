----------------------------- MODULE RouteTable -----------------------------
(***************************************************************************)
(* The route table of src/route/table.rs: what the commands do to it, how  *)
(* weights become slots, and how requests and TCP listeners look up routes.*)
(*                                                                         *)
(* A rebuild starts from an empty table, applies the definitions one by    *)
(* one, those of the static source first, then those of Consul's KV store, *)
(* then those of its services, and finalizes; the result never changes.    *)
(* Paths are sequences of symbols, "/" being the empty one.  Weights are   *)
(* integers in units of 1/Unit, with Unit chosen so that the divisions of  *)
(* an instance are exact.                                                  *)
(***************************************************************************)
EXTENDS RouteCommands, Functions, SequencesExt, TLC

CONSTANTS
    Lower,       \* host |-> its lower-case form
    Fold,        \* path symbol |-> its lower-case form
    Rank,        \* path symbol |-> its place in the byte order
    Wildcard,    \* the symbol of a glob that matches any rest
    Scheme,      \* upstream URLs that parse |-> their scheme
    LastPart,    \* host |-> its text after the last ":", all of it without one
    ParsePort,   \* texts that parse as a u16 |-> that port
    PortName,    \* port |-> its decimal text
    CatchAll,    \* port |-> the host ":<port>"
    LocalAddrs,  \* addresses "<ip>:<port>" that connections arrive at
    Slots,       \* slots of weight 1.0 (1000 in the code)
    Commands,    \* source of lines |-> commands that may be written there
    Discovered,  \* routes that the tags of healthy instances may ask for
    RequestPaths, \* paths of requests
    Junk,        \* lines that say no command
    MaxCommands  \* bound on the commands of one rebuild

ASSUME TableAssumption ==
    /\ Slots \in Nat \ {0} /\ MaxCommands \in Nat
    /\ \A src \in DOMAIN PathOf : PathOf[src] \in Seq(Range(PathOf[src]))
    /\ DOMAIN Commands = {"static", "kv"}
    /\ \A s \in DOMAIN Commands : \A c \in Commands[s] : Documented(c) /\ c.src \in DOMAIN PathOf \cup {Blank}
    /\ \A c \in Discovered : c.src \in DOMAIN PathOf \ {Blank} /\ c.opts \in DOMAIN OptsOf \cup {Blank}
    /\ \A line \in Junk : Pointless(line)
    /\ \A p \in DOMAIN PortName : /\ PortName[p] \in DOMAIN ParsePort /\ ParsePort[PortName[p]] = p
                                  /\ CatchAll[p] # PortName[p] /\ LastPart[CatchAll[p]] = PortName[p]
    /\ \A a \in LocalAddrs : /\ LastPart[a] # a /\ LastPart[a] \in DOMAIN ParsePort
                             /\ ParsePort[LastPart[a]] \in DOMAIN PortName

VARIABLES
    written,  \* the commands of this rebuild (history variable)
    route_table,    \* host |-> sequence of routes
    phase     \* the source whose definitions are being applied, or "built"

tableVars == <<written, route_table, phase>>
Matchers == {"prefix", "iprefix", "glob", "exact"}
NoRoute == [path |-> <<"none">>]

----------------------------------------------------------------------------
(* Targets. *)

Protocols == {"http", "https", "grpc", "grpcs", "ws", "wss", "tcp"}

(* Target::pre_parse: `proto' comes before the scheme if it names a         *)
(* protocol; a URL that does not parse is left with the default, HTTP.      *)
is_tcp(t) ==
    /\ t.url \in DOMAIN Scheme
    /\ IF "proto" \in DOMAIN t.opts /\ t.opts["proto"] \in Protocols
       THEN t.opts["proto"] = "tcp" ELSE Scheme[t.url] = "tcp"

NewTarget(def) ==
    [service |-> def.service, url |-> def.dst, fixed |-> def.weight, weight |-> 0,
     tags |-> def.tags, opts |-> def.opts, source |-> def.source]

(* Route::add_target: the same target of one source is not added twice. *)
add_target(targets, t) ==
    IF \E i \in DOMAIN targets : /\ targets[i].service = t.service
                                 /\ targets[i].url = t.url
                                 /\ targets[i].fixed = t.fixed
                                 /\ targets[i].source = t.source
    THEN targets ELSE Append(targets, t)

(* What a `del' or `weight' command selects among the targets of a route. *)
Selects(def, t) ==
    /\ def.service = Blank \/ t.service = def.service
    /\ def.tags \subseteq t.tags

(* What stands at the positions in kept, in its order. *)
Nth(kept, n) == CHOOSE i \in kept : Cardinality({j \in kept : j <= i}) = n
Retain(s, kept) == [n \in 1 .. Cardinality(kept) |-> s[Nth(kept, n)]]

(* Mutant: a `del' with a URL removes every target of the service. *)
remove_targets_AnyUrl(targets, def) == Retain(targets, {i \in DOMAIN targets : ~Selects(def, targets[i])})

remove_targets(targets, def) ==
    Retain(targets, {i \in DOMAIN targets :
                        ~(Selects(def, targets[i]) /\ (def.dst = Blank \/ targets[i].url = def.dst))})

----------------------------------------------------------------------------
(* Weights (Route::compute_weights). *)

Positive(n) == IF n > 0 THEN n ELSE 0
SumOver(s, Op(_)) == FoldLeft(LAMBDA acc, x : acc + Op(x), 0, s)

EffectiveWeights(targets) ==
    LET n == Len(targets)
        dynamic == Cardinality({i \in DOMAIN targets : targets[i].fixed = 0})
        left == Positive(Unit - SumOver(targets, LAMBDA t : t.fixed))
    IN [i \in 1 .. n |->
            IF dynamic = n THEN Unit \div n
            ELSE IF targets[i].fixed > 0 THEN targets[i].fixed
            ELSE left \div dynamic]

Rounded(w) == (2 * w * Slots + Unit) \div (2 * Unit)

(* No weight counts for more than MAX_WEIGHT: that of a tag may exceed it. *)
Clamped(w) == IF w > MAX_WEIGHT THEN MAX_WEIGHT ELSE w

(* A positive weight gets a slot at least; weight zero none. *)
SlotCount(w) == IF Rounded(Clamped(w)) = 0 /\ w > 0 THEN 1 ELSE Rounded(Clamped(w))

SlotCounts(weights) ==
    LET counts == [i \in DOMAIN weights |-> SlotCount(weights[i])]
    IN IF \E i \in DOMAIN counts : counts[i] > 0 THEN counts
       ELSE [i \in DOMAIN weights |->
                LET even == Rounded(Unit \div Len(weights)) IN IF even = 0 THEN 1 ELSE even]

(* Mutant: the slots stay grouped by target. *)
Interleaved_Grouped(counts) ==
    FlattenSeq([i \in DOMAIN counts |-> [k \in 1 .. counts[i] |-> i]])

(***************************************************************************)
(* The slots, interleaved: the k-th of the c slots of a target belongs at  *)
(* (2k - 1)/2c of the whole, and the target with the least such place that *)
(* is left comes next.  In the code a tie may also go to the later target, *)
(* by the rounding of floating-point sums.                                 *)
(***************************************************************************)
Interleaved(counts) ==
    LET Of(i) == [k \in 1 .. counts[i] |-> [target |-> i, place |-> 2 * k - 1]]
        all == FlattenSeq([i \in DOMAIN counts |-> Of(i)])
        Before(a, b) ==
            LET pa == a.place * counts[b.target]
                pb == b.place * counts[a.target]
            IN pa < pb \/ (pa = pb /\ a.target < b.target)
        sorted == SortSeq(all, Before)
    IN [i \in DOMAIN sorted |-> sorted[i].target]

(* A route with its weights: w_targets as positions in targets. *)
Weighted(path, targets) ==
    LET weights == EffectiveWeights(targets)
    IN IF targets = << >> THEN [path |-> path, targets |-> << >>, w_targets |-> << >>]
       ELSE [path |-> path,
             targets |-> [i \in DOMAIN targets |-> [targets[i] EXCEPT !.weight = weights[i]]],
             w_targets |-> Interleaved(SlotCounts(weights))]

----------------------------------------------------------------------------
(* Applying definitions. *)

HostRoutes(t, host) == IF host \in DOMAIN t THEN t[host] ELSE << >>
SetRoutes(t, host, routes) == [h \in DOMAIN t \cup {host} |-> IF h = host THEN routes ELSE t[h]]
RouteAt(routes, path) == {i \in DOMAIN routes : routes[i].path = path}

apply_add(t, def) ==
    LET host == Lower[src_host(def)]
        path == src_path(def)
        routes == HostRoutes(t, host)
        at == RouteAt(routes, path)
    IN SetRoutes(t, host,
        IF at = {} THEN Append(routes, Weighted(path, <<NewTarget(def)>>))
        ELSE [i \in DOMAIN routes |->
                IF i \notin at THEN routes[i]
                ELSE Weighted(path, add_target(routes[i].targets, NewTarget(def)))])

(* Hosts and routes that are left without targets are dropped. *)
DropEmpty(t) ==
    LET kept(h) == {i \in DOMAIN t[h] : t[h][i].targets # << >>}
    IN [h \in {x \in DOMAIN t : kept(x) # {}} |-> Retain(t[h], kept(h))]

(* Tags without a source select on every host; a source without path on   *)
(* every path of its host.                                                *)
InScope(def, host, path) ==
    LET of == Lower[src_host(def)]
        everywhere == def.tags # {} /\ of = Blank /\ src_path(def) = << >>
    IN everywhere \/ (host = of /\ src_path(def) \in {<< >>, path})

apply_del(t, def) ==
    DropEmpty([h \in DOMAIN t |->
        [i \in DOMAIN t[h] |->
            LET r == t[h][i]
            IN IF InScope(def, h, r.path)
               THEN Weighted(r.path, remove_targets(r.targets, def)) ELSE r]])

(* `route weight' shares its weight among the targets it selects. *)
apply_weight(t, def) ==
    LET host == Lower[src_host(def)]
        Reweighted(r) ==
            LET n == Cardinality({i \in DOMAIN r.targets : Selects(def, r.targets[i])})
            IN IF n = 0 THEN r
               ELSE Weighted(r.path, [i \in DOMAIN r.targets |->
                        IF Selects(def, r.targets[i])
                        THEN [r.targets[i] EXCEPT !.fixed = def.weight \div n]
                        ELSE r.targets[i]])
    IN [h \in DOMAIN t |->
            IF h # host THEN t[h]
            ELSE [i \in DOMAIN t[h] |->
                    IF t[h][i].path = src_path(def) THEN Reweighted(t[h][i]) ELSE t[h][i]]]

apply(t, def) ==
    CASE def.cmd = "add" -> apply_add(t, def)
      [] def.cmd = "del" -> apply_del(t, def)
      [] def.cmd = "weight" -> apply_weight(t, def)
      [] OTHER -> t

(* Mutant: shortest path first. *)
MoreSpecific_Shortest(r, s) == Len(r.path) < Len(s.path)

(* Longest path first, then the byte order backwards. *)
MoreSpecific(r, s) ==
    LET differ == {i \in 1 .. Len(r.path) : r.path[i] # s.path[i]}
        at == CHOOSE i \in differ : \A j \in differ : i <= j
    IN \/ Len(r.path) > Len(s.path)
       \/ /\ Len(r.path) = Len(s.path)
          /\ differ # {}
          /\ Rank[r.path[at]] > Rank[s.path[at]]

(* The permutations of s that are in order.  There is one: no two routes of *)
(* a host have the same path.                                               *)
Sorted(s) ==
    LET Ordered(u) == \A i, j \in DOMAIN u : i < j => ~MoreSpecific(u[j], u[i])
    IN {u \in {[i \in DOMAIN s |-> s[p[i]]] : p \in Bijection(DOMAIN s, DOMAIN s)} : Ordered(u)}

finalize(t) ==
    {u \in [DOMAIN t -> UNION {Sorted(t[h]) : h \in DOMAIN t}] : \A h \in DOMAIN t : u[h] \in Sorted(t[h])}

----------------------------------------------------------------------------
(* Lookups. *)

Folded(path) == [i \in DOMAIN path |-> Fold[path[i]]]

(* The glob library: a trailing wildcard matches any rest. *)
GlobMatches(pattern, path) ==
    IF pattern # << >> /\ pattern[Len(pattern)] = Wildcard
    THEN IsPrefix(Front(pattern), path) ELSE pattern = path

Matches(matcher, route, path) ==
    CASE matcher = "prefix"  -> IsPrefix(route.path, path)
      [] matcher = "iprefix" -> IsPrefix(Folded(route.path), Folded(path))
      [] matcher = "glob"    -> route.path = << >> \/ GlobMatches(route.path, path)
      [] matcher = "exact"   -> route.path = path

Candidates(routes, path, matcher) ==
    {i \in DOMAIN routes : Matches(matcher, routes[i], path) /\ routes[i].targets # << >>}

matching_routes(t, host, path, matcher) ==
    LET key == Lower[host]
        Collected(h) == Retain(HostRoutes(t, h), Candidates(HostRoutes(t, h), path, matcher))
    IN Collected(key) \o (IF key = Blank THEN << >> ELSE Collected(Blank))

lookup_route(t, host, path, matcher) ==
    LET At(h) == Candidates(HostRoutes(t, h), path, matcher)
        First(h) == HostRoutes(t, h)[Min(At(h))]
    IN IF At(Lower[host]) # {} THEN First(Lower[host])
       ELSE IF At(Blank) # {} THEN First(Blank) ELSE NoRoute

route_is_tcp(r) == r.targets # << >> /\ \A i \in DOMAIN r.targets : is_tcp(r.targets[i])

(* Two ways to read a port from a host: as the number that its last part   *)
(* parses as, and by whether the host ends in ":<port>".                   *)
parse_listener_port(host) ==
    IF LastPart[host] \in DOMAIN ParsePort THEN {ParsePort[LastPart[host]]} ELSE {}

EndsInPort(host, port) == LastPart[host] # host /\ LastPart[host] = PortName[port]

tcp_listener_ports(t) ==
    UNION {parse_listener_port(h) : h \in {x \in DOMAIN t : \A i \in DOMAIN t[x] : route_is_tcp(t[x][i])}}

TcpAt(t, host) == {i \in DOMAIN HostRoutes(t, host) : route_is_tcp(HostRoutes(t, host)[i])}
FirstTcp(t, hosts) == {HostRoutes(t, h)[Min(TcpAt(t, h))] : h \in {x \in hosts : TcpAt(t, x) # {}}}

(* The routes a lookup may find: the host ":<port>" comes first, then the *)
(* hosts "<addr>:<port>" in the order of a hash map.                      *)
lookup_tcp_route(t, port) ==
    IF TcpAt(t, CatchAll[port]) # {} THEN FirstTcp(t, {CatchAll[port]})
    ELSE FirstTcp(t, {h \in DOMAIN t : EndsInPort(h, port)})

(* The address a connection arrived at comes before all others. *)
lookup_tcp_route_for_local_addr(t, addr) ==
    IF TcpAt(t, addr) # {} THEN FirstTcp(t, {addr})
    ELSE UNION {lookup_tcp_route(t, port) : port \in parse_listener_port(addr)}

lookup_tcp_sni_route(t, host) ==
    {r \in ToSet(HostRoutes(t, Lower[host])) : r.path = << >> /\ route_is_tcp(r)}

----------------------------------------------------------------------------
(* A rebuild. *)

EmptyTable == [h \in {} |-> << >>]

TableInit ==
    /\ written = << >>
    /\ route_table = EmptyTable
    /\ phase = "static"

(* mark_sources: a definition, with the source it comes from. *)
Marked(def, source) ==
    [cmd |-> def.cmd, service |-> def.service, src |-> def.src, dst |-> def.dst,
     weight |-> def.weight, tags |-> def.tags, opts |-> def.opts, source |-> source]

(* A line is read, parsed and applied; lines that say nothing are skipped. *)
Read(line, meant) ==
    LET def == parse_line(line)
    IN /\ phase \in DOMAIN Commands
       /\ Len(written) < MaxCommands
       /\ written' = meant
       /\ route_table' = IF def = NoDef THEN route_table ELSE apply(route_table, Marked(def, phase))
       /\ UNCHANGED phase

ReadCommand(c) == \E line \in Grammar(c) : Read(line, Append(written, Marked(Meaning(c), phase)))
ReadJunk(line) == Read(line, written)

(* What the tag of an instance says: an add without tags.  No weight that  *)
(* is a number is out of range here.                                       *)
Tagged(c) ==
    [cmd |-> "add", service |-> c.service, src |-> c.src, dst |-> c.dst,
     weight |-> IF c.weight \in DOMAIN WeightOf THEN WeightOf[c.weight] ELSE 0,
     tags |-> {}, opts |-> IF c.opts = Blank THEN NoOpts ELSE OptsOf[c.opts]]

Discover(c) ==
    LET def == Marked(Tagged(c), "service")
    IN /\ phase = "service"
       /\ Len(written) < MaxCommands
       /\ written' = Append(written, def)
       /\ route_table' = apply(route_table, def)
       /\ UNCHANGED phase

(* RouteRegistry::get_all: static, then KV, then services. *)
NextSource ==
    /\ phase \in {"static", "kv"}
    /\ phase' = IF phase = "static" THEN "kv" ELSE "service"
    /\ UNCHANGED <<written, route_table>>

Finalize ==
    /\ phase = "service"
    /\ phase' = "built"
    /\ route_table' \in finalize(route_table)
    /\ UNCHANGED written

StartRebuild ==
    /\ phase = "built"
    /\ phase' = "static"
    /\ route_table' = EmptyTable
    /\ written' = << >>

TableNext ==
    \/ \E s \in DOMAIN Commands : s = phase /\ \E c \in Commands[s] : ReadCommand(c)
    \/ \E line \in Junk : ReadJunk(line)
    \/ \E c \in Discovered : Discover(c)
    \/ NextSource
    \/ Finalize
    \/ StartRebuild

TableSpec == TableInit /\ [][TableNext]_tableVars

----------------------------------------------------------------------------
(* Properties. *)

IsBuilt == phase = "built"
AllRoutes == UNION {ToSet(route_table[h]) : h \in DOMAIN route_table}
CountIn(s, x) == Cardinality({i \in DOMAIN s : s[i] = x})

(* Every variable has its type: no host has two routes for one path.       *)
TableTypeOK ==
    /\ phase \in {"static", "kv", "service", "built"}
    /\ Len(written) <= MaxCommands
    /\ \A h \in DOMAIN route_table : \A i, j \in DOMAIN route_table[h] :
            route_table[h][i].path = route_table[h][j].path => i = j

(***************************************************************************)
(* The table means what the commands say (parser, apply_add, apply_del):   *)
(* a target is on a route exactly if some `route add' put it there and no  *)
(* later `route del' whose scope, service, tags and URL cover it took it   *)
(* away, in whatever order the options of a line are written and whatever  *)
(* lines say nothing in between.  A route or host without targets is gone. *)
(* Targets of different sources are kept apart (Route::add_target).  One   *)
(* exception: an add that repeats another one of the same source and       *)
(* weight, with other tags or options, may have been ignored.              *)
(***************************************************************************)
Covers(del, add) ==
    /\ InScope(del, Lower[src_host(add)], src_path(add))
    /\ del.service \in {Blank, add.service}
    /\ del.tags \subseteq add.tags
    /\ del.dst \in {Blank, add.dst}

Survivors(w) ==
    {i \in DOMAIN w :
        /\ w[i].cmd = "add"
        /\ \A j \in i + 1 .. Len(w) : w[j].cmd = "del" => ~Covers(w[j], w[i])}

(* The route that a command names, and the target that an add puts there. *)
RouteNamed(def) == <<Lower[src_host(def)], src_path(def)>>
Asked(def) == <<RouteNamed(def), def.service, def.dst, def.source, def.tags, def.opts>>

(* The weights of two adds are the same, or one has been changed since. *)
MaybeSameWeight(w, j, i) ==
    \/ w[j].weight = w[i].weight
    \/ \E k \in j + 1 .. i - 1 : w[k].cmd = "weight" /\ RouteNamed(w[k]) = RouteNamed(w[i])

Repeats(w, i) ==
    \E j \in 1 .. i - 1 :
        /\ w[j].cmd = "add" /\ RouteNamed(w[j]) = RouteNamed(w[i])
        /\ w[j].service = w[i].service /\ w[j].dst = w[i].dst /\ w[j].source = w[i].source
        /\ Asked(w[j]) # Asked(w[i]) /\ MaybeSameWeight(w, j, i)

Held(t) ==
    UNION {UNION {{<<<<h, r.path>>, x.service, x.url, x.source, x.tags, x.opts>> : x \in ToSet(r.targets)} :
                    r \in ToSet(t[h])} : h \in DOMAIN t}

TableMeansCommands ==
    /\ Held(route_table) \subseteq {Asked(written[i]) : i \in Survivors(written)}
    /\ {Asked(written[i]) : i \in {k \in Survivors(written) : ~Repeats(written, k)}} \subseteq Held(route_table)
    /\ \A h \in DOMAIN route_table : route_table[h] # << >>
    /\ \A r \in AllRoutes : r.targets # << >>

(***************************************************************************)
(* Longest prefix wins (finalize, lookup_route, matching_routes): a lookup *)
(* finds a route of the request's own host if one matches, of the          *)
(* catch-all host otherwise, and no matching route of that host has a      *)
(* longer path; both lookups, which are written twice in the code, agree.  *)
(***************************************************************************)
LongestPrefixWins ==
    IsBuilt => \A host \in DOMAIN Lower, path \in RequestPaths, m \in Matchers :
        LET On(h) == {r \in ToSet(HostRoutes(route_table, h)) : Matches(m, r, path)}
            best == IF On(Lower[host]) # {} THEN On(Lower[host]) ELSE On(Blank)
            found == lookup_route(route_table, host, path, m)
            all == matching_routes(route_table, host, path, m)
        IN IF best = {} THEN found = NoRoute /\ all = << >>
           ELSE /\ found \in best
                /\ \A r \in best : Len(r.path) <= Len(found.path)
                /\ found = Head(all)

(***************************************************************************)
(* Weights become traffic (compute_weights): slots are those of targets of *)
(* the route; a target is without any only if it is dynamic and the fixed  *)
(* weights fill the route; a fixed weight has its share of Slots up to     *)
(* rounding; dynamic targets share the rest equally.                       *)
(***************************************************************************)
SlotsFollowWeights ==
    \A r \in AllRoutes :
        LET T == DOMAIN r.targets
            fixed(i) == Clamped(r.targets[i].fixed)
            total == SumOver(r.targets, LAMBDA t : t.fixed)
            count(i) == CountIn(r.w_targets, i)
            Close(a, b) == a - b <= Unit /\ b - a <= Unit
        IN ToSet(r.w_targets) \subseteq T /\ \A i \in T :
            /\ count(i) = 0 <=> fixed(i) = 0 /\ total >= Unit
            /\ fixed(i) > 0 => Close(count(i) * Unit, fixed(i) * Slots)
            /\ fixed(i) = 0 => \A j \in T : fixed(j) = 0 => count(i) = count(j)

(***************************************************************************)
(* Round-robin is smooth (the interleaving of compute_weights): after any  *)
(* number of picks a target has had its share of them, by weight, to       *)
(* within half a request, and half its own share more for each target that *)
(* the route has beyond the second.                                        *)
(***************************************************************************)
PicksAreSpread ==
    \A r \in AllRoutes :
        LET n == Len(r.w_targets)
            others == Cardinality(ToSet(r.w_targets)) - 2
        IN \A i \in ToSet(r.w_targets), m \in 0 .. n :
            LET slots == CountIn(r.w_targets, i)
                had == n * CountIn(SubSeq(r.w_targets, 1, m), i)
                due == m * slots
                slack == n + others * slots
            IN 2 * (had - due) <= slack /\ 2 * (due - had) <= slack

(***************************************************************************)
(* TCP (tcp_listener_ports, lookup_tcp_route and its callers): a host      *)
(* spelled "...:<port>" whose routes are all TCP is listened on, and every *)
(* connection that arrives at the port finds a route.  So a port may be    *)
(* open without one only by hosts that spell it in another way, as "8080"  *)
(* or ":080".  A connection is never given a route with a target that is   *)
(* not TCP, nor one of another port, nor that of another host if its own   *)
(* local address has one; a server name gets the root route of its host.   *)
(***************************************************************************)
ListenersHaveRoutes ==
    IsBuilt =>
        /\ \A h \in DOMAIN route_table, p \in DOMAIN PortName :
                EndsInPort(h, p) /\ (\A r \in ToSet(route_table[h]) : route_is_tcp(r)) =>
                    /\ p \in tcp_listener_ports(route_table)
                    /\ \A a \in LocalAddrs : p \in parse_listener_port(a) =>
                            lookup_tcp_route_for_local_addr(route_table, a) # {}
        /\ \A a \in LocalAddrs : \A r \in lookup_tcp_route_for_local_addr(route_table, a) :
                LET own == {x \in ToSet(HostRoutes(route_table, a)) : route_is_tcp(x)}
                IN /\ \A t \in ToSet(r.targets) : is_tcp(t)
                   /\ own # {} => r \in own
                   /\ \E h \in DOMAIN route_table :
                        /\ h = a \/ \E p \in parse_listener_port(a) : EndsInPort(h, p)
                        /\ r \in ToSet(route_table[h])
        /\ \A host \in DOMAIN Lower : \A r \in lookup_tcp_sni_route(route_table, host) :
                (\A t \in ToSet(r.targets) : is_tcp(t)) /\ r.path = << >>

(***************************************************************************)
(* Commands are selective (apply_weight, apply_del): a `weight' command    *)
(* gives the targets it selects the whole weight between them, and neither *)
(* it nor a `del' touches the fixed weight of any other target.            *)
(***************************************************************************)
Entries(t) ==
    LET Of(h, r) == {<<h, r.path, i, r.targets[i]>> : i \in DOMAIN r.targets}
    IN UNION {UNION {Of(h, r) : r \in ToSet(t[h])} : h \in DOMAIN t}

Chosen(def, e) == Selects(def, e[4]) /\ RouteNamed(def) = <<e[1], e[2]>>
FixedOf(entries) == {<<e[1], e[2], e[4].service, e[4].url, e[4].source, e[4].fixed>> : e \in entries}

WeightsAreShared ==
    [][ LET def == written'[Len(written')]
            before == Entries(route_table)
            after == Entries(route_table')
            chosen == {e \in after : Chosen(def, e)}
        IN Len(written') > Len(written) =>
            /\ def.cmd = "weight" =>
                /\ FixedOf(after \ chosen) = FixedOf({e \in before : ~Chosen(def, e)})
                /\ \A e \in chosen : e[4].fixed * Cardinality(chosen) = def.weight
            /\ def.cmd = "del" => FixedOf(after) \subseteq FixedOf(before) ]_tableVars

(* The table that commands build: well formed, and with what they say.     *)
TableIsRight == TableTypeOK /\ TableMeansCommands

(* The lookups on it, of HTTP requests and of TCP connections.             *)
LookupsAreRight == LongestPrefixWins /\ ListenersHaveRoutes

(* From a `weight' command over slots to the order of picks: requests are  *)
(* spread as the weights say (apply_weight, compute_weights).              *)
TrafficFollowsWeights == WeightsAreShared /\ [](SlotsFollowWeights /\ PicksAreSpread)
=============================================================================
