--------------------------- MODULE ConsulWatcher ---------------------------
(***************************************************************************)
(* The Consul watchers (src/consul/watcher.rs), the queries they make      *)
(* (src/consul/client.rs) and the task that applies their updates          *)
(* (route_update_handler in src/main.rs).                                  *)
(*                                                                         *)
(* Two tasks loop over queries of Consul and send what they find through a *)
(* bounded channel to a third.  Consul itself is external: its data        *)
(* changes, it fails, restarts with a lower index, and something between   *)
(* may strip the index header.  The watchers ask for stale reads, so any   *)
(* server answers, with the data and the index it has got so far: those of *)
(* the leader or older ones, back to where the slowest server is.  A query *)
(* returns at any time, which is what both a change and the end of the     *)
(* wait of a blocking query look like.                                     *)
(***************************************************************************)
EXTENDS Integers, Sequences, FiniteSets, Functions

CONSTANTS
    Worlds,          \* contents of Consul's catalog
    Checks, Catalog, \*   and what each answers: a set of checks, and for each
                     \*   service a set of instances
    KvStates, KvPairs, \* contents below kv_prefix, each a set of [key, value]
    FirstWorlds, FirstKv, \* what they may be when the watchers start
    IdOf,            \* <<node, service id>> |-> the text "<node>.<id>", which
                     \*   two instances may share
    Whitelist, Blacklist,  \* service_whitelist, service_blacklist
    IncludeWarning,  \* include_warning
    MaxBackoff,      \* the cap of backoff_secs (60 in the code)
    ChannelSize,     \* capacity of the channel (100 in the code)
    MaxChanges,      \* bound on the changes of Consul's data
    MaxLag,          \* bound on the changes that servers may be behind
    MaxFaults        \* bound on failed queries, restarts and stripped headers

ASSUME ConsulAssumption ==
    /\ MaxBackoff \in Nat \ {0} /\ ChannelSize \in Nat \ {0}
    /\ FirstWorlds \subseteq Worlds /\ FirstKv \subseteq KvStates
    /\ MaxChanges \in Nat /\ MaxLag \in Nat /\ MaxFaults \in Nat /\ IncludeWarning \in BOOLEAN
    /\ \A w \in Worlds :
        /\ \A c \in Checks[w] : c.tagged \in BOOLEAN
        /\ \A s \in DOMAIN Catalog[w] : \A i \in Catalog[w][s] :
                i.name = s /\ \A t \in i.tags : t.ours \in BOOLEAN /\ t.path \in Nat

VARIABLES
    world, kv,   \* Consul's data, as the leader has them
    index,       \* [services, kv]: the indexes of the two queries
    indexed,     \* whether replies carry the index
    changes,     \* [services, kv]: how often they changed
    behind,      \* [services, kv]: older states that a server may still have
    faults,
    enabled,     \* service_discovery and kv_watching, as a set of watchers
    mon,         \* ServiceMonitor::watch
    kvw,         \* KVWatcher::watch
    channel,     \* the updates on their way
    applied,     \* [services, kv]: what route_update_handler has applied
    instant      \* queries without index since the watcher last slept or
                 \*   waited in a blocking one (history variable)

consul == <<world, kv, index, indexed, changes, behind, faults>>
watchVars == <<consul, enabled, mon, kvw, channel, applied, instant>>

Watchers == {"services", "kv"}

----------------------------------------------------------------------------
(* process_checks, the part without queries. *)

Critical(checks, kind) == {c \in checks : c.kind = kind /\ c.status = "critical"}

relevant_checks(checks) == {c \in checks : c.kind # "service" \/ c.tagged}

is_service_check(c) == c.sid # "" /\ c.kind = "service"

InstanceOf(c) == [node |-> c.node, name |-> c.name, sid |-> c.sid]

(* By which the answers for the checks and for the catalog are matched. *)
Named(i) == [name |-> i.name, id |-> IdOf[<<i.node, i.sid>>]]

(* The instances all of whose checks are well, on nodes that are up, not   *)
(* under maintenance.  A node maintenance check counts whatever its status.*)
passing_service_ids(checks) ==
    LET groups == {InstanceOf(c) : c \in {d \in checks : is_service_check(d)}}
        node_down == {c.node : c \in Critical(checks, "serf")}
        node_maintenance == {c.node : c \in {d \in checks : d.kind = "node_maintenance"}}
        service_maintenance == {<<c.node, c.sid>> : c \in Critical(checks, "service_maintenance")}
        Passes(i) ==
            LET own == {c \in checks : is_service_check(c) /\ InstanceOf(c) = i}
                healthy == {c \in own : c.status = "passing" \/ (IncludeWarning /\ c.status = "warning")}
            IN /\ i.node \notin node_down \cup node_maintenance
               /\ <<i.node, i.sid>> \notin service_maintenance
               /\ healthy # {} /\ healthy = own
    IN {Named(i) : i \in {j \in groups : Passes(j)}}

filter_services(ids) ==
    {n \in ids : IF Whitelist # {} THEN n.name \in Whitelist ELSE n.name \notin Blacklist}

passing_services(checks) == filter_services(passing_service_ids(relevant_checks(checks)))

parse_tag(tag, address, port, name) ==
    LET scheme == IF tag.proto \in {"https", "grpc", "grpcs", "tcp"} THEN tag.proto ELSE "http"
    IN [service |-> name, src |-> tag.src, path |-> tag.path, weight |-> tag.weight,
        dst |-> [scheme |-> scheme, address |-> address, port |-> port]]

RoutesOf(i) ==
    LET address == IF i.service_address = "" THEN i.address ELSE i.service_address
    IN {parse_tag(t, address, i.port, i.name) : t \in {u \in i.tags : u.ours}}

(* The instances the catalog of world w gives for service s. *)
Answer(w, s) == IF s \in DOMAIN Catalog[w] THEN Catalog[w][s] ELSE {}

(* The routes of the instances that are in both answers, by what they are  *)
(* named.  catalog tells of each service asked which world answered.       *)
KnownRoutes(passing, catalog) ==
    LET known == {i \in UNION {Answer(e.world, e.service) : e \in catalog} : Named(i) \in passing}
    IN UNION {RoutesOf(i) : i \in known}

(* Most specific path first; those of one path come in any order, as the   *)
(* maps they are taken from are unordered.                                 *)
InOrder(defs, routes) ==
    /\ Len(defs) = Cardinality(routes) /\ Range(defs) = routes
    /\ \A i, j \in DOMAIN defs : i < j => defs[i].path >= defs[j].path

route_defs(routes) == {defs \in [1 .. Cardinality(routes) -> routes] : InOrder(defs, routes)}

----------------------------------------------------------------------------
(* No update is waiting to be sent. *)
NoUpdate == [kind |-> "none"]

WatchInit ==
    /\ world \in FirstWorlds /\ kv \in FirstKv
    /\ index = [w \in Watchers |-> 1]
    /\ indexed \in BOOLEAN
    /\ changes = [w \in Watchers |-> 0] /\ faults = 0
    /\ behind = [w \in Watchers |-> {}]
    /\ enabled \in SUBSET Watchers
    /\ mon = [pc |-> IF "services" \in enabled THEN "query" ELSE "off", last_index |-> 0, backoff |-> 1,
              msg |-> NoUpdate, pending |-> FALSE, snapshot |-> world, new_index |-> 0, todo |-> {}, passing |-> {},
              catalog |-> {}, failed |-> FALSE, since |-> {}, source |-> 0, lagged |-> FALSE]
    /\ kvw = [pc |-> IF "kv" \in enabled THEN "query" ELSE "off", last_index |-> 0, backoff |-> 1,
              msg |-> NoUpdate, source |-> 0]
    /\ channel = << >>
    /\ applied = [services |-> << >>, kv |-> {}]
    /\ instant = [w \in Watchers |-> 0]

(***************************************************************************)
(* Consul.                                                                 *)
(***************************************************************************)
Changes == changes["services"] + changes["kv"]
Lag == Cardinality(behind["services"]) + Cardinality(behind["kv"])

(* What a server that is up to date has, and what any server may answer.   *)
Latest(w) == [data |-> IF w = "services" THEN world ELSE kv, index |-> index[w], change |-> changes[w]]
Replies(w) == behind[w] \cup {Latest(w)}
HeldData(w) == {v.data : v \in Replies(w)}

Changed(w) ==
    /\ Changes < MaxChanges /\ Lag < MaxLag
    /\ changes' = [changes EXCEPT ![w] = @ + 1]
    /\ index' = [index EXCEPT ![w] = @ + 1]
    /\ behind' = [behind EXCEPT ![w] = Replies(w)]
    /\ UNCHANGED <<indexed, faults, enabled, kvw, channel, applied, instant>>

Change(w) ==
    /\ w # world /\ world' = w
    /\ Changed("services")
    /\ mon' = [mon EXCEPT !.since = IF @ = {} THEN {} ELSE @ \cup {w}]
    /\ UNCHANGED kv

ChangeKv(k) ==
    /\ k # kv /\ kv' = k
    /\ Changed("kv")
    /\ UNCHANGED <<world, mon>>

(* The slowest server gets the next change. *)
CatchUp(w) ==
    /\ \E v \in behind[w] : /\ \A u \in behind[w] : v.change <= u.change
                             /\ behind' = [behind EXCEPT ![w] = @ \ {v}]
    /\ UNCHANGED <<world, kv, index, indexed, changes, faults, enabled, mon, kvw, channel, applied, instant>>

(* All servers come back with the data of the leader. *)
Restart ==
    /\ faults < MaxFaults /\ faults' = faults + 1
    /\ index' = [w \in Watchers |-> 1]
    /\ behind' = [w \in Watchers |-> {}]
    /\ UNCHANGED <<world, kv, indexed, changes, enabled, mon, kvw, channel, applied, instant>>

ToggleHeader ==
    /\ faults < MaxFaults /\ faults' = faults + 1
    /\ indexed' = ~indexed
    /\ UNCHANGED <<world, kv, index, changes, behind, enabled, mon, kvw, channel, applied, instant>>

(* The index of a reply; a missing header reads as 0. *)
new_index(v) == IF indexed THEN v.index ELSE 0

(* A query blocks only if it has an index. *)
Queried(w, last) ==
    instant' = [instant EXCEPT ![w] = IF last = 0 THEN @ + 1 ELSE 0]

Fail == faults < MaxFaults /\ faults' = faults + 1 /\ UNCHANGED <<world, kv, index, indexed, changes, behind>>

Failed(watcher) == [watcher EXCEPT !.pc = "send", !.msg = [kind |-> "error"]]

(***************************************************************************)
(* ServiceMonitor::watch.                                                  *)
(***************************************************************************)

(* Mutant: no pause when there is no index. *)
Unchanged_NoPause(watcher) == [watcher EXCEPT !.pc = "query", !.backoff = 1]

(* Nothing new: ask again, after a pause if the query did not block. *)
Unchanged(watcher) ==
    [watcher EXCEPT !.pc = IF watcher.last_index = 0 THEN "poll" ELSE "query", !.backoff = 1]

(* The state after the checks came: the catalog is asked for every service *)
(* that has an instance passing.                                           *)
Process(m) ==
    LET passing == passing_services(Checks[m.snapshot])
    IN [m EXCEPT !.pc = "catalog", !.pending = FALSE, !.failed = FALSE, !.lagged = FALSE, !.catalog = {},
                 !.passing = passing, !.todo = {n.name : n \in passing}]

get_health_checks ==
    /\ mon.pc = "query" /\ ~mon.pending
    /\ Queried("services", mon.last_index)
    /\ UNCHANGED <<consul, enabled, kvw, channel, applied>>
    /\ \E v \in Replies("services") :
            mon' = IF new_index(v) = mon.last_index THEN Unchanged(mon)
                   ELSE Process([mon EXCEPT !.snapshot = v.data, !.new_index = new_index(v),
                                            !.since = HeldData("services"), !.source = v.change])

HealthChecksFail ==
    /\ mon.pc = "query" /\ ~mon.pending
    /\ Fail
    /\ mon' = Failed(mon)
    /\ Queried("services", mon.last_index)
    /\ UNCHANGED <<enabled, kvw, channel, applied>>

(* The snapshot whose processing failed is tried again first. *)
RetryPending ==
    /\ mon.pc = "query" /\ mon.pending
    /\ UNCHANGED <<consul, enabled, kvw, channel, applied, instant>>
    /\ mon' = Process(mon)

(* The lookups run concurrently, and answer in any order. *)
get_catalog_service(s) ==
    /\ mon.pc = "catalog" /\ s \in mon.todo
    /\ \E v \in Replies("services") :
            mon' = [mon EXCEPT !.todo = @ \ {s}, !.catalog = @ \cup {[service |-> s, world |-> v.data]},
                               !.lagged = @ \/ v.change < mon.source]
    /\ UNCHANGED <<consul, enabled, kvw, channel, applied, instant>>

CatalogFails(s) ==
    /\ mon.pc = "catalog" /\ s \in mon.todo
    /\ Fail
    /\ mon' = [mon EXCEPT !.todo = @ \ {s}, !.failed = TRUE]
    /\ UNCHANGED <<enabled, kvw, channel, applied, instant>>

Publish ==
    \E routes \in {KnownRoutes(mon.passing, mon.catalog)} : \E defs \in route_defs(routes) :
        mon' = [mon EXCEPT !.pc = "send", !.last_index = mon.new_index, !.backoff = 1,
                           !.msg = [kind |-> "services", defs |-> defs]]

(* Mutant: the services that could be looked up are published. *)
process_checks_Partial ==
    /\ mon.pc = "catalog" /\ mon.todo = {}
    /\ Publish
    /\ UNCHANGED <<consul, enabled, kvw, channel, applied, instant>>

(* Mutant: the index advances although the processing failed. *)
process_checks_Advance ==
    /\ mon.pc = "catalog" /\ mon.todo = {}
    /\ IF mon.failed THEN mon' = [Failed(mon) EXCEPT !.last_index = mon.new_index] ELSE Publish
    /\ UNCHANGED <<consul, enabled, kvw, channel, applied, instant>>

(* All lookups are back: one failure fails the whole, and the index does   *)
(* not advance.                                                            *)
process_checks ==
    /\ mon.pc = "catalog" /\ mon.todo = {}
    /\ UNCHANGED <<consul, enabled, kvw, channel, applied, instant>>
    /\ IF mon.failed THEN mon' = [Failed(mon) EXCEPT !.pending = TRUE] ELSE Publish

(***************************************************************************)
(* KVWatcher::watch.  Values that cannot be decoded, or are empty, are     *)
(* skipped; no key at all is an answer as well.                            *)
(***************************************************************************)
combined(k) == {p \in KvPairs[k] : p.value \notin {"", "undecodable"}}

watch_kv ==
    /\ kvw.pc = "query"
    /\ \E v \in Replies("kv") :
            kvw' = IF new_index(v) = kvw.last_index THEN Unchanged(kvw)
                   ELSE [kvw EXCEPT !.backoff = 1, !.last_index = new_index(v), !.pc = "send", !.source = v.change,
                                    !.msg = [kind |-> "manual", content |-> combined(v.data)]]
    /\ Queried("kv", kvw.last_index)
    /\ UNCHANGED <<consul, enabled, mon, channel, applied>>

KvFails ==
    /\ kvw.pc = "query"
    /\ Fail
    /\ kvw' = Failed(kvw)
    /\ Queried("kv", kvw.last_index)
    /\ UNCHANGED <<enabled, mon, channel, applied>>

(***************************************************************************)
(* Sending waits for room in the channel.  After an error the watcher      *)
(* sleeps, and doubles the pause.  When the receiver is gone an update     *)
(* ends the watcher, while an error goes unnoticed.                        *)
(***************************************************************************)
Closed == enabled = {}

Sent(watcher) ==
    [watcher EXCEPT !.msg = NoUpdate, !.pc = IF watcher.msg.kind = "error" THEN "sleep"
                                            ELSE IF Closed THEN "off" ELSE "query"]

SendServices ==
    /\ mon.pc = "send" /\ (Closed \/ Len(channel) < ChannelSize)
    /\ channel' = IF Closed THEN channel ELSE Append(channel, mon.msg)
    /\ mon' = [Sent(mon) EXCEPT !.since = IF mon.pending THEN @ ELSE {}, !.passing = {}, !.catalog = {}]
    /\ UNCHANGED <<consul, enabled, kvw, applied, instant>>

SendManual ==
    /\ kvw.pc = "send" /\ (Closed \/ Len(channel) < ChannelSize)
    /\ channel' = IF Closed THEN channel ELSE Append(channel, kvw.msg)
    /\ kvw' = Sent(kvw)
    /\ UNCHANGED <<consul, enabled, mon, applied, instant>>

Least(a, b) == IF a < b THEN a ELSE b
Awake(watcher) ==
    [watcher EXCEPT !.pc = "query",
                    !.backoff = IF watcher.pc = "sleep" THEN Least(2 * @, MaxBackoff) ELSE @]

Wake(w) ==
    /\ \/ w = "services" /\ mon.pc \in {"sleep", "poll"} /\ mon' = Awake(mon) /\ UNCHANGED kvw
       \/ w = "kv" /\ kvw.pc \in {"sleep", "poll"} /\ kvw' = Awake(kvw) /\ UNCHANGED mon
    /\ instant' = [instant EXCEPT ![w] = 0]
    /\ UNCHANGED <<consul, enabled, channel, applied>>

(***************************************************************************)
(* route_update_handler: update_services and update_kv of ManagedRoutes.   *)
(***************************************************************************)
route_update_handler ==
    /\ channel # << >>
    /\ channel' = Tail(channel)
    /\ LET u == Head(channel)
       IN applied' = CASE u.kind = "services" -> [applied EXCEPT !.services = u.defs]
                     [] u.kind = "manual" -> [applied EXCEPT !.kv = u.content]
                     [] OTHER -> applied
    /\ UNCHANGED <<consul, enabled, mon, kvw, instant>>

(* At shutdown the receiver is dropped with what is in the channel; the    *)
(* watchers are tasks of their own and find out when they send.            *)
Shutdown ==
    /\ enabled # {}
    /\ enabled' = {}
    /\ channel' = << >>
    /\ UNCHANGED <<consul, mon, kvw, applied, instant>>

WatchNext ==
    \/ \E w \in Worlds : Change(w)
    \/ \E k \in KvStates : ChangeKv(k)
    \/ \E w \in Watchers : CatchUp(w)
    \/ Restart \/ ToggleHeader
    \/ get_health_checks \/ HealthChecksFail \/ RetryPending
    \/ \E s \in mon.todo : get_catalog_service(s) \/ CatalogFails(s)
    \/ process_checks \/ watch_kv \/ KvFails \/ SendServices \/ SendManual
    \/ \E w \in Watchers : Wake(w)
    \/ route_update_handler \/ Shutdown

(* The tasks run, queries return and sleeps end: the runtime schedules the *)
(* tasks, and every request has a timeout.  Consul's servers catch up.     *)
Monitor ==
    \/ get_health_checks \/ RetryPending \/ process_checks \/ SendServices \/ Wake("services")
    \/ \E s \in mon.todo : get_catalog_service(s)
Fairness ==
    /\ WF_watchVars(Monitor) /\ WF_watchVars(watch_kv \/ SendManual \/ Wake("kv"))
    /\ WF_watchVars(route_update_handler)
    /\ WF_watchVars(\E w \in Watchers : CatchUp(w))

WatchSpec == WatchInit /\ [][WatchNext]_watchVars /\ Fairness

----------------------------------------------------------------------------
(* Properties. *)

(* Every variable has its type; a snapshot is kept exactly while it is worked on. *)
WatchTypeOK ==
    /\ world \in Worlds /\ kv \in KvStates /\ indexed \in BOOLEAN
    /\ DOMAIN index = Watchers /\ enabled \subseteq Watchers
    /\ \A w \in {mon, kvw} : w.backoff \in 1 .. MaxBackoff /\ w.last_index \in Nat
    /\ kvw.pc \in {"off", "query", "send", "sleep", "poll"}
    /\ mon.pc \in {"off", "query", "catalog", "send", "sleep", "poll"}
    /\ mon.pc \in {"query", "sleep", "catalog"} => (mon.since # {} <=> mon.pending \/ mon.pc = "catalog")
    /\ Len(channel) <= ChannelSize

(* An instance is well: some check of its own, none bad, nothing against its node. *)
Well(checks, i) ==
    /\ i.sid # ""
    /\ \E c \in checks : c.kind = "service" /\ c.tagged /\ InstanceOf(c) = i
    /\ \A c \in checks :
        /\ c.kind = "service" /\ c.tagged /\ InstanceOf(c) = i =>
                c.status \in {"passing"} \cup IF IncludeWarning THEN {"warning"} ELSE {}
        /\ c.node = i.node => /\ c.kind # "node_maintenance"
                              /\ ~(c.kind = "serf" /\ c.status = "critical")
                              /\ ~(c.kind = "service_maintenance" /\ c.sid = i.sid /\ c.status = "critical")

Wanted(i) == IF Whitelist = {} THEN i.name \notin Blacklist ELSE i.name \in Whitelist
Registered(w) == UNION {Catalog[w][s] : s \in DOMAIN Catalog[w]}
Publishing == mon.pc = "send" /\ mon.msg.kind = "services"
Built == Range(mon.msg.defs)

(***************************************************************************)
(* Only what is well is routed to (passing_service_ids, process_checks):   *)
(* the checks and the catalog are read at different times and from servers *)
(* that are not equally far, yet each route of an update belongs to an     *)
(* instance that some server had in its catalog since the checks were read *)
(* and that those checks show well - it, or one whose "<node>.<id>" reads  *)
(* the same.                                                               *)
(***************************************************************************)
WellNamed(checks, i) ==
    \E c \in checks : is_service_check(c) /\ Named(c) = Named(i) /\ Well(checks, InstanceOf(c))

OnlyWellRouted ==
    Publishing =>
        \A d \in Built : \E w \in mon.since : \E i \in Registered(w) :
            d \in RoutesOf(i) /\ WellNamed(Checks[mon.snapshot], i) /\ Wanted(i)

(***************************************************************************)
(* An update is whole (process_checks: "preserving previous service        *)
(* routes"): an instance that is well in the snapshot and was registered   *)
(* on every server all the time since has all its routes in the update; no *)
(* failed lookup makes the update drop a service.                          *)
(***************************************************************************)
UpdatesAreWhole ==
    Publishing =>
        \A i \in {x \in Registered(world) : \A w \in mon.since : x \in Registered(w)} :
            Well(Checks[mon.snapshot], InstanceOf(i)) /\ Wanted(i) => RoutesOf(i) \subseteq Built

(***************************************************************************)
(* No busy loop (ServiceMonitor::watch and KVWatcher::watch): between two  *)
(* queries that cannot block, because no index is known, the watcher has   *)
(* slept or sat in a blocking one, whatever comes back, stripped headers   *)
(* and an index that went backwards included.                              *)
(***************************************************************************)
NeverSpins == \A w \in Watchers : instant[w] <= 1

(***************************************************************************)
(* The routes catch up (both watch loops and route_update_handler): once   *)
(* Consul is left alone, the routes applied are those of what it holds,    *)
(* after errors, restarts, full channels and stale checks or keys too.     *)
(* Three exceptions the code has: replies without an index; an index that  *)
(* after a restart came back to the very number the watcher saw last, with *)
(* other data; and a catalog answer older than the checks it goes with:    *)
(* the watcher then waits for an index beyond that of the checks, which    *)
(* only the next change brings.                                            *)
(***************************************************************************)
Due == [w \in Worlds |-> KnownRoutes(passing_services(Checks[w]),
                                     {[service |-> s, world |-> w] : s \in DOMAIN Catalog[w]})]
ServicesReused == mon.last_index = index["services"] /\ mon.source # changes["services"]
KvReused == kvw.last_index = index["kv"] /\ kvw.source # changes["kv"]
ServicesCatchUp == <>[]("services" \in enabled /\ indexed => InOrder(applied.services, Due[world]) \/ ServicesReused \/ mon.lagged)
KvCatchesUp == <>[]("kv" \in enabled /\ indexed => applied.kv = combined(kv) \/ KvReused)

(* An update names all that is well and registered, and nothing else.      *)
UpdatesAreRight == WatchTypeOK /\ OnlyWellRouted /\ UpdatesAreWhole

(* Both kinds of routes catch up with what Consul holds.                   *)
RoutesCatchUp == ServicesCatchUp /\ KvCatchesUp
=============================================================================
