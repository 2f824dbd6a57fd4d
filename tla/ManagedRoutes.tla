--------------------------- MODULE ManagedRoutes ---------------------------
(***************************************************************************)
(* The control plane: route updates from Consul and from the admin API     *)
(* (src/route/registry.rs) and runtime changes of the configuration        *)
(* (src/admin/config_handler.rs), which end in a rebuild of the route table*)
(* when the circuit-breaker settings change.                               *)
(*                                                                         *)
(* The table gives each upstream URL a health tracker, which owns the      *)
(* circuit breaker of that URL.  A rebuild finds the tracker of a URL in   *)
(* the registry's map of Weak references (src/route/target_stats.rs).      *)
(*                                                                         *)
(* A route definition is abstracted to the URL it names.  The order in     *)
(* which definitions of different sources are applied matters only to      *)
(* "route del" and "route weight", which are not modelled here, so a table *)
(* keeps its definitions by source.                                        *)
(***************************************************************************)
EXTENDS Integers, Sequences, FiniteSets

CONSTANTS
    Consul,       \* the task that consumes the Consul watchers' channel
    Admins,       \* requests of the admin API, each a task
    Urls,         \* upstream URLs
    Payloads,     \* route lists an update may carry
    MaxStatic,    \* bound on the number of static routes
    CbConfigs,    \* circuit-breaker settings, "switched off" among them
    Ttls,         \* values of proxy.dns_cache_ttl
    Cidrs,        \* values of proxy.trusted_proxies
    Invalid,      \* configurations that Config::validate refuses
    Trackers,     \* identities of health trackers
    None          \* no task, no tracker, a field an update does not name

Writers == Consul \cup Admins
Configs == [cb : CbConfigs, dns : Ttls, trusted : Cidrs]
Fields == {"cb", "dns", "trusted"}

ASSUME ManagedAssumption ==
    /\ None \notin Writers \cup Trackers \cup CbConfigs \cup Ttls \cup Cidrs
    /\ Payloads \subseteq Seq(Urls)
    /\ MaxStatic \in Nat
    /\ Invalid \subseteq Configs

VARIABLES
    startup,        \* AdminState.startup_config
    config,         \* the shared configuration
    dns_ttl,        \* the TTL the DNS cache works with
    trusted,        \* the parsed trusted-proxy ranges
    config_lock,    \* holder of CONFIG_UPDATE_LOCK
    update_lock,    \* holder of ManagedRouteTable.update_lock
    registry,       \* RouteRegistry: the definitions of each source
    cb_config,      \* RouteTable.cb_config
    trackers,       \* TargetStatsRegistry.health_trackers, by URL
    made_with,      \* the settings each tracker's breaker was created with
    table,          \* the route table in force
    held,           \* trackers that requests and probes in flight refer to
    pc,             \* next step of each writer
    draft,          \* the registry clone a route update works on
    built,          \* the table a writer has built
    patch           \* the configuration update a writer carries out

settings == <<startup, config, dns_ttl, trusted, config_lock>>
managed == <<update_lock, registry, cb_config, trackers, made_with, table>>
vars == <<settings, managed, held, pc, draft, built, patch>>

----------------------------------------------------------------------------
Sources == {"static", "kv", "service"}
NoRoutes == [s \in Sources |-> <<>>]
NoTargets == [u \in Urls |-> None]
NoTable == [routes |-> NoRoutes, targets |-> NoTargets, cb |-> None]
NoPatch == [to |-> None, old_cb |-> None, names |-> {}]

(***************************************************************************)
(* main: the configuration file fixes the startup configuration, the DNS   *)
(* TTL, the trusted ranges and the breaker settings of an empty table.  The*)
(* static routes file, loaded next, acts like a first append_static.       *)
(***************************************************************************)
Init ==
    /\ startup \in Configs \ Invalid
    /\ config = startup
    /\ dns_ttl = startup.dns
    /\ trusted = startup.trusted
    /\ config_lock = None
    /\ update_lock = None
    /\ registry = NoRoutes
    /\ cb_config = startup.cb
    /\ trackers = NoTargets
    /\ made_with = [tr \in Trackers |-> startup.cb]
    /\ table = [NoTable EXCEPT !.cb = startup.cb]
    /\ held = {}
    /\ pc = [w \in Writers |-> "idle"]
    /\ draft = [w \in Writers |-> NoRoutes]
    /\ built = [w \in Writers |-> NoTable]
    /\ patch = [w \in Writers |-> NoPatch]

Goto(w, from, to) == pc[w] = from /\ pc' = [pc EXCEPT ![w] = to]

----------------------------------------------------------------------------
(***************************************************************************)
(* load_static, append_static, update_kv, update_services: take            *)
(* update_lock, clone the registry and change one source of the clone.     *)
(***************************************************************************)
\* Mutant: the clone is taken without the lock.
Begin_Unlocked(w, s, defs) ==
    /\ Goto(w, "idle", "build")
    /\ update_lock' = w
    /\ draft' = [draft EXCEPT ![w] = [registry EXCEPT ![s] = defs]]
    /\ UNCHANGED <<settings, registry, cb_config, trackers, made_with, table,
                   held, built, patch>>

Begin(w, s, defs) ==
    /\ Goto(w, "idle", "build")
    /\ update_lock = None
    /\ update_lock' = w
    /\ draft' = [draft EXCEPT ![w] = [registry EXCEPT ![s] = defs]]
    /\ UNCHANGED <<settings, registry, cb_config, trackers, made_with, table,
                   held, built, patch>>

UpdateKv(w) == w \in Consul /\ \E defs \in Payloads : Begin(w, "kv", defs)
UpdateServices(w) == w \in Consul /\ \E defs \in Payloads : Begin(w, "service", defs)
ClearStatic(w) == w \in Admins /\ Begin(w, "static", <<>>)
AppendStatic(w) ==
    /\ w \in Admins
    /\ \E defs \in Payloads \ {<<>>} :
          /\ Len(registry["static"]) + Len(defs) <= MaxStatic
          /\ Begin(w, "static", registry["static"] \o defs)

(***************************************************************************)
(* health_tracker_for: the tracker of the URL while anybody refers to it,  *)
(* else a new one with the breaker settings of the table being built.      *)
(***************************************************************************)
UrlsOf(routes) == {u \in Urls : \E s \in Sources : \E i \in DOMAIN routes[s] : routes[s][i] = u}

Live(tr) ==
    \/ tr \in held
    \/ \E u \in Urls : \/ table.targets[u] = tr
                       \/ \E w \in Writers : built[w].targets[u] = tr

Upgradable(u) == trackers[u] # None /\ Live(trackers[u])
Fresh == {tr \in Trackers : ~Live(tr) /\ \A u \in Urls : trackers[u] # tr}

from_definitions_with_stats(w, routes, cb) ==
    \E new \in [{u \in UrlsOf(routes) : ~Upgradable(u)} -> Fresh] :
       /\ \A u, v \in DOMAIN new : u # v => new[u] # new[v]
       /\ trackers' = [u \in Urls |-> IF u \in DOMAIN new THEN new[u] ELSE trackers[u]]
       /\ made_with' = [tr \in Trackers |-> IF \E u \in DOMAIN new : new[u] = tr
                                              THEN cb ELSE made_with[tr]]
       /\ built' = [built EXCEPT ![w] =
              [routes |-> routes,
               targets |-> [u \in Urls |-> IF u \in UrlsOf(routes) THEN trackers'[u]
                                                                   ELSE None],
               cb |-> cb]]

(***************************************************************************)
(* rebuild_and_swap: build, store the clone, swap the table, unlock.       *)
(***************************************************************************)
Build(w) ==
    /\ Goto(w, "build", "store")
    /\ from_definitions_with_stats(w, draft[w], cb_config)
    /\ UNCHANGED <<settings, update_lock, registry, cb_config, table, held, draft, patch>>

\* Mutant: the next update starts from the registry of the one before.
Store_Forgets(w) ==
    /\ Goto(w, "store", "swap")
    /\ draft' = [draft EXCEPT ![w] = NoRoutes]
    /\ UNCHANGED <<settings, update_lock, registry, cb_config, trackers, made_with,
                   table, held, built, patch>>

Store(w) ==
    /\ Goto(w, "store", "swap")
    /\ registry' = draft[w]
    /\ draft' = [draft EXCEPT ![w] = NoRoutes]
    /\ UNCHANGED <<settings, update_lock, cb_config, trackers, made_with, table,
                   held, built, patch>>

Swap(w) ==
    /\ Goto(w, "swap", "idle")
    /\ table' = built[w]
    /\ built' = [built EXCEPT ![w] = NoTable]
    /\ update_lock' = None
    /\ UNCHANGED <<settings, registry, cb_config, trackers, made_with, held,
                   draft, patch>>

----------------------------------------------------------------------------
(***************************************************************************)
(* config_update_handler and config_reset_handler, under                   *)
(* CONFIG_UPDATE_LOCK.  A configuration that validate refuses ends the     *)
(* handler with nothing changed.                                           *)
(***************************************************************************)
Updates == [cb : CbConfigs \cup {None}, dns : Ttls \cup {None}, trusted : Cidrs \cup {None}]
Given(new, old) == IF new = None THEN old ELSE new
Merge(c, up) == [cb |-> Given(up.cb, c.cb),
                 dns |-> Given(up.dns, c.dns),
                 trusted |-> Given(up.trusted, c.trusted)]

\* Mutant: the handlers do not serialise.
BeginConfig_Unlocked(w, to, names) ==
    /\ w \in Admins
    /\ Goto(w, "idle", "dns")
    /\ config_lock' = w
    /\ to \notin Invalid
    /\ patch' = [patch EXCEPT ![w] =
                   [to |-> to, old_cb |-> config.cb, names |-> names]]
    /\ UNCHANGED <<startup, config, dns_ttl, trusted, managed, held, draft, built>>

BeginConfig(w, to, names) ==
    /\ w \in Admins
    /\ Goto(w, "idle", "dns")
    /\ config_lock = None
    /\ config_lock' = w
    /\ to \notin Invalid
    /\ patch' = [patch EXCEPT ![w] =
                   [to |-> to, old_cb |-> config.cb, names |-> names]]
    /\ UNCHANGED <<startup, config, dns_ttl, trusted, managed, held, draft, built>>

UpdateConfig(w) ==
    \E up \in Updates :
       BeginConfig(w, Merge(config, up), {f \in Fields : up[f] # None})

\* Mutant: a reset leaves the trusted ranges as they are.
ResetConfig_KeepsTrusted(w) == BeginConfig(w, startup, {"cb", "dns"})
ResetConfig(w) == BeginConfig(w, startup, Fields)

SetDnsTtl(w) ==
    /\ Goto(w, "dns", "config")
    /\ dns_ttl' = patch[w].to.dns
    /\ UNCHANGED <<startup, config, trusted, config_lock, managed, held, draft,
                   built, patch>>

StoreConfig(w) ==
    /\ Goto(w, "config", "trusted")
    /\ config' = patch[w].to
    /\ UNCHANGED <<startup, dns_ttl, trusted, config_lock, managed, held, draft,
                   built, patch>>

FinishConfig(w) ==
    /\ config_lock' = None
    /\ patch' = [patch EXCEPT ![w] = NoPatch]

\* Mutant: the breakers are reset although their settings did not change.
StoreTrusted_Always(w) ==
    /\ Goto(w, "trusted", "reconfigure")
    /\ trusted' = IF "trusted" \in patch[w].names THEN config.trusted ELSE trusted
    /\ UNCHANGED <<startup, config, dns_ttl, config_lock, patch, managed, held, draft,
                   built>>

StoreTrusted(w) ==
    /\ pc[w] = "trusted"
    /\ trusted' = IF "trusted" \in patch[w].names THEN config.trusted ELSE trusted
    /\ IF patch[w].old_cb # patch[w].to.cb
         THEN /\ Goto(w, "trusted", "reconfigure")
              /\ UNCHANGED <<config_lock, patch>>
         ELSE /\ Goto(w, "trusted", "idle")
              /\ FinishConfig(w)
    /\ UNCHANGED <<startup, config, dns_ttl, managed, held, draft, built>>

(***************************************************************************)
(* reconfigure_circuit_breaker: under update_lock, forget every tracker,   *)
(* store the settings, and rebuild from the registry as it stands.         *)
(***************************************************************************)
\* Mutant: the trackers are kept.
ClearTrackers_Keeps(w) ==
    /\ Goto(w, "reconfigure", "rebuild")
    /\ update_lock = None
    /\ update_lock' = w
    /\ UNCHANGED <<settings, registry, cb_config, trackers, made_with, table, held,
                   draft, built, patch>>

ClearTrackers(w) ==
    /\ Goto(w, "reconfigure", "rebuild")
    /\ update_lock = None
    /\ update_lock' = w
    /\ trackers' = NoTargets
    /\ UNCHANGED <<settings, registry, cb_config, made_with, table, held, draft,
                   built, patch>>

Rebuild(w) ==
    /\ Goto(w, "rebuild", "reswap")
    /\ cb_config' = patch[w].to.cb
    /\ from_definitions_with_stats(w, registry, patch[w].to.cb)
    /\ UNCHANGED <<settings, update_lock, registry, table, held, draft, patch>>

Reswap(w) ==
    /\ Goto(w, "reswap", "idle")
    /\ table' = built[w]
    /\ built' = [built EXCEPT ![w] = NoTable]
    /\ update_lock' = None
    /\ FinishConfig(w)
    /\ UNCHANGED <<startup, config, dns_ttl, trusted, registry, cb_config,
                   trackers, made_with, held, draft>>

----------------------------------------------------------------------------
(***************************************************************************)
(* A request or a health probe takes a target from the table, and drops it *)
(* whenever it ends.                                                       *)
(***************************************************************************)
Hold(tr) ==
    /\ tr \notin held
    /\ \E u \in Urls : table.targets[u] = tr
    /\ held' = held \cup {tr}
    /\ UNCHANGED <<settings, managed, pc, draft, built, patch>>

Drop(tr) ==
    /\ tr \in held
    /\ held' = held \ {tr}
    /\ UNCHANGED <<settings, managed, pc, draft, built, patch>>

UpdateRoutes(w) ==
    \/ UpdateKv(w) \/ UpdateServices(w) \/ ClearStatic(w) \/ AppendStatic(w)
    \/ Build(w) \/ Store(w) \/ Swap(w)

Configure(w) ==
    \/ UpdateConfig(w) \/ ResetConfig(w)
    \/ SetDnsTtl(w) \/ StoreConfig(w) \/ StoreTrusted(w)
    \/ ClearTrackers(w) \/ Rebuild(w) \/ Reswap(w)

Next ==
    \/ \E w \in Writers : UpdateRoutes(w) \/ Configure(w)
    \/ \E tr \in Trackers : Hold(tr) \/ Drop(tr)

Spec == Init /\ [][Next]_vars

----------------------------------------------------------------------------
(***************************************************************************)
(* Every variable stays in its range.                                      *)
(***************************************************************************)
Routes == [Sources -> Seq(Urls)]
Tables == [routes : Routes, targets : [Urls -> Trackers \cup {None}],
           cb : CbConfigs \cup {None}]
Steps == {"idle", "build", "store", "swap", "dns", "config", "trusted",
          "reconfigure", "rebuild", "reswap"}

TypeOK ==
    /\ startup \in Configs /\ config \in Configs
    /\ dns_ttl \in Ttls /\ trusted \in Cidrs
    /\ config_lock \in Admins \cup {None}
    /\ update_lock \in Writers \cup {None}
    /\ registry \in Routes
    /\ cb_config \in CbConfigs
    /\ trackers \in [Urls -> Trackers \cup {None}]
    /\ made_with \in [Trackers -> CbConfigs]
    /\ table \in Tables /\ table.cb # None
    /\ held \subseteq Trackers
    /\ pc \in [Writers -> Steps]
    /\ draft \in [Writers -> Routes]
    /\ built \in [Writers -> Tables]
    /\ patch \in [Writers -> [to : Configs \cup {None}, old_cb : CbConfigs \cup {None},
                              names : SUBSET Fields]]

(***************************************************************************)
(* Whatever updates of routes and of the configuration interleave, the     *)
(* traffic sees them take effect one at a time and none is lost: the table *)
(* in force implements RouteSources.                                       *)
(***************************************************************************)
Promise == INSTANCE RouteSources WITH routes <- table.routes, breaker <- table.cb
ImplementsRouteSources == Promise!Spec

(***************************************************************************)
(* Between updates, the table was built from the registry as it stands.    *)
(***************************************************************************)
TableIsCurrent ==
    update_lock = None => table.routes = registry /\ table.cb = cb_config

(***************************************************************************)
(* Between configuration updates, everything derived from the configuration*)
(* has caught up with it: the DNS TTL, the trusted ranges and the breaker  *)
(* settings of the table.                                                  *)
(***************************************************************************)
SettingsInForce ==
    config_lock = None => /\ dns_ttl = config.dns
                          /\ trusted = config.trusted
                          /\ cb_config = config.cb

(***************************************************************************)
(* Every target's breaker was created with the settings of its table: a    *)
(* change of settings reaches upstreams that are busy while it happens.    *)
(***************************************************************************)
BreakersUseSettings ==
    \A u \in Urls :
       table.targets[u] # None => made_with[table.targets[u]] = table.cb

(***************************************************************************)
(* A rebuild that does not change the breaker settings keeps the tracker,  *)
(* and with it the breaker's state, of every URL that stays in the table.  *)
(***************************************************************************)
BreakersSurviveRebuilds ==
    [][table'.cb = table.cb =>
          \A u \in Urls : table.targets[u] # None /\ table'.targets[u] # None
                             => table'.targets[u] = table.targets[u]]_vars

(***************************************************************************)
(* A configuration update never undoes another one: the configuration it   *)
(* stores differs from the one in force only in fields it names.           *)
(***************************************************************************)
UpdatesAreMerged ==
    [][config' # config =>
          \E w \in Admins : /\ pc[w] = "config"
                            /\ \A f \in Fields \ patch[w].names :
                                  config'[f] = config[f]]_vars
=============================================================================
