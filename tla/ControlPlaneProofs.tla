------------------------- MODULE ControlPlaneProofs -------------------------
(***************************************************************************)
(* Proofs about the control plane: the managed routes and the runtime      *)
(* configuration, for any set of tasks, URLs, payloads and configurations, *)
(* the Consul watchers, for any contents of Consul, any loss of its index  *)
(* and any capacity of the channel, and the route commands and the route   *)
(* table, for any commands, hosts, paths and weights.                      *)
(***************************************************************************)
EXTENDS ManagedRoutes, ConsulWatcher, RouteTable, FiniteSetTheorems,
        SequenceTheorems, WellFoundedInduction, TLAPS


----------------------------------------------------------------------------
(***************************************************************************)
(* The inductive invariant.  Each lock is held exactly by the task that is *)
(* between its acquisition and its release.                                *)
(***************************************************************************)
UpdateSteps == {"build", "store", "swap", "rebuild", "reswap"}
ConfigSteps == {"dns", "config", "trusted", "reconfigure", "rebuild", "reswap"}

LocksInv ==
    /\ \A w \in Writers : pc[w] \in UpdateSteps <=> update_lock = w
    /\ \A w \in Writers : pc[w] \in ConfigSteps <=> config_lock = w

(***************************************************************************)
(* One update of one source leads from one set of routes to another.       *)
(***************************************************************************)
OneUpdate(old, new) ==
    \/ \E defs \in Payloads :
          \/ new = [old EXCEPT !["kv"] = defs]
          \/ new = [old EXCEPT !["service"] = defs]
          \/ new = [old EXCEPT !["static"] = old["static"] \o defs]
    \/ new = [old EXCEPT !["static"] = <<>>]

(***************************************************************************)
(* What a route update holds in its hands, and how far the table is behind.*)
(***************************************************************************)
RoutesInv ==
    /\ \A w \in Writers :
          /\ pc[w] \in {"build", "store"} => OneUpdate(registry, draft[w])
          /\ pc[w] = "store" => built[w].routes = draft[w]
          /\ pc[w] = "swap" => OneUpdate(table.routes, registry)
          /\ pc[w] \in {"swap", "reswap"} => built[w].routes = registry
          /\ pc[w] \in {"store", "swap", "reswap"} => built[w].cb = cb_config
    /\ (\A w \in Writers : pc[w] # "swap") => table.routes = registry
    /\ (\A w \in Writers : pc[w] # "reswap") => table.cb = cb_config

(***************************************************************************)
(* How far a configuration update has got.                                 *)
(***************************************************************************)
Agreed ==
    /\ dns_ttl = config.dns
    /\ trusted = config.trusted
    /\ cb_config = config.cb

Progress(w) ==
    LET p == patch[w]
        unnamed == \A f \in Fields \ p.names : p.to[f] = config[f]
    IN  /\ pc[w] \in ConfigSteps => p.to \in Configs /\ p.old_cb \in CbConfigs
        /\ pc[w] = "dns" => Agreed /\ p.old_cb = config.cb /\ unnamed
        /\ pc[w] = "config" =>
              /\ dns_ttl = p.to.dns /\ trusted = config.trusted
              /\ cb_config = config.cb /\ p.old_cb = config.cb /\ unnamed
        /\ pc[w] \in {"trusted", "reconfigure", "rebuild", "reswap"} =>
              config = p.to /\ dns_ttl = config.dns
        /\ pc[w] = "trusted" =>
              /\ cb_config = p.old_cb
              /\ "trusted" \notin p.names => trusted = config.trusted
        /\ pc[w] \in {"reconfigure", "rebuild", "reswap"} =>
              trusted = config.trusted /\ p.old_cb # p.to.cb
        /\ pc[w] \in {"reconfigure", "rebuild"} => cb_config = p.old_cb
        /\ pc[w] = "reswap" => cb_config = p.to.cb /\ table.cb = p.old_cb

SettingsInv ==
    /\ config_lock = None => Agreed
    /\ \A w \in Writers : Progress(w)

(***************************************************************************)
(* Every entry of the tracker map was made with the settings in force, and *)
(* the entry of a URL is the tracker its targets refer to.                 *)
(***************************************************************************)
TrackersInv ==
    /\ \A u \in Urls : trackers[u] # None => made_with[trackers[u]] = cb_config
    /\ \A u \in Urls : table.targets[u] # None => made_with[table.targets[u]] = table.cb
    /\ (\A w \in Writers : pc[w] \notin {"rebuild", "reswap"})
          => \A u \in Urls : table.targets[u] # None => table.targets[u] = trackers[u]
    /\ \A w \in Writers, u \in Urls :
          built[w].targets[u] # None =>
             /\ pc[w] \in {"store", "swap", "reswap"}
             /\ built[w].targets[u] = trackers[u]
    /\ \A w \in Writers : pc[w] = "rebuild" => trackers = NoTargets

Inv == TypeOK /\ LocksInv /\ RoutesInv /\ SettingsInv /\ TrackersInv

----------------------------------------------------------------------------
(***************************************************************************)
(* The start of a route update and of a configuration update, with what the*)
(* operations that call them have in common.                               *)
(***************************************************************************)
StartUpdate(w) ==
    \E s \in Sources, defs \in Seq(Urls) :
       Begin(w, s, defs) /\ OneUpdate(registry, [registry EXCEPT ![s] = defs])

StartConfig(w) ==
    \E to \in Configs, names \in SUBSET Fields :
       BeginConfig(w, to, names) /\ \A f \in Fields \ names : to[f] = config[f]

(***************************************************************************)
(* Every step is one of these.                                             *)
(***************************************************************************)
LEMMA NextCases ==
    ASSUME TypeOK, Next
    PROVE  \/ \E w \in Writers :
                 \/ StartUpdate(w) \/ Build(w) \/ Store(w) \/ Swap(w)
                 \/ StartConfig(w) \/ SetDnsTtl(w) \/ StoreConfig(w) \/ StoreTrusted(w)
                 \/ ClearTrackers(w) \/ Rebuild(w) \/ Reswap(w)
           \/ \E tr \in Trackers : Hold(tr) \/ Drop(tr)
  <1> USE ManagedAssumption
  <1>1. ASSUME NEW w \in Writers, UpdateKv(w) \/ UpdateServices(w)
        PROVE  StartUpdate(w)
    BY <1>1 DEF UpdateKv, UpdateServices, StartUpdate, OneUpdate, Sources
  <1>2. ASSUME NEW w \in Writers, ClearStatic(w)
        PROVE  StartUpdate(w)
    <2>1. <<>> \in Seq(Urls)
      OBVIOUS
    <2> QED
      BY <1>2, <2>1 DEF ClearStatic, StartUpdate, OneUpdate, Sources
  <1>3. ASSUME NEW w \in Writers, AppendStatic(w)
        PROVE  StartUpdate(w)
    <2>1. PICK defs \in Payloads : Begin(w, "static", registry["static"] \o defs)
      BY <1>3 DEF AppendStatic
    <2>2. registry["static"] \o defs \in Seq(Urls)
      BY DEF TypeOK, Routes, Sources
    <2> QED
      BY <2>1, <2>2 DEF StartUpdate, OneUpdate, Sources
  <1>4. ASSUME NEW w \in Writers, UpdateConfig(w)
        PROVE  StartConfig(w)
    <2>1. PICK up \in Updates :
             BeginConfig(w, Merge(config, up), {f \in Fields : up[f] # None})
      BY <1>4 DEF UpdateConfig
    <2>2. Merge(config, up) \in Configs
      BY DEF Merge, Given, Updates, Configs, TypeOK
    <2>3. \A f \in Fields \ {g \in Fields : up[g] # None} : Merge(config, up)[f] = config[f]
      BY DEF Merge, Given, Updates, Fields
    <2> QED
      BY <2>1, <2>2, <2>3 DEF StartConfig
  <1>5. ASSUME NEW w \in Writers, ResetConfig(w)
        PROVE  StartConfig(w)
    BY <1>5 DEF ResetConfig, StartConfig, TypeOK
  <1> QED
    BY <1>1, <1>2, <1>3, <1>4, <1>5 DEF Next, UpdateRoutes, Configure

(***************************************************************************)
(* What building a table does to the tracker map: entries in use stay, new *)
(* entries are made with the settings of the table, and no tracker that is *)
(* in use or in the map is touched.                                        *)
(***************************************************************************)
LEMMA BuildFacts ==
    ASSUME TypeOK, NEW w \in Writers, NEW routes \in Routes, NEW cb \in CbConfigs,
           from_definitions_with_stats(w, routes, cb)
    PROVE  /\ trackers' \in [Urls -> Trackers \cup {None}]
           /\ made_with' \in [Trackers -> CbConfigs]
           /\ built' = [built EXCEPT ![w] = built'[w]]
           /\ built'[w] \in Tables
           /\ built'[w].routes = routes /\ built'[w].cb = cb
           /\ \A u \in Urls : built'[w].targets[u] \in {None, trackers'[u]}
           /\ \A u \in Urls : Upgradable(u) => trackers'[u] = trackers[u]
           /\ \A u \in Urls : \/ trackers'[u] = trackers[u]
                              \/ trackers'[u] \in Trackers /\ made_with'[trackers'[u]] = cb
           /\ \A tr \in Trackers : Live(tr) => made_with'[tr] = made_with[tr]
           /\ \A u \in Urls : trackers[u] # None =>
                 made_with'[trackers[u]] = made_with[trackers[u]]
  <1> USE ManagedAssumption
  <1> DEFINE missing == {u \in UrlsOf(routes) : ~Upgradable(u)}
  <1>a. PICK new \in [missing -> Fresh] :
           /\ trackers' = [u \in Urls |-> IF u \in DOMAIN new THEN new[u] ELSE trackers[u]]
           /\ made_with' = [tr \in Trackers |-> IF \E u \in DOMAIN new : new[u] = tr
                                                  THEN cb ELSE made_with[tr]]
           /\ built' = [built EXCEPT ![w] =
                 [routes |-> routes,
                  targets |-> [u \in Urls |-> IF u \in UrlsOf(routes) THEN trackers'[u]
                                                                      ELSE None],
                  cb |-> cb]]
    BY Zenon DEF from_definitions_with_stats
  <1>b. DOMAIN new = missing
    OBVIOUS
  <1> HIDE DEF missing
  <1>1. /\ trackers' = [u \in Urls |-> IF u \in missing THEN new[u] ELSE trackers[u]]
        /\ made_with' = [tr \in Trackers |-> IF \E u \in missing : new[u] = tr
                                               THEN cb ELSE made_with[tr]]
        /\ built' = [built EXCEPT ![w] =
              [routes |-> routes,
               targets |-> [u \in Urls |-> IF u \in UrlsOf(routes) THEN trackers'[u]
                                                                   ELSE None],
               cb |-> cb]]
    BY <1>a, <1>b
  <1>2. missing \subseteq Urls
    BY DEF UrlsOf, missing
  <1>3. \A u \in missing : /\ new[u] \in Trackers /\ ~Live(new[u])
                           /\ \A v \in Urls : trackers[v] # new[u]
    BY <1>1 DEF Fresh
  <1>4. trackers' \in [Urls -> Trackers \cup {None}]
    BY <1>1, <1>3 DEF TypeOK
  <1>5. made_with' \in [Trackers -> CbConfigs]
    BY <1>1 DEF TypeOK
  <1>6. /\ built'[w].routes = routes /\ built'[w].cb = cb
        /\ built' = [built EXCEPT ![w] = built'[w]]
        /\ \A u \in Urls : built'[w].targets[u] \in {None, trackers'[u]}
    BY <1>1 DEF TypeOK
  <1>7. built'[w] \in Tables
    <2>1. [u \in Urls |-> IF u \in UrlsOf(routes) THEN trackers'[u] ELSE None]
             \in [Urls -> Trackers \cup {None}]
      BY <1>4
    <2> QED
      BY <1>1, <2>1 DEF TypeOK, Tables
  <1>8. \A u \in Urls : Upgradable(u) => trackers'[u] = trackers[u]
    BY <1>1 DEF missing
  <1>9. \A u \in Urls : \/ trackers'[u] = trackers[u]
                        \/ trackers'[u] \in Trackers /\ made_with'[trackers'[u]] = cb
    BY <1>1, <1>3
  <1>10. \A tr \in Trackers : Live(tr) => made_with'[tr] = made_with[tr]
    BY <1>1, <1>3
  <1>11. \A u \in Urls : trackers[u] # None =>
            made_with'[trackers[u]] = made_with[trackers[u]]
    <2>1. \A u \in Urls : trackers[u] # None => trackers[u] \in Trackers
      BY DEF TypeOK
    <2> QED
      BY <1>1, <1>3, <2>1
  <1> QED
    BY <1>4, <1>5, <1>6, <1>7, <1>8, <1>9, <1>10, <1>11

(***************************************************************************)
(* The empty table and the empty set of routes have their types.           *)
(***************************************************************************)
LEMMA EmptyTypes ==
    NoRoutes \in Routes /\ NoTargets \in [Urls -> Trackers \cup {None}] /\ NoTable \in Tables
  <1>1. NoRoutes \in Routes
    BY DEF NoRoutes, Routes
  <1>2. NoTargets \in [Urls -> Trackers \cup {None}]
    BY DEF NoTargets
  <1> QED
    BY <1>1, <1>2 DEF NoTable, Tables

----------------------------------------------------------------------------
(***************************************************************************)
(* No step of a writer disturbs the locks of another: the two mutexes keep  *)
(* their holders in their critical sections.                                *)
(***************************************************************************)
LEMMA LocksStep ==
    ASSUME Inv, [Next]_vars
    PROVE  LocksInv'
  <1> USE ManagedAssumption DEF Inv
  <1>1. CASE UNCHANGED vars
    BY <1>1 DEF LocksInv, UpdateSteps, ConfigSteps, TypeOK, Writers, vars,
       settings, managed
  <1>2. ASSUME NEW w \in Writers, StartUpdate(w)
        PROVE  LocksInv'
    BY <1>2 DEF LocksInv, UpdateSteps, ConfigSteps, TypeOK, Writers,
       StartUpdate, Begin, Goto, settings, managed
  <1>3. ASSUME NEW w \in Writers, Build(w)
        PROVE  LocksInv'
    BY <1>3 DEF LocksInv, UpdateSteps, ConfigSteps, TypeOK, Writers, Build,
       Goto, settings, managed
  <1>4. ASSUME NEW w \in Writers, Store(w)
        PROVE  LocksInv'
    BY <1>4 DEF LocksInv, UpdateSteps, ConfigSteps, TypeOK, Writers, Store,
       Goto, settings, managed
  <1>5. ASSUME NEW w \in Writers, Swap(w)
        PROVE  LocksInv'
    BY <1>5 DEF LocksInv, UpdateSteps, ConfigSteps, TypeOK, Writers, Swap,
       Goto, settings, managed
  <1>6. ASSUME NEW w \in Writers, StartConfig(w)
        PROVE  LocksInv'
    BY <1>6 DEF LocksInv, UpdateSteps, ConfigSteps, TypeOK, Writers,
       StartConfig, BeginConfig, Goto, settings, managed
  <1>7. ASSUME NEW w \in Writers, SetDnsTtl(w)
        PROVE  LocksInv'
    BY <1>7 DEF LocksInv, UpdateSteps, ConfigSteps, TypeOK, Writers, SetDnsTtl,
       Goto, settings, managed
  <1>8. ASSUME NEW w \in Writers, StoreConfig(w)
        PROVE  LocksInv'
    BY <1>8 DEF LocksInv, UpdateSteps, ConfigSteps, TypeOK, Writers,
       StoreConfig, Goto, settings, managed
  <1>9. ASSUME NEW w \in Writers, StoreTrusted(w)
        PROVE  LocksInv'
    BY <1>9 DEF LocksInv, UpdateSteps, ConfigSteps, TypeOK, Writers,
       StoreTrusted, FinishConfig, Goto, settings, managed
  <1>10. ASSUME NEW w \in Writers, ClearTrackers(w)
        PROVE  LocksInv'
    BY <1>10 DEF LocksInv, UpdateSteps, ConfigSteps, TypeOK, Writers,
       ClearTrackers, Goto, settings, managed
  <1>11. ASSUME NEW w \in Writers, Rebuild(w)
        PROVE  LocksInv'
    BY <1>11 DEF LocksInv, UpdateSteps, ConfigSteps, TypeOK, Writers, Rebuild,
       Goto, settings, managed
  <1>12. ASSUME NEW w \in Writers, Reswap(w)
        PROVE  LocksInv'
    BY <1>12 DEF LocksInv, UpdateSteps, ConfigSteps, TypeOK, Writers, Reswap,
       FinishConfig, Goto, settings, managed
  <1>13. ASSUME NEW tr \in Trackers, Hold(tr) \/ Drop(tr)
        PROVE  LocksInv'
    BY <1>13 DEF LocksInv, UpdateSteps, ConfigSteps, TypeOK, Writers, Hold,
       Drop, settings, managed
  <1> QED
    BY <1>1, <1>2, <1>3, <1>4, <1>5, <1>6, <1>7, <1>8, <1>9, <1>10, <1>11,
       <1>12, <1>13, NextCases

(***************************************************************************)
(* Every step keeps the types.                                              *)
(***************************************************************************)
LEMMA TypeStep ==
    ASSUME Inv, [Next]_vars
    PROVE  TypeOK'
  <1> USE ManagedAssumption DEF Inv
  <1>1. CASE UNCHANGED vars
    BY <1>1 DEF TypeOK, vars, settings, managed
  <1>2. ASSUME NEW w \in Writers, StartUpdate(w)
        PROVE  TypeOK'
    <2>1. PICK s \in Sources, defs \in Seq(Urls) : Begin(w, s, defs)
      BY <1>2 DEF StartUpdate
    <2>2. [registry EXCEPT ![s] = defs] \in Routes
      BY DEF TypeOK, Routes
    <2>3. draft' \in [Writers -> Routes]
      BY <2>1, <2>2 DEF TypeOK, Begin
    <2>4. pc' \in [Writers -> Steps]
      BY <2>1 DEF TypeOK, Begin, Goto, Steps
    <2> QED
      BY <2>1, <2>3, <2>4 DEF TypeOK, Begin, settings
  <1>3. ASSUME NEW w \in Writers, Build(w)
        PROVE  TypeOK'
    <2>1. draft[w] \in Routes /\ cb_config \in CbConfigs
      BY DEF TypeOK
    <2>2. from_definitions_with_stats(w, draft[w], cb_config)
      BY <1>3 DEF Build
    <2>3. pc' \in [Writers -> Steps]
      BY <1>3 DEF TypeOK, Build, Goto, Steps
    <2>4. /\ trackers' \in [Urls -> Trackers \cup {None}]
          /\ made_with' \in [Trackers -> CbConfigs]
          /\ built' = [built EXCEPT ![w] = built'[w]]
          /\ built'[w] \in Tables
      BY <2>1, <2>2, BuildFacts
    <2>5. built' \in [Writers -> Tables]
      BY <2>4 DEF TypeOK
    <2> QED
      BY <1>3, <2>3, <2>4, <2>5 DEF TypeOK, Build, settings
  <1>4. ASSUME NEW w \in Writers, Store(w)
        PROVE  TypeOK'
    <2>1. draft' \in [Writers -> Routes]
      BY <1>4, EmptyTypes DEF TypeOK, Store
    <2>2. pc' \in [Writers -> Steps]
      BY <1>4 DEF TypeOK, Store, Goto, Steps
    <2> QED
      BY <1>4, <2>1, <2>2 DEF TypeOK, Store, settings
  <1>5. ASSUME NEW w \in Writers, Swap(w)
        PROVE  TypeOK'
    <2>1. built' \in [Writers -> Tables]
      BY <1>5, EmptyTypes DEF TypeOK, Swap
    <2>2. pc' \in [Writers -> Steps]
      BY <1>5 DEF TypeOK, Swap, Goto, Steps
    <2>3. built[w] \in Tables /\ built[w].cb # None
      BY <1>5 DEF TypeOK, RoutesInv, Swap, Goto
    <2> QED
      BY <1>5, <2>1, <2>2, <2>3 DEF TypeOK, Swap, settings
  <1>6. ASSUME NEW w \in Writers, StartConfig(w)
        PROVE  TypeOK'
    <2>1. PICK to \in Configs, names \in SUBSET Fields : BeginConfig(w, to, names)
      BY <1>6 DEF StartConfig
    <2>2. config.cb \in CbConfigs
      BY DEF TypeOK, Configs
    <2>3. patch' \in [Writers -> [to : Configs \cup {None}, old_cb : CbConfigs \cup {None},
                                 names : SUBSET Fields]]
      BY <2>1, <2>2 DEF TypeOK, BeginConfig
    <2>4. pc' \in [Writers -> Steps]
      BY <2>1 DEF TypeOK, BeginConfig, Goto, Steps
    <2> QED
      BY <2>1, <2>3, <2>4 DEF TypeOK, BeginConfig, managed
  <1>7. ASSUME NEW w \in Writers, SetDnsTtl(w)
        PROVE  TypeOK'
    <2>1. pc' \in [Writers -> Steps]
      BY <1>7 DEF TypeOK, SetDnsTtl, Goto, Steps
    <2>2. patch[w].to.dns \in Ttls
      BY <1>7 DEF SetDnsTtl, Goto, SettingsInv, Progress, ConfigSteps, Configs
    <2> QED
      BY <1>7, <2>1, <2>2 DEF TypeOK, SetDnsTtl, managed
  <1>8. ASSUME NEW w \in Writers, StoreConfig(w)
        PROVE  TypeOK'
    <2>1. pc' \in [Writers -> Steps]
      BY <1>8 DEF TypeOK, StoreConfig, Goto, Steps
    <2>2. patch[w].to \in Configs
      BY <1>8 DEF StoreConfig, Goto, SettingsInv, Progress, ConfigSteps
    <2> QED
      BY <1>8, <2>1, <2>2 DEF TypeOK, StoreConfig, managed
  <1>9. ASSUME NEW w \in Writers, StoreTrusted(w)
        PROVE  TypeOK'
    <2>1. pc' \in [Writers -> Steps]
      BY <1>9 DEF TypeOK, StoreTrusted, Goto, Steps
    <2>2. trusted' \in Cidrs
      BY <1>9 DEF TypeOK, StoreTrusted, Configs
    <2>3. patch' \in [Writers -> [to : Configs \cup {None}, old_cb : CbConfigs \cup {None},
                                 names : SUBSET Fields]]
      BY <1>9 DEF TypeOK, StoreTrusted, FinishConfig, NoPatch
    <2>4. config_lock' \in Admins \cup {None}
      BY <1>9 DEF TypeOK, StoreTrusted, FinishConfig
    <2> QED
      BY <1>9, <2>1, <2>2, <2>3, <2>4 DEF TypeOK, StoreTrusted, managed
  <1>10. ASSUME NEW w \in Writers, ClearTrackers(w)
        PROVE  TypeOK'
    <2>1. pc' \in [Writers -> Steps]
      BY <1>10 DEF TypeOK, ClearTrackers, Goto, Steps
    <2> QED
      BY <1>10, <2>1, EmptyTypes DEF TypeOK, ClearTrackers, settings
  <1>11. ASSUME NEW w \in Writers, Rebuild(w)
        PROVE  TypeOK'
    <2>1. registry \in Routes /\ patch[w].to.cb \in CbConfigs
      BY <1>11 DEF TypeOK, SettingsInv, Progress, ConfigSteps, Configs, Rebuild, Goto
    <2>2. from_definitions_with_stats(w, registry, patch[w].to.cb)
      BY <1>11 DEF Rebuild
    <2>3. pc' \in [Writers -> Steps]
      BY <1>11 DEF TypeOK, Rebuild, Goto, Steps
    <2>4. /\ trackers' \in [Urls -> Trackers \cup {None}]
          /\ made_with' \in [Trackers -> CbConfigs]
          /\ built' = [built EXCEPT ![w] = built'[w]] /\ built'[w] \in Tables
      BY <2>1, <2>2, BuildFacts
    <2>5. built' \in [Writers -> Tables]
      BY <2>4 DEF TypeOK
    <2> QED
      BY <1>11, <2>1, <2>3, <2>4, <2>5 DEF TypeOK, Rebuild, settings
  <1>12. ASSUME NEW w \in Writers, Reswap(w)
        PROVE  TypeOK'
    <2>1. built' \in [Writers -> Tables]
      BY <1>12, EmptyTypes DEF TypeOK, Reswap
    <2>2. pc' \in [Writers -> Steps]
      BY <1>12 DEF TypeOK, Reswap, Goto, Steps
    <2>3. built[w] \in Tables /\ built[w].cb # None
      BY <1>12 DEF TypeOK, RoutesInv, Reswap, Goto
    <2>4. patch' \in [Writers -> [to : Configs \cup {None}, old_cb : CbConfigs \cup {None},
                                 names : SUBSET Fields]]
      BY <1>12 DEF TypeOK, Reswap, FinishConfig, NoPatch
    <2> QED
      BY <1>12, <2>1, <2>2, <2>3, <2>4 DEF TypeOK, Reswap, FinishConfig
  <1>13. ASSUME NEW tr \in Trackers, Hold(tr) \/ Drop(tr)
        PROVE  TypeOK'
    BY <1>13 DEF TypeOK, Hold, Drop, settings, managed
  <1> QED
    BY <1>1, <1>2, <1>3, <1>4, <1>5, <1>6, <1>7, <1>8, <1>9, <1>10, <1>11,
       <1>12, <1>13, NextCases

(***************************************************************************)
(* Under the lock, an update sees the registry as the one before left it,   *)
(* and the table follows the registry.                                      *)
(***************************************************************************)
LEMMA RoutesStep ==
    ASSUME Inv, [Next]_vars
    PROVE  RoutesInv'
  <1> USE ManagedAssumption DEF Inv
  <1>1. CASE UNCHANGED vars
    BY <1>1 DEF RoutesInv, TypeOK, LocksInv, UpdateSteps, vars, settings,
       managed
  <1>2. ASSUME NEW w \in Writers, StartUpdate(w)
        PROVE  RoutesInv'
    <2>1. PICK s \in Sources, defs \in Seq(Urls) :
             Begin(w, s, defs) /\ OneUpdate(registry, [registry EXCEPT ![s] = defs])
      BY <1>2 DEF StartUpdate
    <2> QED
      BY <2>1 DEF RoutesInv, TypeOK, LocksInv, UpdateSteps, Begin, Goto
  <1>3. ASSUME NEW w \in Writers, Build(w)
        PROVE  RoutesInv'
    <2>1. draft[w] \in Routes /\ cb_config \in CbConfigs
      BY DEF TypeOK
    <2>2. from_definitions_with_stats(w, draft[w], cb_config)
      BY <1>3 DEF Build
    <2>3. /\ built' = [built EXCEPT ![w] = built'[w]]
          /\ built'[w].routes = draft[w] /\ built'[w].cb = cb_config
      BY <2>1, <2>2, BuildFacts
    <2> QED
      BY <1>3, <2>3 DEF RoutesInv, TypeOK, LocksInv, UpdateSteps, Build, Goto
  <1>4. ASSUME NEW w \in Writers, Store(w)
        PROVE  RoutesInv'
    BY <1>4 DEF RoutesInv, TypeOK, LocksInv, UpdateSteps, Store, Goto,
       settings, managed
  <1>5. ASSUME NEW w \in Writers, Swap(w)
        PROVE  RoutesInv'
    BY <1>5 DEF RoutesInv, TypeOK, LocksInv, UpdateSteps, Swap, Goto, settings,
       managed
  <1>6. ASSUME NEW w \in Writers, StartConfig(w)
        PROVE  RoutesInv'
    BY <1>6 DEF RoutesInv, TypeOK, LocksInv, UpdateSteps, StartConfig,
       BeginConfig, Goto, settings, managed
  <1>7. ASSUME NEW w \in Writers, SetDnsTtl(w)
        PROVE  RoutesInv'
    BY <1>7 DEF RoutesInv, TypeOK, LocksInv, UpdateSteps, SetDnsTtl, Goto,
       settings, managed
  <1>8. ASSUME NEW w \in Writers, StoreConfig(w)
        PROVE  RoutesInv'
    BY <1>8 DEF RoutesInv, TypeOK, LocksInv, UpdateSteps, StoreConfig, Goto,
       settings, managed
  <1>9. ASSUME NEW w \in Writers, StoreTrusted(w)
        PROVE  RoutesInv'
    BY <1>9 DEF RoutesInv, TypeOK, LocksInv, UpdateSteps, StoreTrusted,
       FinishConfig, Goto, settings, managed
  <1>10. ASSUME NEW w \in Writers, ClearTrackers(w)
        PROVE  RoutesInv'
    BY <1>10 DEF RoutesInv, TypeOK, LocksInv, UpdateSteps, ClearTrackers, Goto,
       settings, managed
  <1>11. ASSUME NEW w \in Writers, Rebuild(w)
        PROVE  RoutesInv'
    <2>1. registry \in Routes /\ patch[w].to.cb \in CbConfigs
      BY <1>11 DEF TypeOK, SettingsInv, Progress, ConfigSteps, Configs, Rebuild, Goto
    <2>2. from_definitions_with_stats(w, registry, patch[w].to.cb)
      BY <1>11 DEF Rebuild
    <2>3. /\ built' = [built EXCEPT ![w] = built'[w]]
          /\ built'[w].routes = registry /\ built'[w].cb = patch[w].to.cb
      BY <2>1, <2>2, BuildFacts
    <2> QED
      BY <1>11, <2>3 DEF RoutesInv, TypeOK, LocksInv, UpdateSteps, Rebuild, Goto
  <1>12. ASSUME NEW w \in Writers, Reswap(w)
        PROVE  RoutesInv'
    BY <1>12 DEF RoutesInv, TypeOK, LocksInv, UpdateSteps, Reswap,
       FinishConfig, Goto, settings, managed
  <1>13. ASSUME NEW tr \in Trackers, Hold(tr) \/ Drop(tr)
        PROVE  RoutesInv'
    BY <1>13 DEF RoutesInv, TypeOK, LocksInv, UpdateSteps, Hold, Drop,
       settings, managed
  <1> QED
    BY <1>1, <1>2, <1>3, <1>4, <1>5, <1>6, <1>7, <1>8, <1>9, <1>10, <1>11,
       <1>12, <1>13, NextCases

(***************************************************************************)
(* What is derived from the configuration follows it, in the order of the   *)
(* handler.                                                                 *)
(***************************************************************************)
LEMMA SettingsStep ==
    ASSUME Inv, [Next]_vars
    PROVE  SettingsInv'
  <1> USE ManagedAssumption DEF Inv
  <1>1. CASE UNCHANGED vars
    BY <1>1 DEF SettingsInv, Progress, Agreed, TypeOK, LocksInv, UpdateSteps,
       ConfigSteps, vars, settings, managed
  <1>2. ASSUME NEW w \in Writers, StartUpdate(w)
        PROVE  SettingsInv'
    BY <1>2 DEF SettingsInv, Progress, Agreed, TypeOK, LocksInv, UpdateSteps,
       ConfigSteps, StartUpdate, Begin, Goto, settings, managed
  <1>3. ASSUME NEW w \in Writers, Build(w)
        PROVE  SettingsInv'
    BY <1>3 DEF SettingsInv, Progress, Agreed, TypeOK, LocksInv, UpdateSteps,
       ConfigSteps, Build, Goto, settings, managed
  <1>4. ASSUME NEW w \in Writers, Store(w)
        PROVE  SettingsInv'
    BY <1>4 DEF SettingsInv, Progress, Agreed, TypeOK, LocksInv, UpdateSteps,
       ConfigSteps, Store, Goto, settings, managed
  <1>5. ASSUME NEW w \in Writers, Swap(w)
        PROVE  SettingsInv'
    BY <1>5 DEF SettingsInv, Progress, Agreed, TypeOK, LocksInv, UpdateSteps,
       ConfigSteps, Swap, Goto, settings, managed
  <1>6. ASSUME NEW w \in Writers, StartConfig(w)
        PROVE  SettingsInv'
    <2>1. PICK to \in Configs, names \in SUBSET Fields :
             BeginConfig(w, to, names) /\ \A f \in Fields \ names : to[f] = config[f]
      BY <1>6 DEF StartConfig
    <2>2. config.cb \in CbConfigs
      BY DEF TypeOK, Configs
    <2> QED
      BY <2>1, <2>2 DEF SettingsInv, Progress, Agreed, TypeOK, LocksInv, ConfigSteps,
         BeginConfig, Goto, managed
  <1>7. ASSUME NEW w \in Writers, SetDnsTtl(w)
        PROVE  SettingsInv'
    BY <1>7 DEF SettingsInv, Progress, Agreed, TypeOK, LocksInv, UpdateSteps,
       ConfigSteps, SetDnsTtl, Goto, settings, managed
  <1>8. ASSUME NEW w \in Writers, StoreConfig(w)
        PROVE  SettingsInv'
    <2>1. "trusted" \notin patch[w].names => patch[w].to.trusted = config.trusted
      BY <1>8 DEF StoreConfig, Goto, SettingsInv, Progress, Fields
    <2> QED
      BY <1>8, <2>1 DEF SettingsInv, Progress, TypeOK, LocksInv, ConfigSteps, StoreConfig, Goto,
         managed
  <1>9. ASSUME NEW w \in Writers, StoreTrusted(w)
        PROVE  SettingsInv'
    BY <1>9 DEF SettingsInv, Progress, Agreed, TypeOK, LocksInv, UpdateSteps,
       ConfigSteps, StoreTrusted, FinishConfig, Goto, settings, managed
  <1>10. ASSUME NEW w \in Writers, ClearTrackers(w)
        PROVE  SettingsInv'
    BY <1>10 DEF SettingsInv, Progress, Agreed, TypeOK, LocksInv, UpdateSteps,
       ConfigSteps, ClearTrackers, Goto, settings, managed
  <1>11. ASSUME NEW w \in Writers, Rebuild(w)
        PROVE  SettingsInv'
    <2>1. \A v \in Writers : pc[v] # "reswap"
      BY <1>11 DEF Rebuild, Goto, LocksInv, UpdateSteps
    <2>2. table.cb = patch[w].old_cb
      BY <1>11, <2>1 DEF Rebuild, Goto, RoutesInv, SettingsInv, Progress
    <2> QED
      BY <1>11, <2>2 DEF SettingsInv, Progress, TypeOK, LocksInv, ConfigSteps, Rebuild, Goto,
         settings
  <1>12. ASSUME NEW w \in Writers, Reswap(w)
        PROVE  SettingsInv'
    BY <1>12 DEF SettingsInv, Progress, Agreed, TypeOK, LocksInv, UpdateSteps,
       ConfigSteps, Reswap, FinishConfig, Goto, settings, managed
  <1>13. ASSUME NEW tr \in Trackers, Hold(tr) \/ Drop(tr)
        PROVE  SettingsInv'
    BY <1>13 DEF SettingsInv, Progress, Agreed, TypeOK, LocksInv, UpdateSteps,
       ConfigSteps, Hold, Drop, settings, managed
  <1> QED
    BY <1>1, <1>2, <1>3, <1>4, <1>5, <1>6, <1>7, <1>8, <1>9, <1>10, <1>11,
       <1>12, <1>13, NextCases

(***************************************************************************)
(* Trackers in use keep their entry of the map and their settings.          *)
(***************************************************************************)
LEMMA TrackersStep ==
    ASSUME Inv, [Next]_vars
    PROVE  TrackersInv'
  <1> USE ManagedAssumption DEF Inv
  <1>1. CASE UNCHANGED vars
    BY <1>1 DEF TrackersInv, TypeOK, LocksInv, UpdateSteps, vars, settings,
       managed
  <1>2. ASSUME NEW w \in Writers, StartUpdate(w)
        PROVE  TrackersInv'
    BY <1>2 DEF TrackersInv, TypeOK, LocksInv, UpdateSteps, StartUpdate, Begin,
       Goto, settings, managed
  <1>3. ASSUME NEW w \in Writers, Build(w)
        PROVE  TrackersInv'
    <2>1. draft[w] \in Routes /\ cb_config \in CbConfigs
      BY DEF TypeOK
    <2>2. from_definitions_with_stats(w, draft[w], cb_config)
      BY <1>3 DEF Build
    <2> QED
      BY <1>3, <2>1, <2>2, BuildFacts
         DEF TrackersInv, TypeOK, LocksInv, UpdateSteps, Build, Goto, Live, Upgradable
  <1>4. ASSUME NEW w \in Writers, Store(w)
        PROVE  TrackersInv'
    BY <1>4 DEF TrackersInv, TypeOK, LocksInv, UpdateSteps, Store, Goto,
       settings, managed
  <1>5. ASSUME NEW w \in Writers, Swap(w)
        PROVE  TrackersInv'
    <2>1. built' = [built EXCEPT ![w] = NoTable] /\ \A u \in Urls : built'[w].targets[u] = None
      BY <1>5 DEF Swap, NoTable, NoTargets, TypeOK
    <2>2. built[w].cb = cb_config
      BY <1>5 DEF Swap, Goto, RoutesInv
    <2> QED
      BY <1>5, <2>1, <2>2 DEF TrackersInv, TypeOK, LocksInv, UpdateSteps, Swap, Goto
  <1>6. ASSUME NEW w \in Writers, StartConfig(w)
        PROVE  TrackersInv'
    BY <1>6 DEF TrackersInv, TypeOK, LocksInv, UpdateSteps, StartConfig,
       BeginConfig, Goto, settings, managed
  <1>7. ASSUME NEW w \in Writers, SetDnsTtl(w)
        PROVE  TrackersInv'
    BY <1>7 DEF TrackersInv, TypeOK, LocksInv, UpdateSteps, SetDnsTtl, Goto,
       settings, managed
  <1>8. ASSUME NEW w \in Writers, StoreConfig(w)
        PROVE  TrackersInv'
    BY <1>8 DEF TrackersInv, TypeOK, LocksInv, UpdateSteps, StoreConfig, Goto,
       settings, managed
  <1>9. ASSUME NEW w \in Writers, StoreTrusted(w)
        PROVE  TrackersInv'
    BY <1>9 DEF TrackersInv, TypeOK, LocksInv, UpdateSteps, StoreTrusted,
       FinishConfig, Goto, settings, managed
  <1>10. ASSUME NEW w \in Writers, ClearTrackers(w)
        PROVE  TrackersInv'
    <2>1. \A u \in Urls : trackers'[u] = None
      BY <1>10 DEF ClearTrackers, NoTargets
    <2>2. \A v \in Writers : pc[v] \notin UpdateSteps
      BY <1>10 DEF ClearTrackers, LocksInv
    <2> QED
      BY <1>10, <2>1, <2>2 DEF TrackersInv, TypeOK, UpdateSteps, ClearTrackers, Goto
  <1>11. ASSUME NEW w \in Writers, Rebuild(w)
        PROVE  TrackersInv'
    <2>1. registry \in Routes /\ patch[w].to.cb \in CbConfigs
      BY <1>11 DEF TypeOK, SettingsInv, Progress, ConfigSteps, Configs, Rebuild, Goto
    <2>2. from_definitions_with_stats(w, registry, patch[w].to.cb)
      BY <1>11 DEF Rebuild
    <2>3. \A u \in Urls : trackers[u] = None
      BY <1>11 DEF TrackersInv, Rebuild, Goto, NoTargets
    <2>4. \A v \in Writers : v # w => \A u \in Urls : built[v].targets[u] = None
      BY <1>11 DEF TrackersInv, LocksInv, UpdateSteps, Rebuild, Goto
    <2>5. \A u \in Urls : table.targets[u] # None =>
             Live(table.targets[u]) /\ table.targets[u] \in Trackers
      BY DEF Live, TypeOK, Tables
    <2>6. \A u \in Urls : table.targets[u] # None => made_with'[table.targets[u]] = table.cb
      BY <2>1, <2>2, <2>5, BuildFacts DEF TrackersInv
    <2>7. \A u \in Urls : trackers'[u] # None => made_with'[trackers'[u]] = patch[w].to.cb
      BY <2>1, <2>2, <2>3, BuildFacts
    <2>8. /\ built' = [built EXCEPT ![w] = built'[w]]
          /\ \A u \in Urls : built'[w].targets[u] \in {None, trackers'[u]}
      BY <2>1, <2>2, BuildFacts
    <2> QED
      BY <1>11, <2>4, <2>6, <2>7, <2>8
         DEF TrackersInv, TypeOK, LocksInv, UpdateSteps, Rebuild, Goto
  <1>12. ASSUME NEW w \in Writers, Reswap(w)
        PROVE  TrackersInv'
    <2>1. built' = [built EXCEPT ![w] = NoTable] /\ \A u \in Urls : built'[w].targets[u] = None
      BY <1>12 DEF Reswap, NoTable, NoTargets, TypeOK
    <2>2. built[w].cb = cb_config
      BY <1>12 DEF Reswap, Goto, RoutesInv
    <2> QED
      BY <1>12, <2>1, <2>2 DEF TrackersInv, TypeOK, LocksInv, UpdateSteps, Reswap, Goto
  <1>13. ASSUME NEW tr \in Trackers, Hold(tr) \/ Drop(tr)
        PROVE  TrackersInv'
    BY <1>13 DEF TrackersInv, TypeOK, LocksInv, UpdateSteps, Hold, Drop,
       settings, managed
  <1> QED
    BY <1>1, <1>2, <1>3, <1>4, <1>5, <1>6, <1>7, <1>8, <1>9, <1>10, <1>11,
       <1>12, <1>13, NextCases

(***************************************************************************)
(* The state main leaves behind satisfies the invariant.                   *)
(***************************************************************************)
LEMMA InitInv == Init => Inv
  <1> USE ManagedAssumption
  <1> SUFFICES ASSUME Init PROVE Inv
    OBVIOUS
  <1>1. /\ startup.cb \in CbConfigs /\ startup.dns \in Ttls /\ startup.trusted \in Cidrs
        /\ startup \in Configs
    BY DEF Init, Configs
  <1>2. table \in Tables /\ table.cb = startup.cb /\ table.targets = NoTargets
        /\ table.routes = NoRoutes
    BY <1>1, EmptyTypes DEF Init, NoTable, Tables
  <1>3. TypeOK
    BY <1>1, <1>2, EmptyTypes DEF Init, TypeOK, Steps, NoPatch
  <1>4. LocksInv
    BY DEF Init, LocksInv, UpdateSteps, ConfigSteps
  <1>5. RoutesInv
    BY <1>2 DEF Init, RoutesInv
  <1>6. SettingsInv
    BY DEF Init, SettingsInv, Agreed, Progress, ConfigSteps
  <1>7. TrackersInv
    BY <1>2 DEF Init, TrackersInv, NoTargets, NoTable
  <1> QED
    BY <1>3, <1>4, <1>5, <1>6, <1>7 DEF Inv

(***************************************************************************)
(* The inductive invariant holds in every reachable state.                 *)
(***************************************************************************)
THEOREM Invariance == Spec => []Inv
  <1>1. Inv /\ [Next]_vars => Inv'
    BY TypeStep, LocksStep, RoutesStep, SettingsStep, TrackersStep DEF Inv
  <1> QED
    BY InitInv, <1>1, PTL DEF Spec

(***************************************************************************)
(* Every variable of the control plane stays in its range.                 *)
(***************************************************************************)
THEOREM TypeCorrect == Spec => []TypeOK
  <1>1. Inv => TypeOK
    BY DEF Inv
  <1> QED
    BY Invariance, <1>1, PTL

(***************************************************************************)
(* While update_lock is free the table in force is the one rebuild_and_swap*)
(* or reconfigure_circuit_breaker built from the registry as it stands.    *)
(***************************************************************************)
THEOREM TableFollowsRegistry == Spec => []TableIsCurrent
  <1>1. Inv => TableIsCurrent
    BY ManagedAssumption DEF Inv, LocksInv, RoutesInv, UpdateSteps, TableIsCurrent
  <1> QED
    BY Invariance, <1>1, PTL

(***************************************************************************)
(* Once the configuration handlers are done, the DNS TTL, the trusted      *)
(* ranges and the breaker settings are those of the configuration.         *)
(***************************************************************************)
THEOREM SettingsCatchUp == Spec => []SettingsInForce
  <1>1. Inv => SettingsInForce
    BY DEF Inv, SettingsInv, Agreed, SettingsInForce
  <1> QED
    BY Invariance, <1>1, PTL

(***************************************************************************)
(* No target of the table in force has a breaker with old settings, however*)
(* rebuilds, reconfigurations and requests interleave.                     *)
(***************************************************************************)
THEOREM NoStaleBreaker == Spec => []BreakersUseSettings
  <1>1. Inv => BreakersUseSettings
    BY DEF Inv, TrackersInv, BreakersUseSettings
  <1> QED
    BY Invariance, <1>1, PTL

(***************************************************************************)
(* A swap of the table that keeps the settings keeps the breakers.         *)
(***************************************************************************)
THEOREM RebuildsKeepBreakers == Spec => BreakersSurviveRebuilds
  <1> DEFINE Kept == table'.cb = table.cb =>
                 \A u \in Urls : table.targets[u] # None /\ table'.targets[u] # None
                                    => table'.targets[u] = table.targets[u]
  <1>1. Inv /\ [Next]_vars => [Kept]_vars
    <2> SUFFICES ASSUME Inv, [Next]_vars PROVE Kept
      OBVIOUS
    <2> USE ManagedAssumption DEF Inv
    <2>1. CASE UNCHANGED table
      BY <2>1
    <2>2. ASSUME NEW w \in Writers, Swap(w)
          PROVE  Kept
      BY <2>2 DEF Swap, Goto, TrackersInv, LocksInv, UpdateSteps
    <2>3. ASSUME NEW w \in Writers, Reswap(w)
          PROVE  Kept
      BY <2>3 DEF Reswap, Goto, RoutesInv, SettingsInv, Progress
    <2> QED
      BY <2>1, <2>2, <2>3, NextCases
         DEF vars, managed, StartUpdate, Begin, Build, Store, StartConfig, BeginConfig,
             SetDnsTtl, StoreConfig, StoreTrusted, ClearTrackers, Rebuild, Hold, Drop
  <1> QED
    BY Invariance, <1>1, PTL DEF Spec, BreakersSurviveRebuilds

(***************************************************************************)
(* CONFIG_UPDATE_LOCK makes the read, the merge and the store of a         *)
(* configuration one step: no update is lost to another one.               *)
(***************************************************************************)
THEOREM NoLostSetting == Spec => UpdatesAreMerged
  <1> DEFINE Merged == config' # config =>
                 \E w \in Admins : /\ pc[w] = "config"
                                   /\ \A f \in Fields \ patch[w].names :
                                         config'[f] = config[f]
  <1>1. Inv /\ [Next]_vars => [Merged]_vars
    <2> SUFFICES ASSUME Inv, [Next]_vars PROVE Merged
      OBVIOUS
    <2> USE ManagedAssumption DEF Inv
    <2>1. CASE UNCHANGED config
      BY <2>1
    <2>2. ASSUME NEW w \in Writers, StoreConfig(w)
          PROVE  Merged
      <3>1. w \in Admins
        BY <2>2 DEF StoreConfig, Goto, LocksInv, ConfigSteps, TypeOK
      <3> QED
        BY <2>2, <3>1 DEF StoreConfig, Goto, SettingsInv, Progress
    <2> QED
      BY <2>1, <2>2, NextCases
         DEF vars, settings, StartUpdate, Begin, Build, Store, Swap, StartConfig, BeginConfig,
             SetDnsTtl, StoreTrusted, ClearTrackers, Rebuild, Reswap, Hold, Drop
  <1> QED
    BY Invariance, <1>1, PTL DEF Spec, UpdatesAreMerged

(***************************************************************************)
(* The control plane implements RouteSources: each swap of the table is    *)
(* one update of one source, or one change of the breaker settings, and    *)
(* every other step leaves the traffic's view alone.                       *)
(***************************************************************************)
THEOREM Refinement == Spec => ImplementsRouteSources
  <1>1. Init => Promise!Init
    BY DEF Init, Promise!Init, Promise!NoRoutes, Promise!Sources, NoTable, NoRoutes,
           Sources, Configs
  <1>2. Inv /\ [Next]_vars => [Promise!Next]_<<table.routes, table.cb>>
    <2> SUFFICES ASSUME Inv, [Next]_vars
                 PROVE  [Promise!Next]_<<table.routes, table.cb>>
      OBVIOUS
    <2> USE ManagedAssumption DEF Inv
    <2>1. CASE UNCHANGED table
      BY <2>1
    <2>2. ASSUME NEW w \in Writers, Swap(w)
          PROVE  Promise!Next
      <3>1. /\ table'.routes = registry /\ OneUpdate(table.routes, table'.routes)
            /\ table'.cb = table.cb
        BY <2>2 DEF Swap, Goto, RoutesInv, LocksInv, UpdateSteps
      <3> QED
        BY <3>1 DEF OneUpdate, Promise!Next, Promise!UpdateKv, Promise!UpdateServices,
                    Promise!AppendStatic, Promise!ClearStatic, Promise!Replace
    <2>3. ASSUME NEW w \in Writers, Reswap(w)
          PROVE  Promise!Next
      <3>1. table'.routes = table.routes
        BY <2>3 DEF Reswap, Goto, RoutesInv, LocksInv, UpdateSteps
      <3>2. table'.cb \in CbConfigs
        BY <2>3 DEF Reswap, Goto, RoutesInv, TypeOK
      <3> QED
        BY <3>1, <3>2 DEF Promise!Next, Promise!SetBreaker
    <2> QED
      BY <2>1, <2>2, <2>3, NextCases
         DEF vars, managed, StartUpdate, Begin, Build, Store, StartConfig, BeginConfig,
             SetDnsTtl, StoreConfig, StoreTrusted, ClearTrackers, Rebuild, Hold, Drop
  <1> QED
    BY Invariance, <1>1, <1>2, PTL DEF Spec, ImplementsRouteSources, Promise!Spec

----------------------------------------------------------------------------
(***************************************************************************)
(* The Consul watchers: the inductive invariant.  What the catalog has     *)
(* answered in a round was held since the checks were read, and as long as *)
(* no lookup has failed each service that passes is answered or still to be*)
(* asked; an update under way has the routes of those answers.             *)
(***************************************************************************)
(* What may be sent to route_update_handler. *)
Names == {c.name : c \in UNION {Checks[w] : w \in Worlds}}
Idents == {Named(c) : c \in UNION {Checks[w] : w \in Worlds}}
EveryRoute == UNION {RoutesOf(i) : i \in UNION {Registered(w) : w \in Worlds}}
KvContents == SUBSET UNION {KvPairs[k] : k \in KvStates}
Lists == UNION {[1 .. Cardinality(R) -> EveryRoute] : R \in SUBSET EveryRoute}

Messages ==
    [kind : {"none", "error"}] \cup [kind : {"services"}, defs : Lists]
        \cup [kind : {"manual"}, content : KvContents]

MonitorRecord ==
    [pc : {"off", "query", "catalog", "send", "sleep", "poll"}, last_index : Nat, backoff : 1 .. MaxBackoff,
     msg : Messages, pending : BOOLEAN, snapshot : Worlds, new_index : Nat, todo : SUBSET Names, passing : SUBSET Idents,
     catalog : SUBSET [service : Names, world : Worlds], failed : BOOLEAN, since : SUBSET Worlds, source : Nat,
     lagged : BOOLEAN]

KvWatcherRecord ==
    [pc : {"off", "query", "send", "sleep", "poll"}, last_index : Nat, backoff : 1 .. MaxBackoff,
     msg : Messages, source : Nat]

(* What a server may have of the services, or of the keys. *)
Versions(w) == [data : IF w = "services" THEN Worlds ELSE KvStates, index : Nat, change : Nat]

(* The types. *)
WatchStateInv ==
    /\ world \in Worlds /\ kv \in KvStates /\ indexed \in BOOLEAN
    /\ index \in [Watchers -> Nat] /\ changes \in [Watchers -> Nat]
    /\ DOMAIN behind = Watchers /\ \A w \in Watchers : behind[w] \subseteq Versions(w)
    /\ enabled \subseteq Watchers
    /\ mon \in MonitorRecord /\ kvw \in KvWatcherRecord
    /\ channel \in Seq(Messages) /\ Len(channel) <= ChannelSize
    /\ instant \in [Watchers -> Nat]

AskedFor(m) == {e.service : e \in m.catalog}
Passing(m) == {i.name : i \in passing_services(Checks[m.snapshot])}
Publishes(m) == m.pc = "send" /\ m.msg.kind = "services"

(* A round of the service monitor, from the checks to the update; the      *)
(* servers have the catalogs in S.                                         *)
RoundInv(m, S) ==
    /\ m.since # {} <=> m.pending \/ m.pc = "catalog" \/ Publishes(m)
    /\ m.pc = "send" => m.msg.kind \in {"error", "services"}
    /\ m.pending => m.pc \in {"query", "send", "sleep"} /\ ~Publishes(m)
    /\ m.since # {} => S \subseteq m.since
    /\ m.pc = "catalog" => m.passing = passing_services(Checks[m.snapshot])
    /\ m.pc = "catalog" \/ Publishes(m) => \A e \in m.catalog : e.world \in m.since
    /\ m.pc = "catalog" => m.failed \/ Passing(m) \subseteq m.todo \cup AskedFor(m)
    /\ Publishes(m) =>
        /\ Passing(m) \subseteq AskedFor(m)
        /\ Range(m.msg.defs) = KnownRoutes(passing_services(Checks[m.snapshot]), m.catalog)

(* A watcher that is about to query without an index has paused, or has    *)
(* queried with one.                                                       *)
PaceInv ==
    /\ \A w \in Watchers : instant[w] <= 1
    /\ mon.pc = "query" /\ ~mon.pending /\ mon.last_index = 0 => instant["services"] = 0
    /\ mon.pc = "catalog" /\ mon.new_index = 0 => instant["services"] = 0
    /\ Publishes(mon) /\ mon.last_index = 0 => instant["services"] = 0
    /\ mon.pc = "query" /\ mon.pending => instant["services"] = 0
    /\ kvw.pc = "query" /\ kvw.last_index = 0 => instant["kv"] = 0
    /\ kvw.pc = "send" => kvw.msg.kind \in {"error", "manual"}
    /\ kvw.pc = "send" /\ kvw.msg.kind = "manual" /\ kvw.last_index = 0 => instant["kv"] = 0

WatchInv == WatchStateInv /\ RoundInv(mon, HeldData("services")) /\ PaceInv

----------------------------------------------------------------------------
(* What the checks say. *)

\* The assumptions on the constants that the proofs use.
LEMMA WatchConstants ==
  /\ MaxBackoff \in Nat /\ MaxBackoff # 0 /\ ChannelSize \in Nat /\ ChannelSize # 0
  /\ FirstWorlds \subseteq Worlds /\ FirstKv \subseteq KvStates
  /\ \A w \in Worlds : \A c \in Checks[w] : c.tagged \in BOOLEAN
  /\ \A w \in Worlds : \A s \in DOMAIN Catalog[w] : \A i \in Catalog[w][s] : i.name = s
  BY ConsulAssumption, Zenon

\* The name of an instance is that of its checks.
LEMMA NamedByChecks ==
  ASSUME NEW c
  PROVE  /\ Named(InstanceOf(c)) = Named(c) /\ Named(c).name = c.name
         /\ (Wanted(InstanceOf(c)) <=> Wanted(c))
  BY DEF Named, InstanceOf, Wanted

\* What passes are the names of the instances that are well and wanted.
LEMMA PassingIsWell ==
  ASSUME NEW checks, \A c \in checks : c.tagged \in BOOLEAN, NEW n
  PROVE  n \in passing_services(checks) <=>
            \E c \in checks : is_service_check(c) /\ n = Named(c) /\ Well(checks, InstanceOf(c)) /\ Wanted(c)
<1> DEFINE R == relevant_checks(checks)
           own(i) == {c \in R : is_service_check(c) /\ InstanceOf(c) = i}
           good(c) == c.status = "passing" \/ (IncludeWarning /\ c.status = "warning")
           Sound(i) == /\ own(i) # {}
                       /\ ~ \E c \in R : c.kind = "serf" /\ c.status = "critical" /\ c.node = i.node
                       /\ ~ \E c \in R : c.kind = "node_maintenance" /\ c.node = i.node
                       /\ ~ \E c \in R : c.kind = "service_maintenance" /\ c.status = "critical"
                                          /\ c.node = i.node /\ c.sid = i.sid
                       /\ \A c \in own(i) : good(c)
<1>1. n \in passing_service_ids(R) <=> \E c \in R : is_service_check(c) /\ n = Named(InstanceOf(c)) /\ Sound(InstanceOf(c))
  BY DEF passing_service_ids, Critical
<1>2. R \subseteq checks /\ \A c \in checks : c \in R <=> c.kind # "service" \/ c.tagged
  BY DEF relevant_checks
<1>3. ASSUME NEW i PROVE Sound(i) <=> Well(checks, i)
  <2>1. \A c \in checks : c \in own(i) <=> i.sid # "" /\ c.kind = "service" /\ c.tagged /\ InstanceOf(c) = i
    <3> SUFFICES ASSUME NEW c \in checks
                 PROVE  c \in own(i) <=> i.sid # "" /\ c.kind = "service" /\ c.tagged /\ InstanceOf(c) = i
      OBVIOUS
    <3>1. c \in own(i) <=> c \in R /\ c.sid # "" /\ c.kind = "service" /\ InstanceOf(c) = i
      BY DEF is_service_check
    <3>2. InstanceOf(c) = i => c.sid = i.sid
      BY DEF InstanceOf
    <3> HIDE DEF own, R
    <3> QED
      BY <1>2, <3>1, <3>2
  <2>2. own(i) \subseteq checks
    BY <1>2
  <2>3. \A c : good(c) <=> c.status \in {"passing"} \cup IF IncludeWarning THEN {"warning"} ELSE {}
    OBVIOUS
  <2> HIDE DEF R, own, good
  <2>4. ASSUME Sound(i) PROVE Well(checks, i)
    BY <1>2, <2>1, <2>2, <2>3, <2>4 DEF Well
  <2>5. ASSUME Well(checks, i) PROVE Sound(i)
    BY <1>2, <2>1, <2>2, <2>3, <2>5 DEF Well
  <2> QED
    BY <2>4, <2>5
<1>4. n \in passing_services(checks) <=> n \in passing_service_ids(R) /\ Wanted(n)
  BY DEF passing_services, filter_services, Wanted
<1> HIDE DEF R, own, good, Sound
<1>5. ASSUME n \in passing_services(checks)
      PROVE  \E c \in checks : is_service_check(c) /\ n = Named(c) /\ Well(checks, InstanceOf(c)) /\ Wanted(c)
  <2>1. PICK c \in R : is_service_check(c) /\ n = Named(InstanceOf(c)) /\ Sound(InstanceOf(c))
    BY <1>1, <1>4, <1>5
  <2>2. n = Named(c) /\ n.name = c.name
    BY <2>1, NamedByChecks
  <2>3. Wanted(c)
    BY <1>4, <1>5, <2>2 DEF Wanted
  <2> QED
    BY <1>2, <1>3, <2>1, <2>2, <2>3
<1>6. ASSUME NEW c \in checks, is_service_check(c), n = Named(c), Well(checks, InstanceOf(c)), Wanted(c)
      PROVE  n \in passing_services(checks)
  <2>1. n.name = c.name /\ n = Named(InstanceOf(c))
    BY <1>6, NamedByChecks
  <2>2. Wanted(n)
    BY <1>6, <2>1 DEF Wanted
  <2>3. PICK d \in checks : d.kind = "service" /\ d.tagged /\ InstanceOf(d) = InstanceOf(c)
    BY <1>6 DEF Well
  <2>4. d \in R
    BY <1>2, <2>3
  <2>5. d.sid = c.sid
    BY <2>3 DEF InstanceOf
  <2>6. is_service_check(d)
    BY <1>6, <2>3, <2>5 DEF is_service_check
  <2>7. Sound(InstanceOf(d)) /\ n = Named(InstanceOf(d))
    BY <1>3, <1>6, <2>1, <2>3
  <2> QED
    BY <1>1, <1>4, <2>2, <2>4, <2>6, <2>7
<1> QED
  BY <1>5, <1>6

\* The services that pass are among those that have checks.
LEMMA PassingNames ==
  ASSUME NEW w \in Worlds
  PROVE  /\ passing_services(Checks[w]) \subseteq Idents
         /\ {n.name : n \in passing_services(Checks[w])} \subseteq Names
<1> SUFFICES ASSUME NEW n \in passing_services(Checks[w]) PROVE n \in Idents /\ n.name \in Names
  OBVIOUS
<1>1. PICK c \in Checks[w] : n = Named(c)
  BY WatchConstants, PassingIsWell
<1> QED
  BY <1>1, NamedByChecks DEF Names, Idents

\* What the catalog of a world answers is registered in it.
LEMMA AnswersAreRegistered ==
  ASSUME NEW w \in Worlds, NEW s
  PROVE  Answer(w, s) \subseteq Registered(w)
  BY DEF Answer, Registered

\* An instance registered under its name is in the answer for that name.
LEMMA RegisteredAnswers ==
  ASSUME NEW w \in Worlds, NEW i \in Registered(w)
  PROVE  i \in Answer(w, i.name)
  BY WatchConstants DEF Answer, Registered

\* The routes taken from the answers are routes of registered instances.
LEMMA KnownAreRoutes ==
  ASSUME NEW passing, NEW catalog, \A e \in catalog : e.world \in Worlds
  PROVE  KnownRoutes(passing, catalog) \subseteq EveryRoute
<1> SUFFICES ASSUME NEW d \in KnownRoutes(passing, catalog) PROVE d \in EveryRoute
  OBVIOUS
<1>1. PICK e \in catalog : \E i \in Answer(e.world, e.service) : d \in RoutesOf(i)
  BY DEF KnownRoutes
<1>2. PICK i \in Answer(e.world, e.service) : d \in RoutesOf(i)
  BY <1>1
<1>3. i \in Registered(e.world)
  BY AnswersAreRegistered
<1> QED
  BY <1>2, <1>3 DEF EveryRoute

----------------------------------------------------------------------------
(* What the servers have. *)

\* What a server may answer is typed.
LEMMA RepliesTyped ==
  ASSUME WatchStateInv, NEW w \in Watchers, NEW v \in Replies(w)
  PROVE  /\ v \in Versions(w) /\ v.index \in Nat /\ v.change \in Nat /\ new_index(v) \in Nat
         /\ v.data \in IF w = "services" THEN Worlds ELSE KvStates
<1>1. index[w] \in Nat /\ changes[w] \in Nat
  BY DEF WatchStateInv
<1>2. Latest(w) \in Versions(w)
  BY <1>1 DEF Latest, Versions, WatchStateInv
<1>3. v \in Versions(w)
  BY <1>2 DEF Replies, WatchStateInv
<1>4. v.index \in Nat /\ v.change \in Nat /\ v.data \in IF w = "services" THEN Worlds ELSE KvStates
  BY <1>3 DEF Versions
<1> QED
  BY <1>3, <1>4 DEF new_index

\* The catalogs that servers have are that of the leader and older ones.
LEMMA HeldCatalogs ==
  /\ HeldData("services") = {v.data : v \in behind["services"]} \cup {world}
  /\ HeldData("services")' = {v.data : v \in behind'["services"]} \cup {world'}
<1>1. Latest("services").data = world /\ Latest("services")'.data = world'
  BY DEF Latest
<1>2. Replies("services") = behind["services"] \cup {Latest("services")}
      /\ Replies("services")' = behind'["services"] \cup {Latest("services")'}
  BY DEF Replies
<1>3. HeldData("services") = {v.data : v \in Replies("services")}
      /\ HeldData("services")' = {v.data : v \in Replies("services")'}
  BY DEF HeldData
<1> HIDE DEF Latest, Replies, HeldData
<1> QED
  BY <1>1, <1>2, <1>3

\* They are catalogs.
LEMMA HeldTyped ==
  ASSUME WatchStateInv
  PROVE  HeldData("services") \subseteq Worlds /\ world \in HeldData("services")
<1>1. ASSUME NEW v \in behind["services"] PROVE v.data \in Worlds
  BY <1>1 DEF WatchStateInv, Watchers, Versions
<1> QED
  BY <1>1, HeldCatalogs DEF WatchStateInv

----------------------------------------------------------------------------
(* The service monitor. *)

\* The updates the watchers make are updates.
LEMMA UpdatesTyped ==
  /\ NoUpdate \in Messages /\ [kind |-> "error"] \in Messages
  /\ \A defs \in Lists : [kind |-> "services", defs |-> defs] \in Messages
  /\ \A k \in KvStates : [kind |-> "manual", content |-> combined(k)] \in Messages
<1>1. NoUpdate \in Messages /\ [kind |-> "error"] \in Messages
  BY DEF NoUpdate, Messages
<1>2. ASSUME NEW defs \in Lists PROVE [kind |-> "services", defs |-> defs] \in Messages
  BY DEF Messages
<1>3. ASSUME NEW k \in KvStates PROVE combined(k) \in KvContents
  BY DEF combined, KvContents
<1>4. ASSUME NEW content \in KvContents PROVE [kind |-> "manual", content |-> content] \in Messages
  BY DEF Messages
<1> QED
  BY <1>1, <1>2, <1>3, <1>4

\* The pause doubles up to its cap.
LEMMA PauseInRange ==
  ASSUME NEW b \in 1 .. MaxBackoff
  PROVE  Least(2 * b, MaxBackoff) \in 1 .. MaxBackoff
  BY WatchConstants DEF Least

\* The pause starts at one second.
LEMMA OneSecond == 1 \in 1 .. MaxBackoff
  BY WatchConstants

\* The start of a round, with the checks of some world.
LEMMA ProcessRecord ==
  ASSUME NEW m \in MonitorRecord
  PROVE  LET k == Process(m)
         IN /\ k \in MonitorRecord
            /\ k.pc = "catalog" /\ ~k.pending /\ ~k.failed /\ k.catalog = {}
            /\ k.todo = Passing(m) /\ k.snapshot = m.snapshot /\ k.since = m.since
            /\ k.passing = passing_services(Checks[m.snapshot])
            /\ k.msg = m.msg /\ k.new_index = m.new_index /\ k.last_index = m.last_index
<1>1. m.snapshot \in Worlds
  BY DEF MonitorRecord
<1> DEFINE todo == Passing(m)
           passing == passing_services(Checks[m.snapshot])
           k == [m EXCEPT !.pc = "catalog", !.pending = FALSE, !.failed = FALSE, !.lagged = FALSE,
                          !.catalog = {}, !.passing = passing, !.todo = todo]
<1>2. todo \subseteq Names /\ passing \subseteq Idents
  BY <1>1, PassingNames DEF Passing
<1>3. Process(m) = k
  BY DEF Process, Passing
<1> HIDE DEF todo, passing
<1>4. k \in MonitorRecord
  BY <1>2 DEF MonitorRecord
<1>5. /\ k.pc = "catalog" /\ ~k.pending /\ ~k.failed /\ k.catalog = {}
      /\ k.todo = todo /\ k.snapshot = m.snapshot /\ k.since = m.since /\ k.passing = passing
      /\ k.msg = m.msg /\ k.new_index = m.new_index /\ k.last_index = m.last_index
  BY DEF MonitorRecord
<1> QED
  BY <1>3, <1>4, <1>5 DEF todo, passing

\* A round that starts has everything that passes still to ask.
LEMMA ProcessRound ==
  ASSUME NEW m \in MonitorRecord, NEW S, S \subseteq m.since, m.since # {}
  PROVE  RoundInv(Process(m), S)
<1> DEFINE k == Process(m)
<1>1. k.pc = "catalog" /\ ~k.pending /\ k.catalog = {} /\ k.since = m.since
  BY ProcessRecord
<1>2. k.todo = Passing(m) /\ k.snapshot = m.snapshot /\ k.passing = passing_services(Checks[m.snapshot])
  BY ProcessRecord
<1> HIDE DEF k
<1>3. Passing(k) = Passing(m) /\ k.passing = passing_services(Checks[k.snapshot])
  BY <1>2 DEF Passing
<1> QED
  BY <1>1, <1>2, <1>3 DEF RoundInv, Publishes, k

\* The record a round starts from, when a server answers v.
LEMMA SnapshotRecord ==
  ASSUME WatchStateInv, NEW v \in Replies("services")
  PROVE  LET m == [mon EXCEPT !.snapshot = v.data, !.new_index = new_index(v),
                              !.since = HeldData("services"), !.source = v.change]
         IN m \in MonitorRecord /\ m.since = HeldData("services") /\ m.new_index = new_index(v)
<1>1. v.change \in Nat /\ new_index(v) \in Nat /\ v.data \in Worlds
  BY RepliesTyped DEF Watchers
<1>2. mon \in MonitorRecord /\ HeldData("services") \subseteq Worlds
  BY HeldTyped DEF WatchStateInv
<1> QED
  BY <1>1, <1>2 DEF MonitorRecord

\* The checks come back: nothing new, or a round begins.
LEMMA HealthChecksStep ==
  ASSUME WatchStateInv, RoundInv(mon, HeldData("services")), get_health_checks
  PROVE  mon' \in MonitorRecord /\ RoundInv(mon', HeldData("services"))
<1>1. mon \in MonitorRecord /\ mon.pc = "query" /\ ~mon.pending
  BY DEF WatchStateInv, get_health_checks
<1> PICK v \in Replies("services") :
            mon' = IF new_index(v) = mon.last_index THEN Unchanged(mon)
                   ELSE Process([mon EXCEPT !.snapshot = v.data, !.new_index = new_index(v),
                                            !.since = HeldData("services"), !.source = v.change])
  BY DEF get_health_checks
<1>2. CASE new_index(v) = mon.last_index
  <2>1. mon' = [mon EXCEPT !.pc = IF mon.last_index = 0 THEN "poll" ELSE "query", !.backoff = 1]
    BY <1>2 DEF Unchanged
  <2>2. mon' \in MonitorRecord
    BY <1>1, <2>1, OneSecond DEF MonitorRecord
  <2>3. mon'.pc \in {"poll", "query"} /\ mon'.pending = mon.pending /\ mon'.since = mon.since
    BY <1>1, <2>1 DEF MonitorRecord
  <2> QED
    BY <1>1, <2>2, <2>3 DEF RoundInv, Publishes
<1>3. CASE new_index(v) # mon.last_index
  <2> DEFINE m == [mon EXCEPT !.snapshot = v.data, !.new_index = new_index(v),
                              !.since = HeldData("services"), !.source = v.change]
  <2>1. m \in MonitorRecord /\ m.since = HeldData("services") /\ HeldData("services") # {}
    BY SnapshotRecord, HeldTyped
  <2>2. mon' = Process(m)
    BY <1>3
  <2> HIDE DEF m
  <2> QED
    BY <2>1, <2>2, ProcessRecord, ProcessRound
<1> QED
  BY <1>2, <1>3

\* A failed query of the checks.
LEMMA ChecksFailStep ==
  ASSUME WatchStateInv, RoundInv(mon, HeldData("services")), HealthChecksFail
  PROVE  mon' \in MonitorRecord /\ RoundInv(mon', HeldData("services"))
<1>1. mon \in MonitorRecord /\ mon.pc = "query" /\ ~mon.pending
      /\ mon' = [mon EXCEPT !.pc = "send", !.msg = [kind |-> "error"]]
  BY DEF WatchStateInv, HealthChecksFail, Failed
<1>2. mon' \in MonitorRecord
  BY <1>1, UpdatesTyped DEF MonitorRecord
<1>3. mon'.pc = "send" /\ mon'.pending = mon.pending /\ mon'.since = mon.since /\ mon'.msg = [kind |-> "error"]
  BY <1>1 DEF MonitorRecord
<1>4. mon'.msg.kind = "error"
  BY <1>3
<1> QED
  BY <1>1, <1>2, <1>3, <1>4 DEF RoundInv, Publishes

\* The round that failed begins again.
LEMMA RetryStep ==
  ASSUME WatchStateInv, RoundInv(mon, HeldData("services")), RetryPending
  PROVE  mon' \in MonitorRecord /\ RoundInv(mon', HeldData("services"))
<1>1. mon \in MonitorRecord /\ mon.pending /\ mon' = Process(mon)
  BY DEF WatchStateInv, RetryPending
<1>2. HeldData("services") \subseteq mon.since /\ mon.since # {}
  BY <1>1 DEF RoundInv
<1> QED
  BY <1>1, <1>2, ProcessRecord, ProcessRound

\* A lookup answers.
LEMMA CatalogStep ==
  ASSUME WatchStateInv, RoundInv(mon, HeldData("services")), NEW s, get_catalog_service(s)
  PROVE  mon' \in MonitorRecord /\ RoundInv(mon', HeldData("services"))
<1>1. mon \in MonitorRecord /\ mon.pc = "catalog" /\ s \in mon.todo
  BY DEF WatchStateInv, get_catalog_service
<1>0. PICK v \in Replies("services") :
            mon' = [mon EXCEPT !.todo = @ \ {s}, !.catalog = @ \cup {[service |-> s, world |-> v.data]},
                               !.lagged = @ \/ v.change < mon.source]
  BY DEF get_catalog_service
<1> DEFINE e == [service |-> s, world |-> v.data]
           late == mon.lagged \/ v.change < mon.source
<1>2. mon' = [mon EXCEPT !.todo = @ \ {s}, !.catalog = @ \cup {e}, !.lagged = late] /\ late \in BOOLEAN
  BY <1>0
<1>3. v.data \in Worlds /\ v.data \in HeldData("services")
  BY RepliesTyped DEF Watchers, HeldData
<1>4. e \in [service : Names, world : Worlds] /\ e.service = s /\ e.world = v.data
  BY <1>1, <1>3 DEF MonitorRecord
<1> HIDE DEF e, late
<1>5. mon' \in MonitorRecord
  BY <1>1, <1>2, <1>4 DEF MonitorRecord
<1>6. /\ mon'.pc = "catalog" /\ mon'.pending = mon.pending /\ mon'.since = mon.since
      /\ mon'.failed = mon.failed /\ mon'.snapshot = mon.snapshot /\ mon'.passing = mon.passing
      /\ mon'.todo = mon.todo \ {s} /\ mon'.catalog = mon.catalog \cup {e}
  BY <1>1, <1>2 DEF MonitorRecord
<1>7. Passing(mon') = Passing(mon)
  BY <1>6 DEF Passing
<1>8. AskedFor(mon') = AskedFor(mon) \cup {s}
  BY <1>4, <1>6 DEF AskedFor
<1>9. e.world \in mon.since
  BY <1>1, <1>3, <1>4 DEF RoundInv
<1>10. \A x \in mon'.catalog : x.world \in mon'.since
  <2>1. \A x \in mon.catalog : x.world \in mon.since
    BY <1>1 DEF RoundInv
  <2> QED
    BY <1>6, <1>9, <2>1
<1>11. mon'.failed \/ Passing(mon') \subseteq mon'.todo \cup AskedFor(mon')
  BY <1>1, <1>6, <1>7, <1>8 DEF RoundInv
<1>12. mon'.passing = passing_services(Checks[mon'.snapshot]) /\ ~mon'.pending
  BY <1>1, <1>6 DEF RoundInv
<1>13. HeldData("services") \subseteq mon'.since /\ mon'.since # {}
  BY <1>1, <1>6 DEF RoundInv
<1> QED
  BY <1>5, <1>6, <1>10, <1>11, <1>12, <1>13 DEF RoundInv, Publishes

\* A lookup fails, and with it the round.
LEMMA CatalogFailsStep ==
  ASSUME WatchStateInv, RoundInv(mon, HeldData("services")), NEW s, CatalogFails(s)
  PROVE  mon' \in MonitorRecord /\ RoundInv(mon', HeldData("services"))
<1>1. mon \in MonitorRecord /\ mon.pc = "catalog" /\ s \in mon.todo
      /\ mon' = [mon EXCEPT !.todo = @ \ {s}, !.failed = TRUE]
  BY DEF WatchStateInv, CatalogFails
<1>2. mon' \in MonitorRecord
  BY <1>1 DEF MonitorRecord
<1>3. /\ mon'.pc = "catalog" /\ mon'.pending = mon.pending /\ mon'.since = mon.since
      /\ mon'.failed /\ mon'.catalog = mon.catalog /\ mon'.passing = mon.passing
      /\ mon'.snapshot = mon.snapshot
  BY <1>1 DEF MonitorRecord
<1> QED
  BY <1>1, <1>2, <1>3 DEF RoundInv, Publishes

\* The end of a round: an error that keeps the snapshot, or an update made
\* of all the answers.
LEMMA ProcessChecksStep ==
  ASSUME WatchStateInv, RoundInv(mon, HeldData("services")), process_checks
  PROVE  mon' \in MonitorRecord /\ RoundInv(mon', HeldData("services"))
<1>1. mon \in MonitorRecord /\ mon.pc = "catalog" /\ mon.todo = {}
  BY DEF WatchStateInv, process_checks
<1>2. CASE mon.failed
  <2>1. mon' = [mon EXCEPT !.pc = "send", !.msg = [kind |-> "error"], !.pending = TRUE]
    BY <1>1, <1>2 DEF process_checks, Failed, MonitorRecord
  <2>2. mon' \in MonitorRecord
    BY <1>1, <2>1, UpdatesTyped DEF MonitorRecord
  <2>3. mon'.pc = "send" /\ mon'.pending /\ mon'.since = mon.since /\ mon'.msg = [kind |-> "error"]
    BY <1>1, <2>1 DEF MonitorRecord
  <2>4. mon'.msg.kind = "error"
    BY <2>3
  <2> QED
    BY <1>1, <2>2, <2>3, <2>4 DEF RoundInv, Publishes
<1>3. CASE ~mon.failed
  <2> DEFINE routes == KnownRoutes(mon.passing, mon.catalog)
  <2>1. PICK defs \in route_defs(routes) :
             mon' = [mon EXCEPT !.pc = "send", !.last_index = mon.new_index, !.backoff = 1,
                                !.msg = [kind |-> "services", defs |-> defs]]
    BY <1>3 DEF process_checks, Publish
  <2>2. routes \subseteq EveryRoute
    BY <1>1, KnownAreRoutes DEF MonitorRecord
  <2> HIDE DEF routes
  <2>3. defs \in [1 .. Cardinality(routes) -> routes] /\ Range(defs) = routes
    BY DEF route_defs, InOrder
  <2>4. defs \in Lists
    <3>1. defs \in [1 .. Cardinality(routes) -> EveryRoute]
      BY <2>2, <2>3
    <3>2. routes \in SUBSET EveryRoute
      BY <2>2
    <3> QED
      BY <3>1, <3>2 DEF Lists
  <2> DEFINE u == [kind |-> "services", defs |-> defs]
  <2>5. u \in Messages /\ u.kind = "services" /\ u.defs = defs
    BY <2>4, UpdatesTyped
  <2> HIDE DEF u
  <2>6. mon' = [mon EXCEPT !.pc = "send", !.last_index = mon.new_index, !.backoff = 1, !.msg = u]
    BY <2>1 DEF u
  <2>7. mon' \in MonitorRecord
    BY <1>1, <2>5, <2>6, OneSecond DEF MonitorRecord
  <2>8. mon'.pc = "send" /\ mon'.pending = mon.pending /\ mon'.since = mon.since /\ mon'.msg = u
        /\ mon'.snapshot = mon.snapshot /\ mon'.catalog = mon.catalog
    BY <1>1, <2>6 DEF MonitorRecord
  <2>9. Passing(mon') = Passing(mon) /\ AskedFor(mon') = AskedFor(mon)
    BY <2>8 DEF Passing, AskedFor
  <2>10. Range(mon'.msg.defs) = KnownRoutes(passing_services(Checks[mon'.snapshot]), mon'.catalog)
    BY <1>1, <2>3, <2>5, <2>8 DEF routes, RoundInv
  <2>11. Passing(mon) \subseteq AskedFor(mon) /\ ~mon.pending
    BY <1>1, <1>3 DEF RoundInv
  <2> QED
    BY <1>1, <2>5, <2>7, <2>8, <2>9, <2>10, <2>11 DEF RoundInv, Publishes
<1> QED
  BY <1>2, <1>3

\* The update is on its way, or the error is.
LEMMA SendServicesStep ==
  ASSUME WatchStateInv, RoundInv(mon, HeldData("services")), SendServices
  PROVE  mon' \in MonitorRecord /\ RoundInv(mon', HeldData("services"))
<1> DEFINE next == IF mon.msg.kind = "error" THEN "sleep" ELSE IF Closed THEN "off" ELSE "query"
           since == IF mon.pending THEN mon.since ELSE {}
<1>1. mon \in MonitorRecord /\ mon.pc = "send"
  BY DEF WatchStateInv, SendServices
<1>2. mon' = [mon EXCEPT !.msg = NoUpdate, !.pc = next, !.since = since, !.passing = {}, !.catalog = {}]
  BY <1>1 DEF SendServices, Sent, MonitorRecord
<1>3. next \in {"sleep", "off", "query"} /\ since \subseteq mon.since
  OBVIOUS
<1>4. mon.pending => next = "sleep"
  BY <1>1 DEF RoundInv, Publishes
<1>5. since # {} <=> mon.pending
  BY DEF RoundInv
<1> HIDE DEF next, since
<1>6. mon' \in MonitorRecord
  BY <1>1, <1>2, <1>3, UpdatesTyped DEF MonitorRecord
<1>7. mon'.pc = next /\ mon'.pending = mon.pending /\ mon'.since = since
  BY <1>1, <1>2 DEF MonitorRecord
<1>8. since # {} => HeldData("services") \subseteq since
  BY DEF RoundInv, since
<1> QED
  BY <1>3, <1>4, <1>5, <1>6, <1>7, <1>8 DEF RoundInv, Publishes

\* A pause ends.
LEMMA WakeMonitorStep ==
  ASSUME WatchStateInv, RoundInv(mon, HeldData("services")), mon.pc \in {"sleep", "poll"}, mon' = Awake(mon)
  PROVE  mon' \in MonitorRecord /\ RoundInv(mon', HeldData("services"))
<1> DEFINE wait == IF mon.pc = "sleep" THEN Least(2 * mon.backoff, MaxBackoff) ELSE mon.backoff
<1>1. mon \in MonitorRecord /\ mon' = [mon EXCEPT !.pc = "query", !.backoff = wait]
  BY DEF WatchStateInv, Awake, MonitorRecord
<1>2. wait \in 1 .. MaxBackoff
  BY <1>1, PauseInRange DEF MonitorRecord
<1> HIDE DEF wait
<1>3. mon' \in MonitorRecord
  BY <1>1, <1>2 DEF MonitorRecord
<1>4. mon'.pc = "query" /\ mon'.pending = mon.pending /\ mon'.since = mon.since
  BY <1>1 DEF MonitorRecord
<1> QED
  BY <1>3, <1>4 DEF RoundInv, Publishes

\* The catalog changes in the middle of a round.
LEMMA ChangeStep ==
  ASSUME WatchStateInv, RoundInv(mon, HeldData("services")), NEW w \in Worlds, Change(w)
  PROVE  mon' \in MonitorRecord /\ RoundInv(mon', HeldData("services")')
<1> DEFINE since == IF mon.since = {} THEN {} ELSE mon.since \cup {w}
<1>1. mon \in MonitorRecord /\ mon' = [mon EXCEPT !.since = since]
  BY DEF WatchStateInv, Change, MonitorRecord
<1>2. HeldData("services")' = HeldData("services") \cup {w}
  <2>1. behind'["services"] = Replies("services") /\ world' = w
    BY DEF Change, Changed, WatchStateInv, Watchers
  <2> QED
    BY <2>1, HeldCatalogs DEF HeldData
<1>3. since \subseteq Worlds /\ mon.since \subseteq since /\ (since # {} <=> mon.since # {})
      /\ (since # {} => HeldData("services")' \subseteq since)
  BY <1>1, <1>2 DEF MonitorRecord, RoundInv
<1> HIDE DEF since
<1>4. mon' \in MonitorRecord
  BY <1>1, <1>3 DEF MonitorRecord
<1>5. /\ mon'.pc = mon.pc /\ mon'.pending = mon.pending /\ mon'.since = since /\ mon'.msg = mon.msg
      /\ mon'.catalog = mon.catalog /\ mon'.snapshot = mon.snapshot /\ mon'.failed = mon.failed
      /\ mon'.todo = mon.todo /\ mon'.passing = mon.passing
  BY <1>1 DEF MonitorRecord
<1>6. Passing(mon') = Passing(mon) /\ AskedFor(mon') = AskedFor(mon) /\ (Publishes(mon') <=> Publishes(mon))
  BY <1>5 DEF Passing, AskedFor, Publishes
<1> QED
  BY <1>3, <1>4, <1>5, <1>6 DEF RoundInv

\* The servers' catalogs change only as the leader's does; otherwise they
\* become fewer.
LEMMA HeldStep ==
  ASSUME WatchStateInv, [WatchNext]_watchVars
  PROVE  \/ \E w \in Worlds : Change(w)
         \/ (\E k \in KvStates : ChangeKv(k)) /\ HeldData("services")' = HeldData("services")
         \/ (\E w \in Watchers : CatchUp(w)) /\ HeldData("services")' \subseteq HeldData("services")
         \/ Restart /\ HeldData("services")' \subseteq HeldData("services")
         \/ HeldData("services")' = HeldData("services")
<1> "services" \in Watchers /\ DOMAIN behind = Watchers
  BY DEF WatchStateInv, Watchers
<1>1. ASSUME world' = world, behind'["services"] \subseteq behind["services"]
      PROVE  HeldData("services")' \subseteq HeldData("services")
  BY <1>1, HeldCatalogs
<1>2. ASSUME world' = world, behind'["services"] = behind["services"]
      PROVE  HeldData("services")' = HeldData("services")
  BY <1>2, HeldCatalogs
<1>3. ASSUME NEW k \in KvStates, ChangeKv(k) PROVE world' = world /\ behind'["services"] = behind["services"]
  BY <1>3 DEF ChangeKv, Changed
<1>4. ASSUME NEW w \in Watchers, CatchUp(w) PROVE world' = world /\ behind'["services"] \subseteq behind["services"]
  BY <1>4 DEF CatchUp
<1>5. ASSUME Restart PROVE world' = world /\ behind'["services"] \subseteq behind["services"]
  BY <1>5 DEF Restart
<1>6. \/ (\E w \in Worlds : Change(w)) \/ (\E k \in KvStates : ChangeKv(k))
      \/ (\E w \in Watchers : CatchUp(w)) \/ Restart
      \/ (world' = world /\ behind'["services"] = behind["services"])
  BY DEF WatchNext, watchVars, consul, ToggleHeader, get_health_checks, HealthChecksFail,
         Fail, RetryPending, get_catalog_service, CatalogFails, process_checks, watch_kv, KvFails,
         SendServices, SendManual, Wake, route_update_handler, Shutdown
<1> QED
  BY <1>1, <1>2, <1>3, <1>4, <1>5, <1>6

\* Every step keeps the round.
LEMMA RoundStep ==
  ASSUME WatchStateInv, RoundInv(mon, HeldData("services")), [WatchNext]_watchVars
  PROVE  mon' \in MonitorRecord /\ RoundInv(mon', HeldData("services")')
<1> DEFINE kept == HeldData("services")' = HeldData("services")
<1>1. CASE \E w \in Worlds : Change(w)
  BY <1>1, ChangeStep
<1>2. CASE HeldData("services")' \subseteq HeldData("services") /\ mon' = mon
  BY <1>2 DEF WatchStateInv, RoundInv
<1>3. CASE kept /\ (get_health_checks \/ HealthChecksFail \/ RetryPending \/ process_checks \/ SendServices)
  BY <1>3, HealthChecksStep, ChecksFailStep, RetryStep, ProcessChecksStep, SendServicesStep
<1>4. CASE kept /\ \E s \in mon.todo : get_catalog_service(s) \/ CatalogFails(s)
  BY <1>4, CatalogStep, CatalogFailsStep
<1>5. CASE kept /\ \E w \in Watchers : Wake(w)
  BY <1>5, <1>2, WakeMonitorStep DEF Wake
<1>6. \/ \E w \in Worlds : Change(w)
      \/ mon' = mon
      \/ get_health_checks \/ HealthChecksFail \/ RetryPending \/ process_checks \/ SendServices
      \/ \E s \in mon.todo : get_catalog_service(s) \/ CatalogFails(s)
      \/ \E w \in Watchers : Wake(w)
  BY DEF WatchNext, watchVars, ChangeKv, CatchUp, Restart, ToggleHeader, watch_kv, KvFails,
         SendManual, route_update_handler, Shutdown
<1>7. ((\E k \in KvStates : ChangeKv(k)) \/ (\E w \in Watchers : CatchUp(w)) \/ Restart) => mon' = mon
  BY DEF ChangeKv, CatchUp, Restart
<1>8. \/ \E w \in Worlds : Change(w)
      \/ HeldData("services")' \subseteq HeldData("services") /\ mon' = mon
      \/ kept
  BY <1>7, HeldStep
<1>9. kept => HeldData("services")' \subseteq HeldData("services")
  OBVIOUS
<1> HIDE DEF kept
<1> QED
  BY <1>1, <1>2, <1>3, <1>4, <1>5, <1>6, <1>8, <1>9

----------------------------------------------------------------------------
(* The watcher of keys, and the channel. *)

\* Every step keeps the record of the watcher of keys.
LEMMA KvStep ==
  ASSUME WatchStateInv, [WatchNext]_watchVars
  PROVE  kvw' \in KvWatcherRecord
<1> kvw \in KvWatcherRecord /\ kv \in KvStates
  BY DEF WatchStateInv
<1>1. CASE kvw' = kvw
  BY <1>1
<1>2. CASE watch_kv
  <2> DEFINE next == IF kvw.last_index = 0 THEN "poll" ELSE "query"
  <2> PICK v \in Replies("kv") :
            kvw' = IF new_index(v) = kvw.last_index THEN Unchanged(kvw)
                   ELSE [kvw EXCEPT !.backoff = 1, !.last_index = new_index(v), !.pc = "send", !.source = v.change,
                                    !.msg = [kind |-> "manual", content |-> combined(v.data)]]
    BY <1>2 DEF watch_kv
  <2> DEFINE u == [kind |-> "manual", content |-> combined(v.data)]
  <2>1. new_index(v) \in Nat /\ v.change \in Nat /\ v.data \in KvStates
    BY RepliesTyped DEF Watchers
  <2>2. u \in Messages /\ next \in {"poll", "query"}
    BY <2>1, UpdatesTyped
  <2>3. kvw' \in {[kvw EXCEPT !.backoff = 1, !.pc = next],
                  [kvw EXCEPT !.backoff = 1, !.last_index = new_index(v), !.pc = "send",
                              !.source = v.change, !.msg = u]}
    BY DEF Unchanged, KvWatcherRecord
  <2> HIDE DEF next, u
  <2> QED
    BY <2>1, <2>2, <2>3, OneSecond DEF KvWatcherRecord
<1>3. CASE KvFails
  <2>1. kvw' = [kvw EXCEPT !.pc = "send", !.msg = [kind |-> "error"]]
    BY <1>3 DEF KvFails, Failed
  <2> QED
    BY <2>1, UpdatesTyped DEF KvWatcherRecord
<1>4. CASE SendManual
  <2> DEFINE next == IF kvw.msg.kind = "error" THEN "sleep" ELSE IF Closed THEN "off" ELSE "query"
  <2>1. kvw' = [kvw EXCEPT !.msg = NoUpdate, !.pc = next] /\ next \in {"sleep", "off", "query"}
    BY <1>4 DEF SendManual, Sent
  <2> HIDE DEF next
  <2> QED
    BY <2>1, UpdatesTyped DEF KvWatcherRecord
<1>5. CASE kvw' = Awake(kvw)
  <2> DEFINE wait == IF kvw.pc = "sleep" THEN Least(2 * kvw.backoff, MaxBackoff) ELSE kvw.backoff
  <2>1. kvw' = [kvw EXCEPT !.pc = "query", !.backoff = wait]
    BY <1>5 DEF Awake, KvWatcherRecord
  <2>2. wait \in 1 .. MaxBackoff
    BY PauseInRange DEF KvWatcherRecord
  <2> HIDE DEF wait
  <2> QED
    BY <2>1, <2>2 DEF KvWatcherRecord
<1> QED
  BY <1>1, <1>2, <1>3, <1>4, <1>5
     DEF WatchNext, watchVars, consul, Change, ChangeKv, Changed, CatchUp, Restart, ToggleHeader, get_health_checks,
         HealthChecksFail, RetryPending, get_catalog_service, CatalogFails, process_checks,
         SendServices, Wake, route_update_handler, Shutdown

\* The channel never holds more than it has room for.
LEMMA ChannelStep ==
  ASSUME WatchStateInv, [WatchNext]_watchVars
  PROVE  channel' \in Seq(Messages) /\ Len(channel') <= ChannelSize
<1>1. channel \in Seq(Messages) /\ Len(channel) <= ChannelSize /\ mon.msg \in Messages /\ kvw.msg \in Messages
  BY DEF WatchStateInv, MonitorRecord, KvWatcherRecord
<1>2. ASSUME NEW u \in Messages, Len(channel) < ChannelSize, channel' = Append(channel, u)
      PROVE  channel' \in Seq(Messages) /\ Len(channel') <= ChannelSize
  BY <1>1, <1>2, WatchConstants
<1>3. CASE channel # << >> /\ channel' = Tail(channel)
  <2>1. channel' \in Seq(Messages) /\ Len(channel') = Len(channel) - 1
    BY <1>1, <1>3
  <2> QED
    BY <1>1, <2>1, WatchConstants
<1>4. CASE channel' = << >>
  BY <1>4, WatchConstants
<1>5. CASE channel' = channel
  BY <1>1, <1>5
<1> QED
  BY <1>1, <1>2, <1>3, <1>4, <1>5
     DEF WatchNext, watchVars, consul, Change, ChangeKv, Changed, CatchUp, Restart, ToggleHeader, get_health_checks,
         HealthChecksFail, RetryPending, get_catalog_service, CatalogFails, process_checks, watch_kv,
         KvFails, SendServices, SendManual, Wake, route_update_handler, Shutdown

\* Consul's own data keeps its types, and the counters of queries do.
LEMMA ConsulStep ==
  ASSUME WatchStateInv, [WatchNext]_watchVars
  PROVE  /\ world' \in Worlds /\ kv' \in KvStates /\ indexed' \in BOOLEAN
         /\ index' \in [Watchers -> Nat] /\ changes' \in [Watchers -> Nat]
         /\ DOMAIN behind' = Watchers /\ \A w \in Watchers : behind'[w] \subseteq Versions(w)
         /\ enabled' \subseteq Watchers /\ instant' \in [Watchers -> Nat]
<1>1. world' \in Worlds /\ kv' \in KvStates /\ indexed' \in BOOLEAN /\ enabled' \subseteq Watchers
  BY DEF WatchStateInv, WatchNext, watchVars, consul, Change, ChangeKv, Changed, CatchUp, Restart, ToggleHeader,
         get_health_checks, HealthChecksFail, Fail, RetryPending, get_catalog_service, CatalogFails,
         process_checks, watch_kv, KvFails, SendServices, SendManual, Wake, route_update_handler, Shutdown
<1>2. index' \in [Watchers -> Nat] /\ changes' \in [Watchers -> Nat]
  <2>1. index \in [Watchers -> Nat] /\ changes \in [Watchers -> Nat] /\ "services" \in Watchers /\ "kv" \in Watchers
    BY DEF WatchStateInv, Watchers
  <2>2. ASSUME NEW w \in Watchers,
               changes' = [changes EXCEPT ![w] = @ + 1], index' = [index EXCEPT ![w] = @ + 1]
        PROVE  index' \in [Watchers -> Nat] /\ changes' \in [Watchers -> Nat]
    <3>1. changes[w] + 1 \in Nat /\ index[w] + 1 \in Nat
      BY <2>1
    <3> QED
      BY <2>1, <2>2, <3>1
  <2>3. CASE Restart
    BY <2>1, <2>3 DEF Restart
  <2>4. CASE UNCHANGED <<index, changes>>
    BY <2>1, <2>4
  <2>5. CASE (\E w \in Worlds : Change(w)) \/ \E k \in KvStates : ChangeKv(k)
    BY <2>1, <2>2, <2>5 DEF Change, ChangeKv, Changed
  <2> QED
    BY <2>3, <2>4, <2>5
       DEF WatchNext, watchVars, consul, CatchUp, ToggleHeader,
           get_health_checks, HealthChecksFail, Fail, RetryPending, get_catalog_service, CatalogFails,
           process_checks, watch_kv, KvFails, SendServices, SendManual, Wake, route_update_handler, Shutdown
<1>3. instant' \in [Watchers -> Nat]
  <2>1. instant \in [Watchers -> Nat] /\ "services" \in Watchers /\ "kv" \in Watchers
    BY DEF WatchStateInv, Watchers
  <2>2. ASSUME NEW w \in Watchers, NEW last, Queried(w, last)
        PROVE  instant' \in [Watchers -> Nat]
    <3> DEFINE count == IF last = 0 THEN instant[w] + 1 ELSE 0
    <3>1. instant' = [instant EXCEPT ![w] = count]
      BY <2>2 DEF Queried
    <3>2. count \in Nat
      BY <2>1
    <3> QED
      BY <2>1, <3>1, <3>2
  <2>3. CASE get_health_checks \/ HealthChecksFail \/ watch_kv \/ KvFails
    BY <2>1, <2>2, <2>3 DEF get_health_checks, HealthChecksFail, watch_kv, KvFails
  <2>4. CASE \E w \in Watchers : Wake(w)
    <3>1. PICK w \in Watchers : instant' = [instant EXCEPT ![w] = 0]
      BY <2>4 DEF Wake
    <3> QED
      BY <2>1, <3>1
  <2>5. CASE UNCHANGED instant
    BY <2>1, <2>5
  <2> QED
    BY <2>3, <2>4, <2>5
       DEF WatchNext, watchVars, Change, ChangeKv, Changed, CatchUp, Restart, ToggleHeader, RetryPending,
           get_catalog_service, CatalogFails, process_checks, SendServices, SendManual,
           route_update_handler, Shutdown
<1>4. DOMAIN behind' = Watchers /\ \A w \in Watchers : behind'[w] \subseteq Versions(w)
  <2>1. "services" \in Watchers /\ "kv" \in Watchers /\ DOMAIN behind = Watchers
        /\ \A w \in Watchers : behind[w] \subseteq Versions(w) /\ Replies(w) \subseteq Versions(w)
    BY RepliesTyped DEF WatchStateInv, Watchers
  <2>2. ASSUME NEW w \in Watchers, NEW S, behind' = [behind EXCEPT ![w] = S], S \subseteq Versions(w)
        PROVE  DOMAIN behind' = Watchers /\ \A x \in Watchers : behind'[x] \subseteq Versions(x)
    BY <2>1, <2>2
  <2>3. CASE (\E w \in Worlds : Change(w)) \/ \E k \in KvStates : ChangeKv(k)
    BY <2>1, <2>2, <2>3 DEF Change, ChangeKv, Changed
  <2>4. CASE \E w \in Watchers : CatchUp(w)
    <3>1. PICK w \in Watchers, v \in UNION {behind[x] : x \in Watchers} : behind' = [behind EXCEPT ![w] = @ \ {v}]
      BY <2>4 DEF CatchUp
    <3>2. behind[w] \ {v} \subseteq Versions(w)
      BY <2>1
    <3> QED
      BY <2>2, <3>1, <3>2
  <2>5. CASE Restart
    BY <2>1, <2>5 DEF Restart
  <2>6. CASE UNCHANGED behind
    BY <2>1, <2>6
  <2> QED
    BY <2>3, <2>4, <2>5, <2>6
       DEF WatchNext, watchVars, consul, ToggleHeader,
           get_health_checks, HealthChecksFail, Fail, RetryPending, get_catalog_service, CatalogFails,
           process_checks, watch_kv, KvFails, SendServices, SendManual, Wake, route_update_handler, Shutdown
<1> QED
  BY <1>1, <1>2, <1>3, <1>4

----------------------------------------------------------------------------
(* The pace of the watchers. *)

\* What a query does to the count of queries that could not block.
LEMMA CountStep ==
  ASSUME WatchStateInv, NEW w \in Watchers, NEW last, Queried(w, last)
  PROVE  /\ instant'[w] = IF last = 0 THEN instant[w] + 1 ELSE 0
         /\ \A x \in Watchers : x # w => instant'[x] = instant[x]
  BY DEF WatchStateInv, Queried

\* The pace of the service monitor.
MonitorPace ==
    /\ instant["services"] <= 1
    /\ mon.pc = "query" /\ ~mon.pending /\ mon.last_index = 0 => instant["services"] = 0
    /\ mon.pc = "catalog" /\ mon.new_index = 0 => instant["services"] = 0
    /\ Publishes(mon) /\ mon.last_index = 0 => instant["services"] = 0
    /\ mon.pc = "query" /\ mon.pending => instant["services"] = 0

\* The pace of the watcher of keys.
KvPace ==
    /\ instant["kv"] <= 1
    /\ kvw.pc = "query" /\ kvw.last_index = 0 => instant["kv"] = 0
    /\ kvw.pc = "send" => kvw.msg.kind \in {"error", "manual"}
    /\ kvw.pc = "send" /\ kvw.msg.kind = "manual" /\ kvw.last_index = 0 => instant["kv"] = 0

\* The two are independent.
LEMMA PaceSplits == PaceInv <=> MonitorPace /\ KvPace
  BY DEF PaceInv, MonitorPace, KvPace, Watchers

\* After a query without an index the monitor pauses, or has an index.
LEMMA MonitorPaceStep ==
  ASSUME WatchStateInv, RoundInv(mon, HeldData("services")), MonitorPace, [WatchNext]_watchVars
  PROVE  MonitorPace'
<1> mon \in MonitorRecord /\ instant["services"] \in Nat /\ "services" \in Watchers /\ "kv" \in Watchers
  BY DEF WatchStateInv, Watchers
<1>1. CASE mon' = mon /\ instant'["services"] = instant["services"]
  BY <1>1 DEF MonitorPace, Publishes
<1>2. CASE get_health_checks
  <2>1. mon.pc = "query" /\ ~mon.pending /\ instant'["services"] = IF mon.last_index = 0 THEN instant["services"] + 1 ELSE 0
    BY <1>2, CountStep DEF get_health_checks
  <2>2. instant'["services"] = IF mon.last_index = 0 THEN 1 ELSE 0
    BY <2>1 DEF MonitorPace
  <2> PICK v \in Replies("services") :
            mon' = IF new_index(v) = mon.last_index THEN Unchanged(mon)
                   ELSE Process([mon EXCEPT !.snapshot = v.data, !.new_index = new_index(v),
                                            !.since = HeldData("services"), !.source = v.change])
    BY <1>2 DEF get_health_checks
  <2>3. CASE new_index(v) = mon.last_index
    <3> DEFINE next == IF mon.last_index = 0 THEN "poll" ELSE "query"
    <3>1. mon' = [mon EXCEPT !.pc = next, !.backoff = 1]
      BY <2>3 DEF Unchanged
    <3>2. mon'.pc = next /\ mon'.last_index = mon.last_index
      BY <3>1 DEF MonitorRecord
    <3> QED
      BY <2>2, <3>2 DEF MonitorPace, Publishes
  <2>4. CASE new_index(v) # mon.last_index
    <3> DEFINE m == [mon EXCEPT !.snapshot = v.data, !.new_index = new_index(v),
                                !.since = HeldData("services"), !.source = v.change]
    <3>1. m \in MonitorRecord /\ m.new_index = new_index(v)
      BY SnapshotRecord
    <3>2. mon' = Process(m)
      BY <2>4
    <3> HIDE DEF m
    <3>3. mon'.pc = "catalog" /\ mon'.new_index = new_index(v)
      BY <3>1, <3>2, ProcessRecord
    <3> QED
      BY <2>2, <2>4, <3>3 DEF MonitorPace, Publishes
  <2> QED
    BY <2>3, <2>4
<1>3. CASE HealthChecksFail
  <2>1. mon.pc = "query" /\ ~mon.pending /\ instant'["services"] = IF mon.last_index = 0 THEN instant["services"] + 1 ELSE 0
    BY <1>3, CountStep DEF HealthChecksFail
  <2>2. mon' = [mon EXCEPT !.pc = "send", !.msg = [kind |-> "error"]]
    BY <1>3 DEF HealthChecksFail, Failed
  <2>3. mon'.pc = "send" /\ mon'.msg.kind = "error"
    BY <2>2 DEF MonitorRecord
  <2> QED
    BY <2>1, <2>3 DEF MonitorPace, Publishes
<1>4. CASE RetryPending
  <2>1. mon.pc = "query" /\ mon.pending /\ instant' = instant /\ mon' = Process(mon)
    BY <1>4 DEF RetryPending
  <2>2. mon'.pc = "catalog"
    BY <2>1, ProcessRecord
  <2> QED
    BY <2>1, <2>2 DEF MonitorPace, Publishes
<1>5. ASSUME NEW s, get_catalog_service(s) \/ CatalogFails(s)
      PROVE  MonitorPace'
  <2>1. mon.pc = "catalog" /\ instant' = instant
    BY <1>5 DEF get_catalog_service, CatalogFails
  <2>2. mon'.pc = "catalog" /\ mon'.new_index = mon.new_index
    BY <1>5, <2>1 DEF get_catalog_service, CatalogFails, MonitorRecord
  <2> QED
    BY <2>1, <2>2 DEF MonitorPace, Publishes
<1>6. CASE process_checks
  <2>1. mon.pc = "catalog" /\ instant' = instant
    BY <1>6 DEF process_checks
  <2>2. CASE mon.failed
    <3>1. mon' = [[mon EXCEPT !.pc = "send", !.msg = [kind |-> "error"]] EXCEPT !.pending = TRUE]
      BY <1>6, <2>2 DEF process_checks, Failed
    <3>2. mon'.pc = "send" /\ mon'.msg = [kind |-> "error"]
      BY <3>1 DEF MonitorRecord
    <3>3. mon'.msg.kind = "error"
      BY <3>2
    <3> QED
      BY <2>1, <3>2, <3>3 DEF MonitorPace, Publishes
  <2>3. CASE ~mon.failed
    <3>1. PICK defs : mon' = [mon EXCEPT !.pc = "send", !.last_index = mon.new_index, !.backoff = 1,
                                        !.msg = [kind |-> "services", defs |-> defs]]
      BY <1>6, <2>3 DEF process_checks, Publish
    <3>2. mon'.pc = "send" /\ mon'.last_index = mon.new_index
      BY <3>1 DEF MonitorRecord
    <3> QED
      BY <2>1, <3>2 DEF MonitorPace, Publishes
  <2> QED
    BY <2>2, <2>3
<1>7. CASE SendServices
  <2> DEFINE next == IF mon.msg.kind = "error" THEN "sleep" ELSE IF Closed THEN "off" ELSE "query"
             since == IF mon.pending THEN mon.since ELSE {}
  <2>1. mon.pc = "send" /\ instant' = instant
    BY <1>7 DEF SendServices
  <2>2. mon' = [mon EXCEPT !.msg = NoUpdate, !.pc = next, !.since = since, !.passing = {}, !.catalog = {}]
    BY <1>7 DEF SendServices, Sent, MonitorRecord
  <2>3. next = "query" => Publishes(mon) /\ ~mon.pending
    BY <2>1 DEF RoundInv, Publishes
  <2>4. next \in {"sleep", "off", "query"}
    OBVIOUS
  <2> HIDE DEF next, since
  <2>5. mon'.pc = next /\ mon'.last_index = mon.last_index /\ mon'.pending = mon.pending
    BY <2>2 DEF MonitorRecord
  <2> QED
    BY <2>1, <2>3, <2>4, <2>5 DEF MonitorPace, Publishes
<1>8. CASE \E w \in Watchers : Wake(w)
  <2>1. CASE mon' = Awake(mon) /\ instant' = [instant EXCEPT !["services"] = 0]
    <3>1. instant'["services"] = 0
      BY <2>1 DEF WatchStateInv
    <3>2. mon'.pc = "query"
      BY <2>1 DEF Awake, MonitorRecord
    <3> QED
      BY <3>1, <3>2 DEF MonitorPace, Publishes
  <2>2. CASE mon' = mon /\ instant' = [instant EXCEPT !["kv"] = 0]
    <3>1. instant'["services"] = instant["services"]
      BY <2>2 DEF WatchStateInv
    <3> QED
      BY <1>1, <2>2, <3>1
  <2> QED
    BY <1>8, <2>1, <2>2 DEF Wake
<1>9. CASE Change(world') /\ UNCHANGED instant
  <2>1. mon'.pc = mon.pc /\ mon'.pending = mon.pending /\ mon'.last_index = mon.last_index
        /\ mon'.new_index = mon.new_index /\ mon'.msg = mon.msg
    BY <1>9 DEF Change, MonitorRecord
  <2> QED
    BY <1>9, <2>1 DEF MonitorPace, Publishes
<1>10. CASE watch_kv \/ KvFails
  <2>1. mon' = mon /\ instant'["services"] = instant["services"]
    BY <1>10, CountStep DEF watch_kv, KvFails
  <2> QED
    BY <1>1, <2>1
<1>11. CASE UNCHANGED <<mon, instant>>
  BY <1>1, <1>11
<1> QED
  BY <1>2, <1>3, <1>4, <1>5, <1>6, <1>7, <1>8, <1>9, <1>10, <1>11
     DEF WatchNext, watchVars, consul, Change, ChangeKv, Changed, CatchUp, Restart, ToggleHeader, SendManual,
         route_update_handler, Shutdown

\* After a query without an index the watcher of keys pauses, or has one.
LEMMA KvPaceStep ==
  ASSUME WatchStateInv, KvPace, [WatchNext]_watchVars
  PROVE  KvPace'
<1> kvw \in KvWatcherRecord /\ instant["kv"] \in Nat /\ "kv" \in Watchers /\ "services" \in Watchers
  BY DEF WatchStateInv, Watchers
<1>1. CASE kvw' = kvw /\ instant'["kv"] = instant["kv"]
  BY <1>1 DEF KvPace
<1>2. CASE watch_kv
  <2>1. kvw.pc = "query" /\ instant'["kv"] = IF kvw.last_index = 0 THEN instant["kv"] + 1 ELSE 0
    BY <1>2, CountStep DEF watch_kv
  <2>2. instant'["kv"] = IF kvw.last_index = 0 THEN 1 ELSE 0
    BY <2>1 DEF KvPace
  <2> PICK v \in Replies("kv") :
            kvw' = IF new_index(v) = kvw.last_index THEN Unchanged(kvw)
                   ELSE [kvw EXCEPT !.backoff = 1, !.last_index = new_index(v), !.pc = "send", !.source = v.change,
                                    !.msg = [kind |-> "manual", content |-> combined(v.data)]]
    BY <1>2 DEF watch_kv
  <2>3. CASE new_index(v) = kvw.last_index
    <3>1. kvw'.pc = (IF kvw.last_index = 0 THEN "poll" ELSE "query") /\ kvw'.last_index = kvw.last_index
      BY <2>3 DEF Unchanged, KvWatcherRecord
    <3> QED
      BY <2>2, <3>1 DEF KvPace
  <2>4. CASE new_index(v) # kvw.last_index
    <3> DEFINE u == [kind |-> "manual", content |-> combined(v.data)]
    <3>1. u.kind = "manual"
      OBVIOUS
    <3>2. kvw' = [kvw EXCEPT !.backoff = 1, !.last_index = new_index(v), !.pc = "send",
                              !.source = v.change, !.msg = u]
      BY <2>4 DEF KvWatcherRecord
    <3> HIDE DEF u
    <3>3. kvw'.pc = "send" /\ kvw'.last_index = new_index(v) /\ kvw'.msg.kind = "manual"
      BY <3>1, <3>2 DEF KvWatcherRecord
    <3> QED
      BY <2>2, <2>4, <3>3 DEF KvPace
  <2> QED
    BY <2>3, <2>4
<1>3. CASE KvFails
  <2>1. kvw.pc = "query" /\ instant'["kv"] = IF kvw.last_index = 0 THEN instant["kv"] + 1 ELSE 0
    BY <1>3, CountStep DEF KvFails
  <2>2. kvw'.pc = "send" /\ kvw'.msg.kind = "error"
    BY <1>3 DEF KvFails, Failed, KvWatcherRecord
  <2> QED
    BY <2>1, <2>2 DEF KvPace
<1>4. CASE SendManual
  <2> DEFINE next == IF kvw.msg.kind = "error" THEN "sleep" ELSE IF Closed THEN "off" ELSE "query"
  <2>1. kvw.pc = "send" /\ instant' = instant
    BY <1>4 DEF SendManual
  <2>2. kvw' = [kvw EXCEPT !.msg = NoUpdate, !.pc = next] /\ next \in {"sleep", "off", "query"}
    BY <1>4 DEF SendManual, Sent
  <2>3. next = "query" => kvw.msg.kind = "manual"
    BY <2>1 DEF KvPace
  <2> HIDE DEF next
  <2>4. kvw'.pc = next /\ kvw'.last_index = kvw.last_index
    BY <2>2 DEF KvWatcherRecord
  <2> QED
    BY <2>1, <2>2, <2>3, <2>4 DEF KvPace
<1>5. CASE \E w \in Watchers : Wake(w)
  <2>1. CASE kvw' = Awake(kvw) /\ instant' = [instant EXCEPT !["kv"] = 0]
    <3>1. instant'["kv"] = 0
      BY <2>1 DEF WatchStateInv
    <3>2. kvw'.pc = "query"
      BY <2>1 DEF Awake, KvWatcherRecord
    <3> QED
      BY <3>1, <3>2 DEF KvPace
  <2>2. CASE kvw' = kvw /\ instant' = [instant EXCEPT !["services"] = 0]
    <3>1. instant'["kv"] = instant["kv"]
      BY <2>2 DEF WatchStateInv
    <3> QED
      BY <1>1, <2>2, <3>1
  <2> QED
    BY <1>5, <2>1, <2>2 DEF Wake
<1>6. CASE get_health_checks \/ HealthChecksFail
  <2>1. kvw' = kvw /\ instant'["kv"] = instant["kv"]
    BY <1>6, CountStep DEF get_health_checks, HealthChecksFail
  <2> QED
    BY <1>1, <2>1
<1>7. CASE UNCHANGED <<kvw, instant>>
  BY <1>1, <1>7
<1> QED
  BY <1>2, <1>3, <1>4, <1>5, <1>6, <1>7
     DEF WatchNext, watchVars, consul, Change, ChangeKv, Changed, CatchUp, Restart, ToggleHeader, RetryPending,
         get_catalog_service, CatalogFails, process_checks, SendServices, route_update_handler, Shutdown

----------------------------------------------------------------------------
(* The theorems. *)

\* The invariant holds before the first query.
LEMMA WatchInvInit == WatchInit => WatchInv
<1> SUFFICES ASSUME WatchInit PROVE WatchInv
  OBVIOUS
<1> DEFINE on == IF "services" \in enabled THEN "query" ELSE "off"
           kon == IF "kv" \in enabled THEN "query" ELSE "off"
<1>1. on \in {"query", "off"} /\ kon \in {"query", "off"}
  OBVIOUS
<1>2. mon = [pc |-> on, last_index |-> 0, backoff |-> 1, msg |-> NoUpdate, pending |-> FALSE,
             snapshot |-> world, new_index |-> 0, todo |-> {}, passing |-> {}, catalog |-> {}, failed |-> FALSE,
             since |-> {}, source |-> 0, lagged |-> FALSE]
      /\ kvw = [pc |-> kon, last_index |-> 0, backoff |-> 1, msg |-> NoUpdate, source |-> 0]
  BY DEF WatchInit
<1> HIDE DEF on, kon
<1>3. mon \in MonitorRecord /\ kvw \in KvWatcherRecord
  BY <1>1, <1>2, UpdatesTyped, OneSecond, WatchConstants DEF MonitorRecord, KvWatcherRecord, WatchInit
<1>4. mon.pc = on /\ ~mon.pending /\ mon.since = {} /\ kvw.pc = kon
  BY <1>2
<1>5. WatchStateInv
  BY <1>3, WatchConstants DEF WatchInit, WatchStateInv
<1>6. RoundInv(mon, HeldData("services"))
  BY <1>1, <1>4 DEF RoundInv, Publishes
<1>7. PaceInv
  BY <1>1, <1>4 DEF PaceInv, Publishes, WatchInit, Watchers
<1> QED
  BY <1>5, <1>6, <1>7 DEF WatchInv

\* Every step keeps it.
LEMMA WatchInvNext == WatchInv /\ [WatchNext]_watchVars => WatchInv'
<1> SUFFICES ASSUME WatchInv, [WatchNext]_watchVars PROVE WatchInv'
  OBVIOUS
<1> USE DEF WatchInv
<1>1. mon' \in MonitorRecord /\ RoundInv(mon', HeldData("services")')
  BY RoundStep
<1>2. kvw' \in KvWatcherRecord
  BY KvStep
<1>3. WatchStateInv'
  BY <1>1, <1>2, ChannelStep, ConsulStep DEF WatchStateInv
<1>4. PaceInv'
  <2>1. MonitorPace' /\ KvPace'
    BY PaceSplits, MonitorPaceStep, KvPaceStep
  <2> QED
    BY <2>1 DEF PaceInv, MonitorPace, KvPace, Watchers
<1> QED
  BY <1>1, <1>3, <1>4 DEF RoundInv, Publishes, Passing, AskedFor

(* The invariant (ServiceMonitor::watch, KVWatcher::watch).                *)
THEOREM WatchInvariance == WatchSpec => []WatchInv
  BY WatchInvInit, WatchInvNext, PTL DEF WatchSpec

(* Whatever the checks and the catalog say, however the two change between *)
(* the queries and however far behind the servers are that answer, an      *)
(* update has the routes of all instances that are well in the checks read *)
(* and stayed registered on every server, and no others but those whose    *)
(* "<node>.<id>" reads as that of one that is well (process_checks,        *)
(* passing_service_ids).                                                   *)
THEOREM UpdatesRight == WatchSpec => []UpdatesAreRight
<1>1. WatchInv => UpdatesAreRight
  <2> SUFFICES ASSUME WatchInv PROVE UpdatesAreRight
    OBVIOUS
  <2> USE DEF WatchInv
  <2>1. WatchTypeOK
    <3>1. \A w \in {mon, kvw} : w.backoff \in 1 .. MaxBackoff /\ w.last_index \in Nat
      BY DEF WatchStateInv, MonitorRecord, KvWatcherRecord
    <3>2. kvw.pc \in {"off", "query", "send", "sleep", "poll"}
          /\ mon.pc \in {"off", "query", "catalog", "send", "sleep", "poll"}
      BY DEF WatchStateInv, MonitorRecord, KvWatcherRecord
    <3>3. mon.pc \in {"query", "sleep", "catalog"} => (mon.since # {} <=> mon.pending \/ mon.pc = "catalog")
      BY DEF RoundInv, Publishes
    <3> QED
      BY <3>1, <3>2, <3>3 DEF WatchTypeOK, WatchStateInv
  <2> DEFINE checks == Checks[mon.snapshot]
             passing == passing_services(checks)
  <2>2. mon.snapshot \in Worlds /\ mon.since \subseteq Worlds /\ \A c \in checks : c.tagged \in BOOLEAN
    BY WatchConstants DEF WatchStateInv, MonitorRecord
  <2>3. \A n : n \in passing <=>
               \E c \in checks : is_service_check(c) /\ n = Named(c) /\ Well(checks, InstanceOf(c)) /\ Wanted(c)
    BY <2>2, PassingIsWell
  <2>4. Publishing => /\ Built = KnownRoutes(passing, mon.catalog)
                      /\ Passing(mon) \subseteq AskedFor(mon)
                      /\ \A e \in mon.catalog : e.world \in mon.since
    BY DEF RoundInv, Publishing, Publishes, Built
  <2> HIDE DEF checks, passing
  <2>5. OnlyWellRouted
    <3> SUFFICES ASSUME Publishing, NEW d \in Built
                 PROVE  \E w \in mon.since : \E i \in Registered(w) :
                            d \in RoutesOf(i) /\ WellNamed(checks, i) /\ Wanted(i)
      BY DEF OnlyWellRouted, checks
    <3>1. PICK e \in mon.catalog : \E i \in Answer(e.world, e.service) : Named(i) \in passing /\ d \in RoutesOf(i)
      BY <2>4 DEF KnownRoutes
    <3>2. PICK i \in Answer(e.world, e.service) : Named(i) \in passing /\ d \in RoutesOf(i)
      BY <3>1
    <3>3. e.world \in mon.since /\ e.world \in Worlds
      BY <2>2, <2>4
    <3>4. i \in Registered(e.world)
      BY <3>3, AnswersAreRegistered
    <3>5. PICK c \in checks : is_service_check(c) /\ Named(i) = Named(c) /\ Well(checks, InstanceOf(c)) /\ Wanted(c)
      BY <2>3, <3>2
    <3>6. WellNamed(checks, i)
      BY <3>5 DEF WellNamed
    <3>7. i.name = c.name
      BY <3>5, NamedByChecks
    <3>8. Wanted(i)
      BY <3>5, <3>7 DEF Wanted
    <3> QED
      BY <3>2, <3>3, <3>4, <3>6, <3>8
  <2>6. UpdatesAreWhole
    <3> SUFFICES ASSUME Publishing, NEW i, \A w \in mon.since : i \in Registered(w),
                        Well(checks, InstanceOf(i)), Wanted(i), NEW d \in RoutesOf(i)
                 PROVE  d \in Built
      BY DEF UpdatesAreWhole, checks
    <3>1. Named(i) \in passing
      <4>1. PICK c \in checks : c.kind = "service" /\ c.tagged /\ InstanceOf(c) = InstanceOf(i)
        BY DEF Well
      <4>2. c.sid = i.sid /\ c.name = i.name /\ InstanceOf(i).sid = i.sid
        BY <4>1 DEF InstanceOf
      <4>3. is_service_check(c)
        BY <4>1, <4>2 DEF is_service_check, Well
      <4>4. Named(c) = Named(i)
        BY <4>1, NamedByChecks
      <4>5. Wanted(c) /\ Well(checks, InstanceOf(c))
        BY <4>1, <4>2 DEF Wanted
      <4> QED
        BY <2>3, <4>3, <4>4, <4>5
    <3>2. i.name \in Passing(mon)
      BY <3>1, NamedByChecks DEF Passing, passing, checks
    <3>3. PICK e \in mon.catalog : e.service = i.name
      BY <2>4, <3>2 DEF AskedFor
    <3>4. e.world \in mon.since /\ e.world \in Worlds
      BY <2>2, <2>4
    <3>5. i \in Answer(e.world, e.service)
      BY <3>3, <3>4, RegisteredAnswers
    <3>6. d \in KnownRoutes(passing, mon.catalog)
      BY <3>1, <3>5 DEF KnownRoutes
    <3> QED
      BY <2>4, <3>6
  <2> QED
    BY <2>1, <2>5, <2>6 DEF UpdatesAreRight
<1> QED
  BY <1>1, WatchInvariance, PTL

(* Between two queries that cannot block a watcher has slept or waited in  *)
(* one that can, whatever Consul answers (the two watch loops).            *)
THEOREM NoBusyLoop == WatchSpec => []NeverSpins
<1>1. WatchInv => NeverSpins
  BY DEF WatchInv, PaceInv, NeverSpins
<1> QED
  BY <1>1, WatchInvariance, PTL

----------------------------------------------------------------------------
(***************************************************************************)
(* Positions: the least of a set, and what Retain keeps.                   *)
(***************************************************************************)

\* Every set of naturals that is not empty has a least element.
LEMMA LeastPosition ==
  ASSUME NEW S, S \subseteq Nat, S # {}
  PROVE  Min(S) \in S /\ \A n \in S : Min(S) <= n
<1> DEFINE R == {p \in Nat \X Nat : p[1] < p[2]}
<1>1. IsWellFoundedOn(R, Nat)
  BY NatLessThanWellFounded DEF OpToRel
<1>2. \A x, y \in Nat : x < y => <<x, y>> \in R
  OBVIOUS
<1> HIDE DEF R
<1>3. PICK x \in S : \A y \in S : ~(<<y, x>> \in R)
  BY <1>1, WFMin
<1>4. ASSUME NEW y \in S PROVE x <= y
  <2>1. x \in Nat /\ y \in Nat
    OBVIOUS
  <2>2. ~(y < x)
    BY <1>2, <1>3, <2>1
  <2>3. QED
    BY <2>1, <2>2
<1>5. QED
  BY <1>3, <1>4 DEF Min

Upto(I, i) == {j \in I : j <= i}

\* Counting the positions up to each one numbers them from 1 on.
LEMMA Numbering ==
  ASSUME NEW I, I \subseteq Nat, IsFiniteSet(I)
  PROVE  /\ Cardinality(I) \in Nat
         /\ \A i \in I : Cardinality(Upto(I, i)) \in 1 .. Cardinality(I) /\ Nth(I, Cardinality(Upto(I, i))) = i
         /\ \A n \in 1 .. Cardinality(I) : Nth(I, n) \in I /\ Cardinality(Upto(I, Nth(I, n))) = n
<1> DEFINE N == Cardinality(I)
           rank == [i \in I |-> Cardinality(Upto(I, i))]
<1>1. N \in Nat
  BY FS_CardinalityType
<1>2. ASSUME NEW i \in I PROVE IsFiniteSet(Upto(I, i)) /\ rank[i] \in 1 .. N
  <2>1. Upto(I, i) \in SUBSET I /\ i \in Upto(I, i)
    BY DEF Upto
  <2>2. IsFiniteSet(Upto(I, i)) /\ Cardinality(Upto(I, i)) <= N
    BY <2>1, FS_Subset
  <2>3. Cardinality(Upto(I, i)) \in Nat
    BY <2>2, FS_CardinalityType
  <2>4. Cardinality(Upto(I, i)) # 0
    BY <2>1, <2>2, FS_EmptySet
  <2> QED
    BY <1>1, <2>2, <2>3, <2>4
<1>3. ASSUME NEW i \in I, NEW k \in I, i < k PROVE rank[i] # rank[k]
  <2>0. ASSUME NEW x \in Upto(I, i) PROVE x \in Upto(I, k)
    <3>1. x \in I /\ x \in Nat /\ i \in Nat /\ k \in Nat /\ x <= i
      BY DEF Upto
    <3> QED
      BY <1>3, <3>1 DEF Upto
  <2>1. Upto(I, i) \in SUBSET Upto(I, k)
    BY <2>0
  <2>2. k \in Upto(I, k) /\ k \notin Upto(I, i)
    BY <1>3 DEF Upto
  <2>3. Upto(I, i) # Upto(I, k)
    BY <2>2
  <2> QED
    BY <1>2, <2>1, <2>3, FS_Subset
<1>4. rank \in Injection(I, 1 .. N)
  <2>1. rank \in [I -> 1 .. N]
    BY <1>2
  <2>2. ASSUME NEW i \in I, NEW k \in I, rank[i] = rank[k] PROVE i = k
    <3>1. ~(i < k) /\ ~(k < i)
      BY <1>3, <2>2
    <3> QED
      BY <3>1
  <2> QED
    BY <2>1, <2>2 DEF Injection, IsInjective
<1>5. IsFiniteSet(1 .. N) /\ Cardinality(1 .. N) = N
  BY <1>1, FS_Interval
<1>6. rank \in Surjection(I, 1 .. N)
  BY <1>4, <1>5, FS_Injection
<1>7. ASSUME NEW n \in 1 .. N PROVE Nth(I, n) \in I /\ Cardinality(Upto(I, Nth(I, n))) = n
  <2>1. \E i \in I : rank[i] = n
    BY <1>6 DEF Surjection
  <2>2. \E i \in I : Cardinality({j \in I : j <= i}) = n
    BY <2>1 DEF Upto
  <2> QED
    BY <2>2 DEF Nth, Upto
<1>8. ASSUME NEW i \in I PROVE Nth(I, rank[i]) = i
  <2>1. rank[i] \in 1 .. N
    BY <1>2
  <2>2. Nth(I, rank[i]) \in I /\ rank[Nth(I, rank[i])] = rank[i]
    BY <1>7, <2>1
  <2> QED
    BY <1>4, <2>2 DEF Injection, IsInjective
<1> QED
  BY <1>1, <1>2, <1>7, <1>8

IsSeq(s) == s = [i \in 1 .. Len(s) |-> s[i]] /\ Len(s) \in Nat

\* Retain keeps exactly what stands at the positions, the first one first,
\* and nothing twice.
LEMMA Retained ==
  ASSUME NEW s, NEW I, IsSeq(s), I \subseteq DOMAIN s
  PROVE  LET u == Retain(s, I)
         IN /\ IsSeq(u) /\ Len(u) = Cardinality(I)
            /\ \A n \in DOMAIN u : Nth(I, n) \in I /\ u[n] = s[Nth(I, n)]
            /\ \A i \in I : \E n \in DOMAIN u : u[n] = s[i]
            /\ \A m, n \in DOMAIN u : Nth(I, m) = Nth(I, n) => m = n
            /\ I # {} <=> u # << >>
            /\ I # {} => 1 \in DOMAIN u /\ u[1] = s[Min(I)]
<1> DEFINE N == Cardinality(I)
           u == Retain(s, I)
<1>1. I \subseteq Nat /\ IsFiniteSet(I)
  <2>1. DOMAIN s = 1 .. Len(s) /\ Len(s) \in Nat
    BY DEF IsSeq
  <2>2. I \in SUBSET (1 .. Len(s))
    BY <2>1
  <2>3. IsFiniteSet(1 .. Len(s))
    BY <2>1, FS_Interval
  <2> QED
    BY <2>1, <2>2, <2>3, FS_Subset
<1>2. /\ N \in Nat
      /\ \A i \in I : Cardinality(Upto(I, i)) \in 1 .. N /\ Nth(I, Cardinality(Upto(I, i))) = i
      /\ \A n \in 1 .. N : Nth(I, n) \in I /\ Cardinality(Upto(I, Nth(I, n))) = n
  BY <1>1, Numbering
<1>3. u = [n \in 1 .. N |-> s[Nth(I, n)]]
  BY DEF Retain
<1>4. IsSeq(u) /\ Len(u) = N /\ DOMAIN u = 1 .. N
  BY <1>2, <1>3 DEF IsSeq
<1>5. \A n \in DOMAIN u : Nth(I, n) \in I /\ u[n] = s[Nth(I, n)]
  BY <1>2, <1>3
<1>6. \A i \in I : \E n \in DOMAIN u : u[n] = s[i]
  BY <1>2, <1>3
<1>7. \A m, n \in DOMAIN u : Nth(I, m) = Nth(I, n) => m = n
  BY <1>2, <1>4
<1>8. I # {} <=> u # << >>
  <2>1. N = 0 <=> I = {}
    BY <1>1, FS_EmptySet
  <2>2. u = << >> <=> N = 0
    BY <1>2, <1>4
  <2> QED
    BY <2>1, <2>2
<1>9. ASSUME I # {} PROVE 1 \in DOMAIN u /\ u[1] = s[Min(I)]
  <2>1. Min(I) \in I /\ \A i \in I : Min(I) <= i
    BY <1>1, <1>9, LeastPosition
  <2>2. Upto(I, Min(I)) = {Min(I)}
    BY <1>1, <2>1 DEF Upto
  <2>3. Cardinality(Upto(I, Min(I))) = 1
    BY <2>2, FS_Singleton
  <2>4. 1 \in 1 .. N /\ Nth(I, 1) = Min(I)
    BY <1>2, <2>1, <2>3
  <2> QED
    BY <1>3, <2>4
<1> QED
  BY <1>4, <1>5, <1>6, <1>7, <1>8, <1>9

----------------------------------------------------------------------------
\* What Append returns.
LEMMA Appended ==
  ASSUME NEW s, IsSeq(s), NEW e
  PROVE  Append(s, e) = [i \in 1 .. Len(s) + 1 |-> IF i = Len(s) + 1 THEN e ELSE s[i]]
<1> DEFINE S == {s[i] : i \in 1 .. Len(s)} \cup {e}
<1>1. s \in [1 .. Len(s) -> S] /\ Len(s) \in Nat
  BY DEF IsSeq
<1>2. e \in S
  OBVIOUS
<1> HIDE DEF S
<1>3. s \in Seq(S)
  BY <1>1, SeqDef
<1> DEFINE u == Append(s, e)
<1>4. /\ u \in Seq(S) /\ Len(u) = Len(s) + 1
      /\ \A i \in 1 .. Len(s) : u[i] = s[i]
      /\ u[Len(s) + 1] = e
  BY <1>2, <1>3, AppendProperties
<1> HIDE DEF u
<1>5. u = [i \in 1 .. Len(u) |-> u[i]]
  BY <1>4
<1>6. \A i \in 1 .. Len(s) + 1 : u[i] = IF i = Len(s) + 1 THEN e ELSE s[i]
  BY <1>1, <1>4
<1>7. u = [i \in 1 .. Len(s) + 1 |-> IF i = Len(s) + 1 THEN e ELSE s[i]]
  BY <1>4, <1>5, <1>6
<1> QED
  BY <1>7 DEF u

\* A sequence that is not empty has a first element.
LEMMA NotEmpty ==
  ASSUME NEW s, IsSeq(s)
  PROVE  s # << >> <=> 1 \in DOMAIN s
<1>1. DOMAIN s = 1 .. Len(s) /\ Len(s) \in Nat /\ s = [i \in 1 .. Len(s) |-> s[i]]
  BY DEF IsSeq
<1>2. CASE Len(s) = 0
  <2>1. s = [i \in {} |-> s[i]]
    BY <1>1, <1>2
  <2> QED
    BY <1>1, <1>2, <2>1
<1>3. CASE Len(s) # 0
  BY <1>1, <1>3
<1> QED
  BY <1>2, <1>3

(***************************************************************************)
(* Tables: what each command does to the targets on the routes.            *)
(***************************************************************************)
IsTarget(x) ==
    x = [service |-> x.service, url |-> x.url, fixed |-> x.fixed, weight |-> x.weight, tags |-> x.tags,
         opts |-> x.opts, source |-> x.source]

IsTargets(s) == IsSeq(s) /\ \A k \in DOMAIN s : IsTarget(s[k])

IsRoutes(s) ==
    /\ IsSeq(s)
    /\ \A i \in DOMAIN s : IsTargets(s[i].targets) /\ IsSeq(s[i].path)
    /\ \A i, j \in DOMAIN s : s[i].path = s[j].path => i = j

Full(s) == s # << >> /\ \A i \in DOMAIN s : s[i].targets # << >>

GoodTable(t) == \A h \in DOMAIN t : IsRoutes(t[h]) /\ Full(t[h])

(* Target x is on the route of path p in s, or of host h in t. *)
In(s, p, x) == \E i \in DOMAIN s : s[i].path = p /\ \E k \in DOMAIN s[i].targets : x = s[i].targets[k]
On(t, h, p, x) == h \in DOMAIN t /\ In(t[h], p, x)

Like(x, y) == x.service = y.service /\ x.url = y.url /\ x.tags = y.tags /\ x.opts = y.opts /\ x.source = y.source
Same(x, y) == Like(x, y) /\ x.fixed = y.fixed

\* Computing the weights of a route changes nothing else.
LEMMA WeightedKeeps ==
  ASSUME NEW path, NEW targets, IsTargets(targets)
  PROVE  /\ Weighted(path, targets).path = path
         /\ IsTargets(Weighted(path, targets).targets)
         /\ DOMAIN Weighted(path, targets).targets = DOMAIN targets
         /\ \A k \in DOMAIN targets : Same(Weighted(path, targets).targets[k], targets[k])
         /\ Weighted(path, targets).targets = << >> <=> targets = << >>
<1>1. IsSeq(targets) /\ \A k \in DOMAIN targets : IsTarget(targets[k])
  BY DEF IsTargets
<1>2. CASE targets = << >>
  BY <1>1, <1>2 DEF Weighted, IsTargets
<1>3. CASE targets # << >>
  <2> DEFINE weights == EffectiveWeights(targets)
             new == [i \in DOMAIN targets |-> [targets[i] EXCEPT !.weight = weights[i]]]
  <2>1. Weighted(path, targets).path = path /\ Weighted(path, targets).targets = new
    BY <1>3 DEF Weighted
  <2> HIDE DEF weights
  <2>2. ASSUME NEW k \in DOMAIN targets
        PROVE  IsTarget(new[k]) /\ Same(new[k], targets[k])
    <3> DEFINE x == targets[k]
    <3>1. x = [service |-> x.service, url |-> x.url, fixed |-> x.fixed, weight |-> x.weight, tags |-> x.tags,
               opts |-> x.opts, source |-> x.source]
      BY <1>1 DEF IsTarget
    <3>2. new[k] = [x EXCEPT !.weight = weights[k]]
      OBVIOUS
    <3> HIDE DEF x, new
    <3>3. new[k] = [service |-> x.service, url |-> x.url, fixed |-> x.fixed, weight |-> weights[k], tags |-> x.tags,
                    opts |-> x.opts, source |-> x.source]
      BY <3>1, <3>2
    <3>4. IsTarget(new[k]) /\ Same(new[k], x)
      BY <3>3 DEF IsTarget, Same, Like
    <3> QED
      BY <3>4 DEF x
  <2>3. DOMAIN new = DOMAIN targets /\ IsSeq(new)
    <3>1. DOMAIN targets = 1 .. Len(targets) /\ Len(targets) \in Nat
      BY <1>1 DEF IsSeq
    <3>2. DOMAIN new = DOMAIN targets
      OBVIOUS
    <3>3. new = [i \in 1 .. Len(targets) |-> new[i]]
      BY <3>1
    <3> HIDE DEF new
    <3>4. Len(new) = Len(targets)
      BY <3>1, <3>3
    <3> QED
      BY <3>1, <3>2, <3>3, <3>4 DEF IsSeq
  <2>4. new # << >>
    <3>1. DOMAIN targets # {}
      BY <1>1, <1>3 DEF IsSeq
    <3> QED
      BY <2>3, <3>1
  <2> HIDE DEF new
  <2> QED
    BY <1>3, <2>1, <2>2, <2>3, <2>4 DEF IsTargets
<1> QED
  BY <1>2, <1>3

\* Adding a target to a route: it is there, or one of its service, URL,
\* weight and source was.
LEMMA AddTarget ==
  ASSUME NEW targets, IsTargets(targets), NEW x, IsTarget(x)
  PROVE  /\ IsTargets(add_target(targets, x)) /\ add_target(targets, x) # << >>
         /\ \A k \in DOMAIN targets : /\ k \in DOMAIN add_target(targets, x)
                                      /\ add_target(targets, x)[k] = targets[k]
         /\ \A k \in DOMAIN add_target(targets, x) :
                \/ k \in DOMAIN targets /\ add_target(targets, x)[k] = targets[k]
                \/ add_target(targets, x)[k] = x
         /\ \E k \in DOMAIN add_target(targets, x) :
                /\ add_target(targets, x)[k].service = x.service
                /\ add_target(targets, x)[k].url = x.url
                /\ add_target(targets, x)[k].fixed = x.fixed
                /\ add_target(targets, x)[k].source = x.source
<1>1. IsSeq(targets) /\ DOMAIN targets = 1 .. Len(targets) /\ Len(targets) \in Nat
  BY DEF IsTargets, IsSeq
<1>2. CASE \E k \in DOMAIN targets : /\ targets[k].service = x.service
                                     /\ targets[k].url = x.url
                                     /\ targets[k].fixed = x.fixed
                                     /\ targets[k].source = x.source
  <2>1. add_target(targets, x) = targets
    BY <1>2 DEF add_target
  <2>2. targets # << >>
    BY <1>2
  <2>3. /\ \A k \in DOMAIN targets : k \in DOMAIN targets /\ targets[k] = targets[k]
        /\ \A k \in DOMAIN targets : (k \in DOMAIN targets /\ targets[k] = targets[k]) \/ targets[k] = x
    OBVIOUS
  <2> QED
    BY <1>2, <2>1, <2>2, <2>3, Zenon
<1>3. CASE ~ \E k \in DOMAIN targets : /\ targets[k].service = x.service
                                       /\ targets[k].url = x.url
                                       /\ targets[k].fixed = x.fixed
                                       /\ targets[k].source = x.source
  <2> DEFINE n == Len(targets) + 1
             u == add_target(targets, x)
  <2>1. u = Append(targets, x)
    BY <1>3 DEF add_target
  <2>2. u = [k \in 1 .. n |-> IF k = n THEN x ELSE targets[k]]
    BY <1>1, <2>1, Appended
  <2> HIDE DEF u
  <2>3. IsSeq(u) /\ DOMAIN u = 1 .. n
    <3>1. n \in Nat
      BY <1>1
    <3> HIDE DEF n
    <3> QED
      BY <2>2, <3>1 DEF IsSeq
  <2>4. n \in DOMAIN u /\ u[n] = x
    BY <1>1, <2>2
  <2>5. \A k \in DOMAIN targets : k \in DOMAIN u /\ u[k] = targets[k]
    BY <1>1, <2>2
  <2>6. \A k \in DOMAIN u : (k \in DOMAIN targets /\ u[k] = targets[k]) \/ u[k] = x
    BY <1>1, <2>2
  <2>7. IsTargets(u)
    BY <2>3, <2>6 DEF IsTargets
  <2>8. u # << >>
    BY <2>4
  <2> QED
    BY <2>4, <2>5, <2>6, <2>7, <2>8 DEF u
<1> QED
  BY <1>2, <1>3

(* The routes of a host after an add. *)
Added(s, path, x) ==
    IF RouteAt(s, path) = {} THEN Append(s, Weighted(path, <<x>>))
    ELSE [i \in DOMAIN s |-> IF i \notin RouteAt(s, path) THEN s[i]
                             ELSE Weighted(path, add_target(s[i].targets, x))]

\* One target is a sequence of targets.
LEMMA OneTarget ==
  ASSUME NEW x, IsTarget(x)
  PROVE  IsTargets(<<x>>) /\ <<x>> # << >> /\ 1 \in DOMAIN <<x>> /\ \A k \in DOMAIN <<x>> : <<x>>[k] = x
  BY DEF IsTargets, IsSeq

\* The routes of a host after an add are well formed.
LEMMA AddedIsGood ==
  ASSUME NEW s, IsRoutes(s), \A i \in DOMAIN s : s[i].targets # << >>,
         NEW path, IsSeq(path), NEW x, IsTarget(x)
  PROVE  /\ IsRoutes(Added(s, path, x)) /\ Full(Added(s, path, x))
         /\ \A i \in DOMAIN s : /\ i \in DOMAIN Added(s, path, x)
                                /\ Added(s, path, x)[i].path = s[i].path
                                /\ s[i].path # path => Added(s, path, x)[i] = s[i]
                                /\ s[i].path = path => Added(s, path, x)[i] = Weighted(path, add_target(s[i].targets, x))
         /\ \A i \in DOMAIN Added(s, path, x) :
                i \notin DOMAIN s => Added(s, path, x)[i] = Weighted(path, <<x>>)
         /\ \E i \in DOMAIN Added(s, path, x) : Added(s, path, x)[i].path = path
<1> DEFINE u == Added(s, path, x)
<1>1. /\ IsSeq(s) /\ DOMAIN s = 1 .. Len(s) /\ Len(s) \in Nat
      /\ \A i \in DOMAIN s : IsTargets(s[i].targets) /\ IsSeq(s[i].path)
      /\ \A i, j \in DOMAIN s : s[i].path = s[j].path => i = j
  BY DEF IsRoutes, IsSeq
<1>2. /\ Weighted(path, <<x>>).path = path
      /\ IsTargets(Weighted(path, <<x>>).targets) /\ Weighted(path, <<x>>).targets # << >>
  <2>1. IsTargets(<<x>>) /\ <<x>> # << >>
    BY OneTarget
  <2> QED
    BY <2>1, WeightedKeeps
<1>3. ASSUME NEW i \in DOMAIN s
      PROVE  /\ Weighted(path, add_target(s[i].targets, x)).path = path
             /\ IsTargets(Weighted(path, add_target(s[i].targets, x)).targets)
             /\ Weighted(path, add_target(s[i].targets, x)).targets # << >>
  <2>1. IsTargets(add_target(s[i].targets, x)) /\ add_target(s[i].targets, x) # << >>
    BY <1>1, AddTarget
  <2> QED
    BY <2>1, WeightedKeeps
<1>4. CASE RouteAt(s, path) = {}
  <2> DEFINE n == Len(s) + 1
             r == Weighted(path, <<x>>)
  <2>1. u = Append(s, r)
    BY <1>4 DEF Added
  <2> HIDE DEF u, r
  <2>2. u = [i \in 1 .. n |-> IF i = n THEN r ELSE s[i]]
    BY <1>1, <2>1, Appended
  <2>3. \A i \in DOMAIN s : s[i].path # path
    BY <1>4 DEF RouteAt
  <2>4. n \in Nat /\ n \notin DOMAIN s /\ 1 .. n = DOMAIN s \cup {n}
    BY <1>1
  <2> HIDE DEF n
  <2>5. DOMAIN u = DOMAIN s \cup {n} /\ IsSeq(u) /\ u[n] = r /\ \A i \in DOMAIN s : u[i] = s[i]
    <3>1. Len(u) = n /\ DOMAIN u = 1 .. n /\ u = [i \in 1 .. n |-> u[i]]
      BY <2>2, <2>4
    <3>2. IsSeq(u)
      BY <2>4, <3>1 DEF IsSeq
    <3> QED
      BY <2>2, <2>4, <3>1, <3>2
  <2>6. \A i \in DOMAIN u : IsTargets(u[i].targets) /\ IsSeq(u[i].path) /\ u[i].targets # << >>
    BY <1>1, <1>2, <2>5 DEF r
  <2>7. \A i, j \in DOMAIN u : u[i].path = u[j].path => i = j
    BY <1>1, <1>2, <2>3, <2>5 DEF r
  <2>8. u # << >>
    BY <2>5
  <2>9. IsRoutes(u) /\ Full(u)
    BY <2>5, <2>6, <2>7, <2>8 DEF IsRoutes, Full
  <2> QED
    BY <1>2, <2>3, <2>5, <2>9 DEF u, r
<1>5. CASE RouteAt(s, path) # {}
  <2>1. u = [i \in DOMAIN s |-> IF i \notin RouteAt(s, path) THEN s[i]
                                ELSE Weighted(path, add_target(s[i].targets, x))]
    BY <1>5 DEF Added
  <2> HIDE DEF u
  <2>2. DOMAIN u = DOMAIN s /\ IsSeq(u)
    <3>1. DOMAIN u = 1 .. Len(s) /\ u = [i \in 1 .. Len(s) |-> u[i]]
      BY <1>1, <2>1
    <3>2. Len(u) = Len(s)
      BY <1>1, <3>1
    <3> QED
      BY <1>1, <3>1, <3>2 DEF IsSeq
  <2>3. ASSUME NEW i \in DOMAIN s
        PROVE  /\ s[i].path # path => u[i] = s[i]
               /\ s[i].path = path => u[i] = Weighted(path, add_target(s[i].targets, x))
    BY <2>1 DEF RouteAt
  <2>4. \A i \in DOMAIN s : u[i].path = s[i].path
    BY <1>3, <2>3
  <2>5. \A i \in DOMAIN s : IsTargets(u[i].targets) /\ u[i].targets # << >>
    BY <1>1, <1>3, <2>3
  <2>6. \E i \in DOMAIN s : s[i].path = path
    BY <1>5 DEF RouteAt
  <2>7. u # << >>
    <3>1. DOMAIN u # {}
      BY <2>2, <2>6
    <3> QED
      BY <3>1
  <2>8. IsRoutes(u) /\ Full(u)
    BY <1>1, <2>2, <2>4, <2>5, <2>7 DEF IsRoutes, Full
  <2> QED
    BY <2>2, <2>3, <2>4, <2>6, <2>8 DEF u
<1> QED
  BY <1>4, <1>5

\* What an add does to the targets of a host: those there stay, and the new
\* one is there, unless one of its service, URL and weight was.
LEMMA AddedIn ==
  ASSUME NEW s, IsRoutes(s), \A i \in DOMAIN s : s[i].targets # << >>,
         NEW path, IsSeq(path), NEW x, IsTarget(x)
  PROVE  /\ \A p, y : In(s, p, y) => \E z : In(Added(s, path, x), p, z) /\ Same(z, y)
         /\ \A p, z : In(Added(s, path, x), p, z) =>
                (\E y : In(s, p, y) /\ Same(y, z)) \/ (p = path /\ Same(z, x))
         /\ \E z : /\ In(Added(s, path, x), path, z)
                   /\ z.service = x.service /\ z.url = x.url /\ z.fixed = x.fixed /\ z.source = x.source
<1> DEFINE u == Added(s, path, x)
<1>1. /\ \A i \in DOMAIN s : /\ i \in DOMAIN u /\ u[i].path = s[i].path
                             /\ s[i].path # path => u[i] = s[i]
                             /\ s[i].path = path => u[i] = Weighted(path, add_target(s[i].targets, x))
      /\ \A i \in DOMAIN u : i \notin DOMAIN s => u[i] = Weighted(path, <<x>>)
      /\ \E i \in DOMAIN u : u[i].path = path
  BY AddedIsGood
<1> HIDE DEF u
<1>2. \A i \in DOMAIN s : IsTargets(s[i].targets)
  BY DEF IsRoutes
<1>3. ASSUME NEW i \in DOMAIN s, s[i].path = path
      PROVE  LET T == s[i].targets
                 V == u[i].targets
             IN /\ \A k \in DOMAIN T : k \in DOMAIN V /\ Same(V[k], T[k])
                /\ \A k \in DOMAIN V : \/ k \in DOMAIN T /\ Same(T[k], V[k])
                                       \/ Same(V[k], x)
                /\ \E k \in DOMAIN V : V[k].service = x.service /\ V[k].url = x.url /\ V[k].fixed = x.fixed /\ V[k].source = x.source
  <2> DEFINE T == s[i].targets
             W == add_target(T, x)
             V == u[i].targets
  <2>1. IsTargets(T)
    BY <1>2
  <2>2. V = Weighted(path, W).targets
    BY <1>1, <1>3
  <2> HIDE DEF T, V
  <2>3. /\ IsTargets(W)
        /\ \A k \in DOMAIN T : k \in DOMAIN W /\ W[k] = T[k]
        /\ \A k \in DOMAIN W : (k \in DOMAIN T /\ W[k] = T[k]) \/ W[k] = x
        /\ \E k \in DOMAIN W : W[k].service = x.service /\ W[k].url = x.url /\ W[k].fixed = x.fixed /\ W[k].source = x.source
    BY <2>1, AddTarget
  <2> HIDE DEF W
  <2>4. DOMAIN V = DOMAIN W /\ \A k \in DOMAIN W : Same(V[k], W[k])
    BY <2>2, <2>3, WeightedKeeps
  <2>5. \A k \in DOMAIN T : k \in DOMAIN V /\ Same(V[k], T[k])
    BY <2>3, <2>4
  <2>6. \A k \in DOMAIN V : (k \in DOMAIN T /\ Same(T[k], V[k])) \/ Same(V[k], x)
    BY <2>3, <2>4 DEF Same, Like
  <2>7. \E k \in DOMAIN V : V[k].service = x.service /\ V[k].url = x.url /\ V[k].fixed = x.fixed /\ V[k].source = x.source
    BY <2>3, <2>4 DEF Same, Like
  <2> QED
    BY <2>5, <2>6, <2>7 DEF T, V
<1>4. ASSUME NEW i \in DOMAIN u, i \notin DOMAIN s
      PROVE  /\ u[i].path = path
             /\ \A k \in DOMAIN u[i].targets : Same(u[i].targets[k], x)
             /\ \E k \in DOMAIN u[i].targets : Same(u[i].targets[k], x)
  <2>1. u[i] = Weighted(path, <<x>>)
    BY <1>1, <1>4
  <2>2. IsTargets(<<x>>) /\ 1 \in DOMAIN <<x>> /\ \A k \in DOMAIN <<x>> : <<x>>[k] = x
    BY OneTarget
  <2>3. /\ u[i].path = path /\ DOMAIN u[i].targets = DOMAIN <<x>>
        /\ \A k \in DOMAIN <<x>> : Same(u[i].targets[k], <<x>>[k])
    BY <2>1, <2>2, WeightedKeeps
  <2> QED
    BY <2>2, <2>3
<1>5. ASSUME NEW p, NEW y, In(s, p, y)
      PROVE  \E z : In(u, p, z) /\ Same(z, y)
  <2>1. PICK i \in DOMAIN s : s[i].path = p /\ \E k \in DOMAIN s[i].targets : y = s[i].targets[k]
    BY <1>5 DEF In
  <2>2. PICK k \in DOMAIN s[i].targets : y = s[i].targets[k]
    BY <2>1
  <2>3. i \in DOMAIN u /\ u[i].path = p
    BY <1>1, <2>1
  <2>4. k \in DOMAIN u[i].targets /\ Same(u[i].targets[k], y)
    <3>1. CASE s[i].path = path
      BY <1>3, <2>2, <3>1
    <3>2. CASE s[i].path # path
      BY <1>1, <2>2, <3>2 DEF Same, Like
    <3> QED
      BY <3>1, <3>2
  <2>5. In(u, p, u[i].targets[k])
    BY <2>3, <2>4 DEF In
  <2> QED
    BY <2>4, <2>5
<1>6. ASSUME NEW p, NEW z, In(u, p, z)
      PROVE  (\E y : In(s, p, y) /\ Same(y, z)) \/ (p = path /\ Same(z, x))
  <2>1. PICK i \in DOMAIN u : u[i].path = p /\ \E k \in DOMAIN u[i].targets : z = u[i].targets[k]
    BY <1>6 DEF In
  <2>2. PICK k \in DOMAIN u[i].targets : z = u[i].targets[k]
    BY <2>1
  <2>3. CASE i \notin DOMAIN s
    BY <1>4, <2>1, <2>2, <2>3
  <2>4. CASE i \in DOMAIN s /\ s[i].path # path
    <3>1. u[i] = s[i]
      BY <1>1, <2>4
    <3>2. In(s, p, z) /\ Same(z, z)
      BY <2>1, <2>2, <2>4, <3>1 DEF In, Same, Like
    <3> QED
      BY <3>2
  <2>5. CASE i \in DOMAIN s /\ s[i].path = path
    <3>1. p = path
      BY <1>1, <2>1, <2>5
    <3>2. CASE Same(z, x)
      BY <3>1, <3>2
    <3>3. CASE k \in DOMAIN s[i].targets /\ Same(s[i].targets[k], z)
      <4>1. In(s, p, s[i].targets[k])
        BY <2>5, <3>1, <3>3 DEF In
      <4> QED
        BY <3>3, <4>1
    <3> QED
      BY <1>3, <2>2, <2>5, <3>2, <3>3
  <2> QED
    BY <2>3, <2>4, <2>5
<1>7. \E z : In(u, path, z) /\ z.service = x.service /\ z.url = x.url /\ z.fixed = x.fixed /\ z.source = x.source
  <2>1. PICK i \in DOMAIN u : u[i].path = path
    BY <1>1
  <2>2. \E k \in DOMAIN u[i].targets : /\ u[i].targets[k].service = x.service
                                       /\ u[i].targets[k].url = x.url /\ u[i].targets[k].fixed = x.fixed /\ u[i].targets[k].source = x.source
    <3>1. CASE i \in DOMAIN s
      <4>1. s[i].path = path
        BY <1>1, <2>1, <3>1
      <4> QED
        BY <1>3, <3>1, <4>1
    <3>2. CASE i \notin DOMAIN s
      BY <1>4, <3>2 DEF Same, Like
    <3> QED
      BY <3>1, <3>2
  <2> QED
    BY <2>1, <2>2 DEF In
<1> QED
  BY <1>5, <1>6, <1>7 DEF u

\* An add on the table (apply_add).
LEMMA AddOn ==
  ASSUME NEW t, GoodTable(t), NEW d, IsSeq(src_path(d))
  PROVE  LET u == apply_add(t, d)
             host == Lower[src_host(d)]
             path == src_path(d)
         IN /\ GoodTable(u)
            /\ \A h, p, y : On(t, h, p, y) => \E z : On(u, h, p, z) /\ Same(z, y)
            /\ \A h, p, z : On(u, h, p, z) => \/ \E y : On(t, h, p, y) /\ Same(y, z)
                                              \/ h = host /\ p = path /\ Same(z, NewTarget(d))
            /\ \E z : On(u, host, path, z) /\ z.service = d.service /\ z.url = d.dst /\ z.fixed = d.weight /\ z.source = d.source
<1> DEFINE host == Lower[src_host(d)]
           path == src_path(d)
           x == NewTarget(d)
           s == HostRoutes(t, host)
           v == Added(s, path, x)
           u == apply_add(t, d)
<1>1. u = [h \in DOMAIN t \cup {host} |-> IF h = host THEN v ELSE t[h]]
  BY DEF apply_add, Added, SetRoutes
<1>2. IsTarget(x) /\ x.service = d.service /\ x.url = d.dst /\ x.fixed = d.weight /\ x.source = d.source
  BY DEF NewTarget, IsTarget
<1>3. IsRoutes(s) /\ \A i \in DOMAIN s : s[i].targets # << >>
  <2>1. CASE host \in DOMAIN t
    BY <2>1 DEF HostRoutes, GoodTable, Full
  <2>2. CASE host \notin DOMAIN t
    BY <2>2 DEF HostRoutes, IsRoutes, IsSeq
  <2> QED
    BY <2>1, <2>2
<1>4. \A p, y : In(s, p, y) <=> On(t, host, p, y)
  BY DEF HostRoutes, On, In
<1> HIDE DEF host, x, s, u
<1>5. IsRoutes(v) /\ Full(v)
  BY <1>2, <1>3, AddedIsGood
<1>6. /\ \A p, y : In(s, p, y) => \E z : In(v, p, z) /\ Same(z, y)
      /\ \A p, z : In(v, p, z) => (\E y : In(s, p, y) /\ Same(y, z)) \/ (p = path /\ Same(z, x))
      /\ \E z : In(v, path, z) /\ z.service = x.service /\ z.url = x.url /\ z.fixed = x.fixed /\ z.source = x.source
  BY <1>2, <1>3, AddedIn
<1> HIDE DEF v, path
<1>7. GoodTable(u)
  BY <1>1, <1>5 DEF GoodTable
<1>8. \A p, z : On(u, host, p, z) <=> In(v, p, z)
  BY <1>1 DEF On
<1>9. \A h, p, z : h # host => (On(u, h, p, z) <=> On(t, h, p, z))
  BY <1>1 DEF On
<1>10. \A y : Same(y, y)
  BY DEF Same, Like
<1>11. ASSUME NEW h, NEW p, NEW y, On(t, h, p, y) PROVE \E z : On(u, h, p, z) /\ Same(z, y)
  BY <1>4, <1>6, <1>8, <1>9, <1>10, <1>11
<1>12. ASSUME NEW h, NEW p, NEW z, On(u, h, p, z)
       PROVE  (\E y : On(t, h, p, y) /\ Same(y, z)) \/ (h = host /\ p = path /\ Same(z, x))
  BY <1>4, <1>6, <1>8, <1>9, <1>10, <1>12
<1>13. \E z : On(u, host, path, z) /\ z.service = d.service /\ z.url = d.dst /\ z.fixed = d.weight /\ z.source = d.source
  BY <1>2, <1>6, <1>8
<1> QED
  BY <1>7, <1>11, <1>12, <1>13 DEF u, host, path, x

(* What a del takes from a route in its scope. *)
Takes(d, x) == Selects(d, x) /\ (d.dst = Blank \/ x.url = d.dst)

\* Removing targets from a route leaves exactly those that the del does not take.
LEMMA RemovedTargets ==
  ASSUME NEW targets, IsTargets(targets), NEW d
  PROVE  LET left == remove_targets(targets, d)
         IN /\ IsTargets(left)
            /\ \A n \in DOMAIN left : \E k \in DOMAIN targets : left[n] = targets[k] /\ ~Takes(d, targets[k])
            /\ \A k \in DOMAIN targets : ~Takes(d, targets[k]) => \E n \in DOMAIN left : left[n] = targets[k]
<1> DEFINE I == {k \in DOMAIN targets : ~Takes(d, targets[k])}
           left == remove_targets(targets, d)
<1>1. left = Retain(targets, I)
  BY DEF remove_targets, Takes
<1>2. IsSeq(targets) /\ I \subseteq DOMAIN targets
  BY DEF IsTargets
<1>3. \A k \in I : k \in DOMAIN targets /\ ~Takes(d, targets[k]) /\ IsTarget(targets[k])
  BY DEF IsTargets
<1>4. \A k \in DOMAIN targets : ~Takes(d, targets[k]) => k \in I
  OBVIOUS
<1> HIDE DEF left, I
<1>5. /\ IsSeq(left)
      /\ \A n \in DOMAIN left : Nth(I, n) \in I /\ left[n] = targets[Nth(I, n)]
      /\ \A k \in I : \E n \in DOMAIN left : left[n] = targets[k]
  BY <1>1, <1>2, Retained
<1>6. IsTargets(left)
  BY <1>3, <1>5 DEF IsTargets
<1> QED
  BY <1>3, <1>4, <1>5, <1>6 DEF left

\* Routes stay well formed when each keeps its path.
LEMMA SamePaths ==
  ASSUME NEW s, IsRoutes(s), NEW v, v = [i \in DOMAIN s |-> v[i]],
         \A i \in DOMAIN s : v[i].path = s[i].path /\ IsTargets(v[i].targets)
  PROVE  IsRoutes(v) /\ DOMAIN v = DOMAIN s
<1>1. IsSeq(s) /\ DOMAIN s = 1 .. Len(s) /\ Len(s) \in Nat
  BY DEF IsRoutes, IsSeq
<1>2. DOMAIN v = 1 .. Len(s) /\ v = [i \in 1 .. Len(s) |-> v[i]]
  BY <1>1
<1>3. Len(v) = Len(s)
  BY <1>1, <1>2
<1>4. IsSeq(v)
  BY <1>1, <1>2, <1>3 DEF IsSeq
<1> QED
  BY <1>1, <1>2, <1>4 DEF IsRoutes

\* Dropping what is empty drops no target, and leaves a good table.
LEMMA DropEmptyOn ==
  ASSUME NEW t, \A h \in DOMAIN t : IsRoutes(t[h])
  PROVE  /\ GoodTable(DropEmpty(t))
         /\ \A h, p, x : On(DropEmpty(t), h, p, x) <=> On(t, h, p, x)
<1> DEFINE kept(h) == {i \in DOMAIN t[h] : t[h][i].targets # << >>}
           u == DropEmpty(t)
<1>1. u = [h \in {x \in DOMAIN t : kept(x) # {}} |-> Retain(t[h], kept(h))]
  BY DEF DropEmpty
<1> HIDE DEF u
<1>2. ASSUME NEW h \in DOMAIN u
      PROVE  /\ h \in DOMAIN t /\ kept(h) # {} /\ IsSeq(u[h]) /\ u[h] # << >>
             /\ \A n \in DOMAIN u[h] : Nth(kept(h), n) \in kept(h) /\ u[h][n] = t[h][Nth(kept(h), n)]
             /\ \A i \in kept(h) : \E n \in DOMAIN u[h] : u[h][n] = t[h][i]
             /\ \A m, n \in DOMAIN u[h] : Nth(kept(h), m) = Nth(kept(h), n) => m = n
  <2>1. h \in DOMAIN t /\ kept(h) # {} /\ u[h] = Retain(t[h], kept(h))
    BY <1>1
  <2>2. IsSeq(t[h]) /\ kept(h) \subseteq DOMAIN t[h]
    BY <2>1 DEF IsRoutes
  <2> HIDE DEF kept
  <2> QED
    BY <2>1, <2>2, Retained
<1>3. ASSUME NEW h \in DOMAIN u PROVE IsRoutes(u[h]) /\ Full(u[h])
  <2> DEFINE s == t[h]
             v == u[h]
             at(n) == Nth(kept(h), n)
  <2>1. IsRoutes(s)
    BY <1>2
  <2>2. \A i \in kept(h) : i \in DOMAIN s /\ s[i].targets # << >>
    OBVIOUS
  <2> HIDE DEF kept
  <2>3. /\ IsSeq(v) /\ v # << >>
        /\ \A n \in DOMAIN v : at(n) \in kept(h) /\ v[n] = s[at(n)]
        /\ \A m, n \in DOMAIN v : at(m) = at(n) => m = n
    BY <1>2
  <2> HIDE DEF s, v, at
  <2>4. \A n \in DOMAIN v : at(n) \in DOMAIN s /\ v[n] = s[at(n)] /\ v[n].targets # << >>
    BY <2>2, <2>3
  <2>5. \A n \in DOMAIN v : IsTargets(v[n].targets) /\ IsSeq(v[n].path)
    BY <2>1, <2>4 DEF IsRoutes
  <2>6. ASSUME NEW m \in DOMAIN v, NEW n \in DOMAIN v, v[m].path = v[n].path PROVE m = n
    <3>1. at(m) = at(n)
      BY <2>1, <2>4, <2>6 DEF IsRoutes
    <3> QED
      BY <2>3, <3>1
  <2>7. IsRoutes(v) /\ Full(v)
    BY <2>3, <2>4, <2>5, <2>6 DEF IsRoutes, Full
  <2> QED
    BY <2>7 DEF v
<1>4. ASSUME NEW h, NEW p, NEW x, On(u, h, p, x) PROVE On(t, h, p, x)
  <2>1. h \in DOMAIN u /\ In(u[h], p, x)
    BY <1>4 DEF On
  <2>2. PICK n \in DOMAIN u[h] : u[h][n].path = p /\ \E k \in DOMAIN u[h][n].targets : x = u[h][n].targets[k]
    BY <2>1 DEF In
  <2>3. Nth(kept(h), n) \in DOMAIN t[h] /\ u[h][n] = t[h][Nth(kept(h), n)] /\ h \in DOMAIN t
    BY <1>2, <2>1
  <2> HIDE DEF kept
  <2>4. In(t[h], p, x)
    BY <2>2, <2>3 DEF In
  <2> QED
    BY <2>3, <2>4 DEF On
<1>5. ASSUME NEW h, NEW p, NEW x, On(t, h, p, x) PROVE On(u, h, p, x)
  <2>1. h \in DOMAIN t /\ In(t[h], p, x)
    BY <1>5 DEF On
  <2>2. PICK i \in DOMAIN t[h] : t[h][i].path = p /\ \E k \in DOMAIN t[h][i].targets : x = t[h][i].targets[k]
    BY <2>1 DEF In
  <2>3. t[h][i].targets # << >>
    BY <2>2
  <2>4. i \in kept(h) /\ h \in DOMAIN u
    BY <1>1, <2>1, <2>3
  <2> HIDE DEF kept
  <2>5. \E n \in DOMAIN u[h] : u[h][n] = t[h][i]
    BY <1>2, <2>4
  <2>6. In(u[h], p, x)
    BY <2>2, <2>5 DEF In
  <2> QED
    BY <2>4, <2>6 DEF On
<1> QED
  BY <1>3, <1>4, <1>5 DEF GoodTable, u

\* A del on the table (apply_del): what is left is what it does not take.
LEMMA DelOn ==
  ASSUME NEW t, GoodTable(t), NEW d
  PROVE  LET u == apply_del(t, d)
             Gone(h, p, x) == InScope(d, h, p) /\ Takes(d, x)
         IN /\ GoodTable(u)
            /\ \A h, p, z : On(u, h, p, z) => \E y : On(t, h, p, y) /\ Same(y, z) /\ ~Gone(h, p, y)
            /\ \A h, p, y : On(t, h, p, y) /\ ~Gone(h, p, y) => \E z : On(u, h, p, z) /\ Same(z, y)
<1> DEFINE Left(h, r) == IF InScope(d, h, r.path) THEN Weighted(r.path, remove_targets(r.targets, d)) ELSE r
           g == [h \in DOMAIN t |-> [i \in DOMAIN t[h] |-> Left(h, t[h][i])]]
           Gone(h, p, x) == InScope(d, h, p) /\ Takes(d, x)
<1>1. apply_del(t, d) = DropEmpty(g)
  BY DEF apply_del
<1>2. ASSUME NEW h \in DOMAIN t, NEW i \in DOMAIN t[h]
      PROVE  LET r == t[h][i]
                 l == g[h][i]
             IN /\ l.path = r.path /\ IsTargets(l.targets)
                /\ \A n \in DOMAIN l.targets : \E k \in DOMAIN r.targets :
                        Same(r.targets[k], l.targets[n]) /\ ~Gone(h, r.path, r.targets[k])
                /\ \A k \in DOMAIN r.targets : ~Gone(h, r.path, r.targets[k]) =>
                        \E n \in DOMAIN l.targets : Same(l.targets[n], r.targets[k])
  <2> DEFINE r == t[h][i]
             l == g[h][i]
             left == remove_targets(r.targets, d)
  <2>1. IsTargets(r.targets)
    BY DEF GoodTable, IsRoutes
  <2>2. l = Left(h, r)
    OBVIOUS
  <2> HIDE DEF r, l, g
  <2>3. CASE InScope(d, h, r.path)
    <3>1. /\ IsTargets(left)
          /\ \A n \in DOMAIN left : \E k \in DOMAIN r.targets : left[n] = r.targets[k] /\ ~Takes(d, r.targets[k])
          /\ \A k \in DOMAIN r.targets : ~Takes(d, r.targets[k]) => \E n \in DOMAIN left : left[n] = r.targets[k]
      BY <2>1, RemovedTargets
    <3>2. l = Weighted(r.path, left)
      BY <2>2, <2>3
    <3> HIDE DEF left
    <3>3. /\ l.path = r.path /\ IsTargets(l.targets) /\ DOMAIN l.targets = DOMAIN left
          /\ \A n \in DOMAIN left : Same(l.targets[n], left[n])
      BY <3>1, <3>2, WeightedKeeps
    <3>4. \A n \in DOMAIN left : Same(left[n], l.targets[n])
      BY <3>3 DEF Same, Like
    <3>5. /\ l.path = r.path /\ IsTargets(l.targets)
          /\ \A n \in DOMAIN l.targets : \E k \in DOMAIN r.targets :
                  Same(r.targets[k], l.targets[n]) /\ ~Gone(h, r.path, r.targets[k])
          /\ \A k \in DOMAIN r.targets : ~Gone(h, r.path, r.targets[k]) =>
                  \E n \in DOMAIN l.targets : Same(l.targets[n], r.targets[k])
      BY <2>3, <3>1, <3>3, <3>4
    <3> QED
      BY <3>5 DEF r, l
  <2>4. CASE ~InScope(d, h, r.path)
    <3>1. l = r
      BY <2>2, <2>4
    <3>2. \A x : Same(x, x) /\ ~Gone(h, r.path, x)
      BY <2>4 DEF Same, Like
    <3>3. /\ l.path = r.path /\ IsTargets(l.targets)
          /\ \A n \in DOMAIN l.targets : \E k \in DOMAIN r.targets :
                  Same(r.targets[k], l.targets[n]) /\ ~Gone(h, r.path, r.targets[k])
          /\ \A k \in DOMAIN r.targets : ~Gone(h, r.path, r.targets[k]) =>
                  \E n \in DOMAIN l.targets : Same(l.targets[n], r.targets[k])
      BY <2>1, <3>1, <3>2
    <3> QED
      BY <3>3 DEF r, l
  <2> QED
    BY <2>3, <2>4
<1>3. DOMAIN g = DOMAIN t /\ \A h \in DOMAIN t : g[h] = [i \in DOMAIN t[h] |-> g[h][i]]
  OBVIOUS
<1> HIDE DEF g, Gone
<1>4. \A h \in DOMAIN t : IsRoutes(g[h]) /\ DOMAIN g[h] = DOMAIN t[h]
  BY <1>2, <1>3, SamePaths DEF GoodTable
<1>5. /\ GoodTable(DropEmpty(g))
      /\ \A h, p, x : On(DropEmpty(g), h, p, x) <=> On(g, h, p, x)
  BY <1>3, <1>4, DropEmptyOn
<1>6. ASSUME NEW h, NEW p, NEW z, On(g, h, p, z)
      PROVE  \E y : On(t, h, p, y) /\ Same(y, z) /\ ~Gone(h, p, y)
  <2>1. h \in DOMAIN t /\ In(g[h], p, z)
    BY <1>3, <1>6 DEF On
  <2>2. PICK i \in DOMAIN t[h] : g[h][i].path = p /\ \E n \in DOMAIN g[h][i].targets : z = g[h][i].targets[n]
    BY <1>4, <2>1 DEF In
  <2>3. t[h][i].path = p
    BY <1>2, <2>1, <2>2
  <2>4. \E k \in DOMAIN t[h][i].targets : Same(t[h][i].targets[k], z) /\ ~Gone(h, p, t[h][i].targets[k])
    BY <1>2, <2>1, <2>2, <2>3
  <2> QED
    BY <2>1, <2>3, <2>4 DEF On, In
<1>7. ASSUME NEW h, NEW p, NEW y, On(t, h, p, y), ~Gone(h, p, y)
      PROVE  \E z : On(g, h, p, z) /\ Same(z, y)
  <2>1. h \in DOMAIN t /\ In(t[h], p, y)
    BY <1>7 DEF On
  <2>2. PICK i \in DOMAIN t[h] : t[h][i].path = p /\ \E k \in DOMAIN t[h][i].targets : y = t[h][i].targets[k]
    BY <2>1 DEF In
  <2>3. g[h][i].path = p /\ \E n \in DOMAIN g[h][i].targets : Same(g[h][i].targets[n], y)
    BY <1>2, <1>7, <2>1, <2>2
  <2> QED
    BY <1>3, <1>4, <2>1, <2>3 DEF On, In
<1> QED
  BY <1>1, <1>5, <1>6, <1>7 DEF Gone

\* A weight command on the table (apply_weight): only fixed weights change,
\* and only on the route that it names.
LEMMA WeightOn ==
  ASSUME NEW t, GoodTable(t), NEW d
  PROVE  LET u == apply_weight(t, d)
             Kept(h, p, x, y) ==
                Like(x, y) /\ (x.fixed = y.fixed \/ (h = Lower[src_host(d)] /\ p = src_path(d)))
         IN /\ GoodTable(u)
            /\ \A h, p, z : On(u, h, p, z) => \E y : On(t, h, p, y) /\ Kept(h, p, y, z)
            /\ \A h, p, y : On(t, h, p, y) => \E z : On(u, h, p, z) /\ Kept(h, p, y, z)
<1> DEFINE host == Lower[src_host(d)]
           path == src_path(d)
           Shared(r) == [i \in DOMAIN r.targets |->
                            IF Selects(d, r.targets[i])
                            THEN [r.targets[i] EXCEPT
                                    !.fixed = d.weight \div Cardinality({k \in DOMAIN r.targets : Selects(d, r.targets[k])})]
                            ELSE r.targets[i]]
           Reweighted(r) == IF Cardinality({k \in DOMAIN r.targets : Selects(d, r.targets[k])}) = 0 THEN r
                            ELSE Weighted(r.path, Shared(r))
           u == apply_weight(t, d)
           Kept(h, p, x, y) == Like(x, y) /\ (x.fixed = y.fixed \/ (h = host /\ p = path))
<1>1. u = [h \in DOMAIN t |->
            IF h # host THEN t[h]
            ELSE [i \in DOMAIN t[h] |-> IF t[h][i].path = path THEN Reweighted(t[h][i]) ELSE t[h][i]]]
  BY DEF apply_weight
<1> HIDE DEF u
<1>2. ASSUME NEW r, IsTargets(r.targets)
      PROVE  IsTargets(Shared(r)) /\ DOMAIN Shared(r) = DOMAIN r.targets
             /\ \A k \in DOMAIN r.targets : Like(r.targets[k], Shared(r)[k])
  <2> DEFINE T == r.targets
             v == Shared(r)
             share == d.weight \div Cardinality({k \in DOMAIN T : Selects(d, T[k])})
  <2>1. v = [i \in DOMAIN T |-> IF Selects(d, T[i]) THEN [T[i] EXCEPT !.fixed = share] ELSE T[i]]
    OBVIOUS
  <2>2. IsSeq(T) /\ \A k \in DOMAIN T : IsTarget(T[k])
    BY <1>2 DEF IsTargets
  <2> HIDE DEF T, v, share, Shared
  <2>3. ASSUME NEW k \in DOMAIN T PROVE IsTarget(v[k]) /\ Like(T[k], v[k])
    <3> DEFINE x == T[k]
    <3>1. x = [service |-> x.service, url |-> x.url, fixed |-> x.fixed, weight |-> x.weight, tags |-> x.tags,
               opts |-> x.opts, source |-> x.source]
      BY <2>2 DEF IsTarget
    <3>2. v[k] = [x EXCEPT !.fixed = share] \/ v[k] = x
      BY <2>1
    <3> HIDE DEF x
    <3>3. v[k] = x \/ v[k] = [service |-> x.service, url |-> x.url, fixed |-> share, weight |-> x.weight,
                              tags |-> x.tags, opts |-> x.opts, source |-> x.source]
      BY <3>1, <3>2
    <3>4. CASE v[k] = x
      BY <2>2, <3>4 DEF Like, x
    <3>5. CASE v[k] = [service |-> x.service, url |-> x.url, fixed |-> share, weight |-> x.weight,
                       tags |-> x.tags, opts |-> x.opts, source |-> x.source]
      <4>1. IsTarget(v[k]) /\ Like(x, v[k])
        BY <3>5 DEF IsTarget, Like
      <4> QED
        BY <4>1 DEF x
    <3> QED
      BY <3>3, <3>4, <3>5
  <2>4. DOMAIN v = DOMAIN T /\ IsSeq(v)
    <3>1. DOMAIN T = 1 .. Len(T) /\ Len(T) \in Nat
      BY <2>2 DEF IsSeq
    <3>2. DOMAIN v = 1 .. Len(T) /\ v = [i \in 1 .. Len(T) |-> v[i]]
      BY <2>1, <3>1
    <3>3. Len(v) = Len(T)
      BY <3>1, <3>2
    <3> QED
      BY <3>1, <3>2, <3>3 DEF IsSeq
  <2>5. IsTargets(v) /\ DOMAIN v = DOMAIN T /\ \A k \in DOMAIN T : Like(T[k], v[k])
    BY <2>3, <2>4 DEF IsTargets
  <2> QED
    BY <2>5 DEF T, v
<1> HIDE DEF Shared
<1>3. ASSUME NEW r, IsTargets(r.targets)
      PROVE  LET w == Reweighted(r)
             IN /\ w.path = r.path /\ IsTargets(w.targets) /\ DOMAIN w.targets = DOMAIN r.targets
                /\ \A k \in DOMAIN r.targets : Like(r.targets[k], w.targets[k])
  <2>1. CASE Reweighted(r) = r
    BY <1>3, <2>1 DEF Like
  <2>2. CASE Reweighted(r) = Weighted(r.path, Shared(r))
    <3> DEFINE w == Reweighted(r)
               v == Shared(r)
    <3>1. IsTargets(v) /\ DOMAIN v = DOMAIN r.targets /\ \A k \in DOMAIN r.targets : Like(r.targets[k], v[k])
      BY <1>2, <1>3
    <3>2. w = Weighted(r.path, v)
      BY <2>2
    <3> HIDE DEF v, w, Reweighted
    <3>3. /\ w.path = r.path /\ IsTargets(w.targets) /\ DOMAIN w.targets = DOMAIN v
          /\ \A k \in DOMAIN v : Same(w.targets[k], v[k])
      BY <3>1, <3>2, WeightedKeeps
    <3>4. \A k \in DOMAIN r.targets : Like(r.targets[k], w.targets[k])
      BY <3>1, <3>3 DEF Same, Like
    <3> QED
      BY <3>1, <3>3, <3>4 DEF w
  <2> QED
    BY <2>1, <2>2
<1>4. ASSUME NEW h \in DOMAIN t, NEW i \in DOMAIN t[h]
      PROVE  LET r == t[h][i]
                 w == u[h][i]
             IN /\ w.path = r.path /\ IsTargets(w.targets) /\ DOMAIN w.targets = DOMAIN r.targets
                /\ \A k \in DOMAIN r.targets : Kept(h, r.path, r.targets[k], w.targets[k])
  <2>1. IsTargets(t[h][i].targets)
    BY DEF GoodTable, IsRoutes
  <2>2. u[h][i] = IF h = host /\ t[h][i].path = path THEN Reweighted(t[h][i]) ELSE t[h][i]
    BY <1>1
  <2> DEFINE r == t[h][i]
             w == u[h][i]
  <2>3. CASE h = host /\ r.path = path
    <3>1. w = Reweighted(r)
      BY <2>2, <2>3
    <3> HIDE DEF r, w, Reweighted
    <3>2. /\ w.path = r.path /\ IsTargets(w.targets) /\ DOMAIN w.targets = DOMAIN r.targets
          /\ \A k \in DOMAIN r.targets : Like(r.targets[k], w.targets[k])
      BY <1>3, <2>1, <3>1 DEF r
    <3> QED
      BY <2>3, <3>2 DEF r, w
  <2>4. CASE ~(h = host /\ r.path = path)
    <3>1. w = r
      BY <2>2, <2>4
    <3> QED
      BY <2>1, <3>1 DEF Like
  <2> QED
    BY <2>3, <2>4
<1>5. DOMAIN u = DOMAIN t /\ \A h \in DOMAIN t : u[h] = [i \in DOMAIN t[h] |-> u[h][i]]
  <2>1. ASSUME NEW h \in DOMAIN t PROVE u[h] = [i \in DOMAIN t[h] |-> u[h][i]]
    <3>1. t[h] = [i \in DOMAIN t[h] |-> t[h][i]]
      BY DEF GoodTable, IsRoutes, IsSeq
    <3> HIDE DEF Reweighted
    <3> QED
      BY <1>1, <3>1
  <2> QED
    BY <1>1, <2>1
<1> HIDE DEF Kept, host, path
<1>6. \A h \in DOMAIN t : IsRoutes(u[h]) /\ DOMAIN u[h] = DOMAIN t[h]
  BY <1>4, <1>5, SamePaths DEF GoodTable
<1>7. ASSUME NEW h \in DOMAIN t PROVE Full(u[h])
  <2>1. t[h] # << >> /\ \A i \in DOMAIN t[h] : t[h][i].targets # << >> /\ IsTargets(t[h][i].targets)
    BY DEF GoodTable, Full, IsRoutes
  <2>2. DOMAIN t[h] # {}
    BY <2>1 DEF GoodTable, IsRoutes, IsSeq
  <2>3. u[h] # << >>
    BY <1>6, <2>2
  <2>4. ASSUME NEW i \in DOMAIN t[h] PROVE u[h][i].targets # << >>
    <3> DEFINE T == t[h][i].targets
    <3>0. T # << >> /\ IsSeq(T)
      BY <2>1 DEF IsTargets
    <3> HIDE DEF T
    <3>1. DOMAIN T # {}
      BY <3>0, NotEmpty
    <3> USE DEF T
    <3>2. DOMAIN u[h][i].targets # {}
      BY <1>4, <3>1
    <3> QED
      BY <3>2
  <2> QED
    BY <1>6, <2>3, <2>4 DEF Full
<1>8. ASSUME NEW h, NEW p, NEW z, On(u, h, p, z)
      PROVE  \E y : On(t, h, p, y) /\ Kept(h, p, y, z)
  <2>1. h \in DOMAIN t /\ In(u[h], p, z)
    BY <1>5, <1>8 DEF On
  <2>2. PICK i \in DOMAIN t[h] : u[h][i].path = p /\ \E k \in DOMAIN u[h][i].targets : z = u[h][i].targets[k]
    BY <1>6, <2>1 DEF In
  <2>3. t[h][i].path = p /\ \E k \in DOMAIN t[h][i].targets : Kept(h, p, t[h][i].targets[k], z)
    BY <1>4, <2>1, <2>2
  <2> QED
    BY <2>1, <2>3 DEF On, In
<1>9. ASSUME NEW h, NEW p, NEW y, On(t, h, p, y)
      PROVE  \E z : On(u, h, p, z) /\ Kept(h, p, y, z)
  <2>1. h \in DOMAIN t /\ In(t[h], p, y)
    BY <1>9 DEF On
  <2>2. PICK i \in DOMAIN t[h] : t[h][i].path = p /\ \E k \in DOMAIN t[h][i].targets : y = t[h][i].targets[k]
    BY <2>1 DEF In
  <2>3. u[h][i].path = p /\ \E k \in DOMAIN u[h][i].targets : Kept(h, p, y, u[h][i].targets[k])
    BY <1>4, <2>1, <2>2
  <2> QED
    BY <1>5, <1>6, <2>1, <2>3 DEF On, In
<1>10. GoodTable(u)
  BY <1>5, <1>6, <1>7 DEF GoodTable
<1> QED
  BY <1>8, <1>9, <1>10 DEF Kept, host, path, u

(* The routes of every host are in order. *)
RoutesInOrder(t) ==
    \A h \in DOMAIN t : \A i, j \in DOMAIN t[h] : i < j => ~MoreSpecific(t[h][j], t[h][i])

\* Sorting changes nothing but the order of the routes (finalize).
LEMMA SortOn ==
  ASSUME NEW t, GoodTable(t), NEW u \in finalize(t)
  PROVE  /\ GoodTable(u) /\ RoutesInOrder(u)
         /\ \A h, p, x : On(u, h, p, x) <=> On(t, h, p, x)
<1>1. DOMAIN u = DOMAIN t /\ \A h \in DOMAIN t : u[h] \in Sorted(t[h])
  BY DEF finalize
<1>2. ASSUME NEW h \in DOMAIN t
      PROVE  /\ IsRoutes(u[h]) /\ Full(u[h])
             /\ \A i, j \in DOMAIN u[h] : i < j => ~MoreSpecific(u[h][j], u[h][i])
             /\ \A p, x : In(u[h], p, x) <=> In(t[h], p, x)
  <2> DEFINE s == t[h]
             v == u[h]
  <2>1. v \in Sorted(s) /\ IsRoutes(s) /\ Full(s)
    BY <1>1 DEF GoodTable
  <2> HIDE DEF s, v
  <2>2. /\ v \in {[i \in DOMAIN s |-> s[p[i]]] : p \in Bijection(DOMAIN s, DOMAIN s)}
        /\ \A i, j \in DOMAIN v : i < j => ~MoreSpecific(v[j], v[i])
    BY <2>1 DEF Sorted
  <2>3. PICK p \in Bijection(DOMAIN s, DOMAIN s) : v = [i \in DOMAIN s |-> s[p[i]]]
    BY <2>2
  <2>4. /\ \A i \in DOMAIN s : p[i] \in DOMAIN s
        /\ \A i, j \in DOMAIN s : p[i] = p[j] => i = j
        /\ \A j \in DOMAIN s : \E i \in DOMAIN s : p[i] = j
    BY DEF Bijection, Injection, Surjection, IsInjective
  <2>5. DOMAIN v = DOMAIN s /\ \A i \in DOMAIN s : v[i] = s[p[i]]
    BY <2>3
  <2>6. IsSeq(v)
    <3>1. DOMAIN s = 1 .. Len(s) /\ Len(s) \in Nat
      BY <2>1 DEF IsRoutes, IsSeq
    <3>2. v = [i \in 1 .. Len(s) |-> v[i]]
      BY <2>3, <3>1
    <3>3. Len(v) = Len(s)
      BY <3>1, <3>2
    <3> QED
      BY <3>1, <3>2, <3>3 DEF IsSeq
  <2>7. ASSUME NEW i \in DOMAIN v
        PROVE  IsTargets(v[i].targets) /\ IsSeq(v[i].path) /\ v[i].targets # << >>
    <3>1. p[i] \in DOMAIN s /\ v[i] = s[p[i]]
      BY <2>4, <2>5
    <3>2. \A j \in DOMAIN s : IsTargets(s[j].targets) /\ IsSeq(s[j].path) /\ s[j].targets # << >>
      BY <2>1 DEF IsRoutes, Full
    <3> QED
      BY <3>1, <3>2
  <2>8. ASSUME NEW i \in DOMAIN v, NEW j \in DOMAIN v, v[i].path = v[j].path PROVE i = j
    <3>1. s[p[i]].path = s[p[j]].path /\ p[i] \in DOMAIN s /\ p[j] \in DOMAIN s
      BY <2>4, <2>5, <2>8
    <3>2. p[i] = p[j]
      BY <2>1, <3>1 DEF IsRoutes
    <3> QED
      BY <2>4, <2>5, <3>2
  <2>9. v # << >>
    <3>1. DOMAIN s # {}
      BY <2>1 DEF Full, IsRoutes, IsSeq
    <3> QED
      BY <2>5, <3>1
  <2>10. \A q, x : In(v, q, x) <=> In(s, q, x)
    <3>1. ASSUME NEW q, NEW x, In(v, q, x) PROVE In(s, q, x)
      <4>1. PICK i \in DOMAIN v : v[i].path = q /\ \E k \in DOMAIN v[i].targets : x = v[i].targets[k]
        BY <3>1 DEF In
      <4>2. p[i] \in DOMAIN s /\ v[i] = s[p[i]]
        BY <2>4, <2>5
      <4> QED
        BY <4>1, <4>2 DEF In
    <3>2. ASSUME NEW q, NEW x, In(s, q, x) PROVE In(v, q, x)
      <4>1. PICK j \in DOMAIN s : s[j].path = q /\ \E k \in DOMAIN s[j].targets : x = s[j].targets[k]
        BY <3>2 DEF In
      <4>2. PICK i \in DOMAIN s : p[i] = j
        BY <2>4
      <4>3. i \in DOMAIN v /\ v[i] = s[j]
        BY <2>5, <4>2
      <4> QED
        BY <4>1, <4>3 DEF In
    <3> QED
      BY <3>1, <3>2
  <2>11. IsRoutes(v) /\ Full(v)
    BY <2>6, <2>7, <2>8, <2>9 DEF IsRoutes, Full
  <2> QED
    BY <2>2, <2>10, <2>11 DEF v, s
<1> QED
  BY <1>1, <1>2 DEF GoodTable, RoutesInOrder, On

----------------------------------------------------------------------------
(***************************************************************************)
(* The parser: a line that says a command is parsed to what it means.      *)
(***************************************************************************)

\* What concatenation returns.
LEMMA Joined ==
  ASSUME NEW s, IsSeq(s), NEW v, IsSeq(v)
  PROVE  /\ s \o v = [i \in 1 .. Len(s) + Len(v) |-> IF i <= Len(s) THEN s[i] ELSE v[i - Len(s)]]
         /\ IsSeq(s \o v) /\ Len(s \o v) = Len(s) + Len(v)
<1> DEFINE S == {s[i] : i \in 1 .. Len(s)} \cup {v[i] : i \in 1 .. Len(v)}
<1>1. s \in [1 .. Len(s) -> S] /\ Len(s) \in Nat /\ v \in [1 .. Len(v) -> S] /\ Len(v) \in Nat
  BY DEF IsSeq
<1> HIDE DEF S
<1>2. s \in Seq(S) /\ v \in Seq(S)
  BY <1>1, SeqDef
<1> DEFINE u == s \o v
<1>3. /\ u \in Seq(S) /\ Len(u) = Len(s) + Len(v)
      /\ \A i \in 1 .. Len(s) + Len(v) : u[i] = IF i <= Len(s) THEN s[i] ELSE v[i - Len(s)]
  BY <1>2, ConcatProperties
<1> HIDE DEF u
<1>4. u = [i \in 1 .. Len(u) |-> u[i]]
  BY <1>3
<1>5. u = [i \in 1 .. Len(s) + Len(v) |-> IF i <= Len(s) THEN s[i] ELSE v[i - Len(s)]]
  BY <1>3, <1>4
<1>6. IsSeq(u) /\ Len(u) = Len(s) + Len(v)
  BY <1>1, <1>3, <1>4 DEF IsSeq
<1> QED
  BY <1>5, <1>6 DEF u

\* A keyword is looked for at each position but those that a keyword just
\* before took as its argument.
LEMMA KeywordStep ==
  ASSUME NEW tokens, NEW first \in Nat, NEW keys, Len(tokens) \in Nat,
         NEW i \in first .. Len(tokens)
  PROVE  LET P == KeywordPositions(tokens, first, keys)
         IN i \in P <=> i = first \/ ~(i - 1 \in P /\ tokens[i - 1] \in keys)
<1> DEFINE Row(k) == {m \in first .. k : \A j \in m .. k - 1 : tokens[j] \in keys}
           P == KeywordPositions(tokens, first, keys)
<1>1. \A k : k \in P <=> k \in first .. Len(tokens) /\ (k - Min(Row(k))) % 2 = 0
  BY DEF KeywordPositions
<1> HIDE DEF P
<1>2. ASSUME NEW k \in first .. Len(tokens)
      PROVE  Row(k) \subseteq Nat /\ k \in Row(k) /\ Min(Row(k)) \in Row(k) /\ \A m \in Row(k) : Min(Row(k)) <= m
  <2>1. Row(k) \subseteq Nat /\ k \in Row(k)
    OBVIOUS
  <2> HIDE DEF Row
  <2> QED
    BY <2>1, LeastPosition
<1>3. CASE i = first
  <2>1. Row(i) = {i}
    BY <1>3
  <2>2. Min(Row(i)) = i
    BY <1>2, <2>1
  <2> HIDE DEF Row
  <2>3. i \in P
    BY <1>1, <2>2
  <2> QED
    BY <1>3, <2>3 DEF P
<1>4. CASE i # first /\ tokens[i - 1] \notin keys
  <2>1. \A m \in Row(i) : m = i
    BY <1>4
  <2>2. Min(Row(i)) = i
    BY <1>2, <2>1
  <2> HIDE DEF Row
  <2>3. i \in P
    BY <1>1, <2>2
  <2> QED
    BY <1>4, <2>3 DEF P
<1>5. CASE i # first /\ tokens[i - 1] \in keys
  <2>1. i - 1 \in first .. Len(tokens)
    BY <1>5
  <2>2. ASSUME NEW m \in Nat, m # i PROVE m \in Row(i) <=> m \in Row(i - 1)
    <3>1. m \in Row(i) <=> m \in first .. i /\ \A j \in m .. i - 1 : tokens[j] \in keys
      OBVIOUS
    <3>2. m \in Row(i - 1) <=> m \in first .. i - 1 /\ \A j \in m .. i - 1 - 1 : tokens[j] \in keys
      OBVIOUS
    <3>3. m \in first .. i <=> m \in first .. i - 1
      BY <2>2
    <3>4. ASSUME m \in first .. i - 1 PROVE \A j : j \in m .. i - 1 <=> j \in m .. i - 1 - 1 \/ j = i - 1
      BY <3>4
    <3> HIDE DEF Row
    <3> QED
      BY <1>5, <3>1, <3>2, <3>3, <3>4
  <2> DEFINE a == Min(Row(i))
             b == Min(Row(i - 1))
  <2>3. a \in Row(i) /\ b \in Row(i - 1) /\ i - 1 \in Row(i - 1)
    BY <1>2, <2>1
  <2>4. a \in Nat /\ b \in Nat /\ b <= i - 1 /\ (\A m \in Row(i) : a <= m) /\ (\A m \in Row(i - 1) : b <= m)
    BY <1>2, <2>1, <2>3
  <2>5. b \in Row(i)
    <3> HIDE DEF Row, b
    <3>1. b # i
      BY <2>1, <2>4
    <3> QED
      BY <2>2, <2>3, <2>4, <3>1
  <2>6. a <= b /\ a # i
    BY <2>4, <2>5
  <2>7. a \in Row(i - 1)
    BY <2>2, <2>3, <2>4, <2>6
  <2> HIDE DEF Row
  <2>8. a = b
    BY <2>4, <2>6, <2>7
  <2> HIDE DEF a, b
  <2>9. i \in P <=> (i - a) % 2 = 0
    BY <1>1 DEF a
  <2>10. i - 1 \in P <=> (i - 1 - a) % 2 = 0
    BY <1>1, <2>1, <2>8 DEF b
  <2>11. (i - a) % 2 = 0 <=> ~((i - 1 - a) % 2 = 0)
    BY <2>4
  <2> QED
    BY <1>5, <2>9, <2>10, <2>11 DEF P
<1> QED
  BY <1>3, <1>4, <1>5

\* Where keywords and arguments alternate, the keywords are found.
LEMMA KeywordsAlternate ==
  ASSUME NEW tokens, NEW first \in Nat, NEW keys, Len(tokens) \in Nat,
         \A j \in first .. Len(tokens) : (j - first) % 2 = 0 => tokens[j] \in keys
  PROVE  KeywordPositions(tokens, first, keys) = {i \in first .. Len(tokens) : (i - first) % 2 = 0}
<1> DEFINE Row(k) == {m \in first .. k : \A j \in m .. k - 1 : tokens[j] \in keys}
<1>1. ASSUME NEW i \in first .. Len(tokens) PROVE (i - Min(Row(i))) % 2 = (i - first) % 2
  <2> DEFINE a == Min(Row(i))
  <2>1. Row(i) \subseteq Nat /\ i \in Row(i)
    OBVIOUS
  <2>2. a \in Row(i) /\ \A m \in Row(i) : a <= m
    <3> HIDE DEF Row
    <3> QED
      BY <2>1, LeastPosition
  <2>3. a \in first .. i /\ \A j \in a .. i - 1 : tokens[j] \in keys
    BY <2>2
  <2>4. CASE a = first
    BY <2>4
  <2>5. CASE a # first
    <3>1. a - 1 \in first .. i /\ a \in Nat
      BY <2>3, <2>5
    <3>2. a - 1 \notin Row(i)
      <4> HIDE DEF Row, a
      <4> QED
        BY <2>2, <3>1
    <3>3. ASSUME tokens[a - 1] \in keys PROVE FALSE
      <4>1. \A j \in a - 1 .. i - 1 : tokens[j] \in keys
        <5> HIDE DEF a
        <5>1. ASSUME NEW j \in a - 1 .. i - 1 PROVE j = a - 1 \/ j \in a .. i - 1
          BY <3>1
        <5> QED
          BY <2>3, <3>3, <5>1
      <4> QED
        BY <3>1, <3>2, <4>1
    <3> HIDE DEF a
    <3>4. (a - 1 - first) % 2 # 0
      BY <3>1, <3>3
    <3>5. (a - first) % 2 = 0
      BY <3>1, <3>4
    <3>6. (i - a) % 2 = (i - first) % 2
      BY <3>1, <3>5
    <3> QED
      BY <3>6 DEF a
  <2> QED
    BY <2>4, <2>5
<1> HIDE DEF Row
<1>2. KeywordPositions(tokens, first, keys) = {i \in first .. Len(tokens) : (i - Min(Row(i))) % 2 = 0}
  BY DEF KeywordPositions, Row
<1> QED
  BY <1>1, <1>2

\* The options of a command, in any order: each stands once.
LEMMA OrdersList ==
  ASSUME NEW c, NEW f \in Orders(c)
  PROVE  LET n == Cardinality(Options(c))
         IN /\ n \in Nat /\ f \in [1 .. n -> Options(c)]
            /\ \A i, j \in 1 .. n : f[i] = f[j] => i = j
            /\ \A o \in Options(c) : \E i \in 1 .. n : f[i] = o
<1> DEFINE K == {o \in {"weight", "tags", "opts"} : c[o] # Blank}
           n == Cardinality(Options(c))
<1>1. IsFiniteSet(Options(c))
  <2>1. IsFiniteSet({"weight", "tags", "opts"})
    <3>1. IsFiniteSet({"weight"})
      BY FS_Singleton
    <3>2. IsFiniteSet({"weight"} \cup {"tags"})
      BY <3>1, FS_AddElement
    <3>3. IsFiniteSet({"weight"} \cup {"tags"} \cup {"opts"})
      BY <3>2, FS_AddElement
    <3>4. {"weight"} \cup {"tags"} \cup {"opts"} = {"weight", "tags", "opts"}
      OBVIOUS
    <3> QED
      BY <3>3, <3>4
  <2>2. K \in SUBSET {"weight", "tags", "opts"}
    OBVIOUS
  <2> HIDE DEF K
  <2>3. IsFiniteSet(K)
    BY <2>1, <2>2, FS_Subset
  <2> DEFINE g == [k \in K |-> <<k, c[k]>>]
             R == Options(c)
  <2>4. R = {<<k, c[k]>> : k \in K}
    BY DEF Options, K
  <2> HIDE DEF R
  <2>5. g \in Surjection(K, R)
    BY <2>4 DEF Surjection
  <2> HIDE DEF g
  <2>6. IsFiniteSet(R)
    BY <2>3, <2>5, FS_Surjection
  <2> QED
    BY <2>6 DEF R
<1>2. n \in Nat
  BY <1>1, FS_CardinalityType
<1>3. f \in [1 .. n -> Options(c)] /\ \A i, j \in 1 .. n : f[i] = f[j] => i = j
  BY DEF Orders
<1>4. IsFiniteSet(1 .. n) /\ Cardinality(1 .. n) = n
  BY <1>2, FS_Interval
<1>5. f \in Injection(1 .. n, Options(c))
  BY <1>3 DEF Injection, IsInjective
<1>6. f \in Surjection(1 .. n, Options(c))
  BY <1>1, <1>4, <1>5, FS_Injection
<1>7. \A o \in Options(c) : \E i \in 1 .. n : f[i] = o
  BY <1>6 DEF Surjection
<1> QED
  BY <1>2, <1>3, <1>7

OptionNames == {"weight", "tags", "opts"}

(* The options in the order f stand behind the first p words. *)
Listed(c, f, tokens, p) ==
    LET n == Cardinality(Options(c))
    IN /\ f \in Orders(c) /\ Len(tokens) = p + 2 * n
       /\ \A i \in 1 .. n : tokens[p + 2 * i - 1] = f[i][1] /\ tokens[p + 2 * i] = f[i][2]

\* An option that a command has is found, with its argument, and no other.
LEMMA OptionsRead ==
  ASSUME NEW c, NEW f, NEW tokens, NEW p \in Nat, Listed(c, f, tokens, p),
         NEW keys, {o \in OptionNames : c[o] # Blank} \subseteq keys,
         NEW key \in OptionNames
  PROVE  /\ c[key] = Blank => Arguments(tokens, p + 1, keys, key) = {}
         /\ c[key] # Blank => \E a \in Nat : Arguments(tokens, p + 1, keys, key) = {a} /\ tokens[a] = c[key]
<1> DEFINE A == Arguments(tokens, p + 1, keys, key)
           P == KeywordPositions(tokens, p + 1, keys)
           n == Cardinality(Options(c))
           len == Len(tokens)
<1>0. /\ f \in Orders(c) /\ len = p + 2 * n
      /\ \A i \in 1 .. n : tokens[p + 2 * i - 1] = f[i][1] /\ tokens[p + 2 * i] = f[i][2]
  BY DEF Listed
<1>1. /\ n \in Nat /\ f \in [1 .. n -> Options(c)]
      /\ \A i, j \in 1 .. n : f[i] = f[j] => i = j
      /\ \A o \in Options(c) : \E i \in 1 .. n : f[i] = o
  BY <1>0, OrdersList
<1>a. P = KeywordPositions(tokens, p + 1, keys) /\ A = {j + 1 : j \in {k \in P : tokens[k] = key /\ k < len}}
  BY DEF Arguments
<1> HIDE DEF n, len, A, P
<1>2. ASSUME NEW i \in 1 .. n PROVE f[i][1] \in OptionNames /\ f[i][2] = c[f[i][1]] /\ c[f[i][1]] # Blank /\ f[i] = <<f[i][1], f[i][2]>>
  <2>1. f[i] \in Options(c)
    BY <1>1
  <2>2. PICK k \in {o \in OptionNames : c[o] # Blank} : f[i] = <<k, c[k]>>
    BY <2>1 DEF Options, OptionNames
  <2> QED
    BY <2>2
<1>3. ASSUME NEW j \in p + 1 .. len, (j - (p + 1)) % 2 = 0
      PROVE  \E i \in 1 .. n : j = p + 2 * i - 1
  <2> DEFINE m == (j - (p + 1)) \div 2
  <2>1. j \in Int /\ p + 1 <= j /\ j <= p + 2 * n
    BY <1>0, <1>1, <1>3
  <2>2. m + 1 \in 1 .. n /\ j = p + 2 * (m + 1) - 1
    BY <1>1, <1>3, <2>1
  <2> QED
    BY <2>2
<1>4. P = {j \in p + 1 .. len : (j - (p + 1)) % 2 = 0}
  <2>1. \A j \in p + 1 .. len : (j - (p + 1)) % 2 = 0 => tokens[j] \in keys
    <3>1. ASSUME NEW j \in p + 1 .. len, (j - (p + 1)) % 2 = 0 PROVE tokens[j] \in keys
      <4>1. PICK i \in 1 .. n : j = p + 2 * i - 1
        BY <1>3, <3>1
      <4>2. tokens[j] = f[i][1] /\ f[i][1] \in OptionNames /\ c[f[i][1]] # Blank
        BY <1>0, <1>2, <4>1
      <4> QED
        BY <4>2
    <3> QED
      BY <3>1
  <2>2. len \in Nat /\ p + 1 \in Nat
    BY <1>0, <1>1
  <2> QED
    BY <1>a, <2>1, <2>2, KeywordsAlternate DEF len
<1>5. A = {j + 1 : j \in {k \in P : tokens[k] = key /\ k < len}}
  BY <1>a
<1>6. ASSUME NEW a \in A PROVE \E i \in 1 .. n : a = p + 2 * i /\ f[i][1] = key
  <2>1. PICK j \in P : tokens[j] = key /\ a = j + 1
    BY <1>5
  <2>2. PICK i \in 1 .. n : j = p + 2 * i - 1
    BY <1>3, <1>4, <2>1
  <2>3. a = p + 2 * i /\ f[i][1] = key
    <3>1. i \in Nat
      BY <1>1
    <3> QED
      BY <1>0, <2>1, <2>2, <3>1
  <2> QED
    BY <2>3
<1>7. ASSUME NEW i \in 1 .. n, f[i][1] = key PROVE p + 2 * i \in A
  <2> DEFINE j == p + 2 * i - 1
  <2>1. j \in p + 1 .. len /\ j < len /\ j + 1 = p + 2 * i
    BY <1>0, <1>1
  <2>2. (j - (p + 1)) % 2 = 0
    <3>1. j - (p + 1) = 2 * (i - 1) /\ i - 1 \in Nat
      BY <1>1
    <3> QED
      BY <3>1
  <2>3. tokens[j] = key
    BY <1>0, <1>7
  <2> HIDE DEF j
  <2> QED
    BY <1>4, <1>5, <2>1, <2>2, <2>3
<1>8. ASSUME c[key] = Blank PROVE A = {}
  BY <1>2, <1>6, <1>8
<1>9. ASSUME c[key] # Blank PROVE \E a \in Nat : A = {a} /\ tokens[a] = c[key]
  <2>1. <<key, c[key]>> \in Options(c)
    BY <1>9 DEF Options, OptionNames
  <2>2. PICK i \in 1 .. n : f[i] = <<key, c[key]>>
    BY <1>1, <2>1
  <2>3. f[i][1] = key /\ f[i][2] = c[key]
    BY <2>2
  <2>4. p + 2 * i \in A /\ p + 2 * i \in Nat /\ tokens[p + 2 * i] = c[key]
    <3>1. i \in Nat
      BY <1>1
    <3>2. p + 2 * i \in A
      BY <1>7, <2>3
    <3>3. tokens[p + 2 * i] = c[key]
      BY <1>0, <2>3
    <3> QED
      BY <3>1, <3>2, <3>3
  <2>5. ASSUME NEW a \in A PROVE a = p + 2 * i
    <3>1. PICK m \in 1 .. n : a = p + 2 * m /\ f[m][1] = key
      BY <1>6
    <3>2. f[m] = <<key, c[key]>>
      BY <1>2, <3>1
    <3>3. m = i
      BY <1>1, <2>2, <3>2
    <3> QED
      BY <3>1, <3>3
  <2>6. A = {p + 2 * i}
    BY <2>4, <2>5
  <2> QED
    BY <2>4, <2>6
<1> QED
  BY <1>8, <1>9 DEF A

\* The greatest of one.
LEMMA MaxOfOne ==
  ASSUME NEW a \in Nat
  PROVE  Max({a}) = a
<1>1. Max({a}) = CHOOSE x \in {a} : \A y \in {a} : x >= y
  BY DEF Max
<1>2. a >= a
  OBVIOUS
<1>3. \E x \in {a} : \A y \in {a} : x >= y
  BY <1>2
<1> QED
  BY <1>1, <1>3

\* What the values of the options are read as.
LEMMA ValuesRead ==
  ASSUME NEW c, NEW tokens, NEW first, NEW keys,
         \A key \in OptionNames :
            /\ c[key] = Blank => Arguments(tokens, first, keys, key) = {}
            /\ c[key] # Blank => \E a \in Nat : Arguments(tokens, first, keys, key) = {a} /\ tokens[a] = c[key]
  PROVE  /\ ParseWeight(tokens, first, keys) = Meaning(c).weight
         /\ ParseTags(tokens, first, keys) = Meaning(c).tags
         /\ c.opts \in DOMAIN OptsOf \cup {Blank} => ParseOpts(tokens, first, keys) = Meaning(c).opts
<1>1. \A a \in Nat : Max({a}) = a
  BY MaxOfOne
<1>2. ParseWeight(tokens, first, keys) = Meaning(c).weight
  <2> DEFINE A == Arguments(tokens, first, keys, "weight")
             valid == {i \in A : tokens[i] \in Weights}
  <2>0. Meaning(c).weight = IF c.weight \in Weights THEN WeightOf[c.weight] ELSE 0
    BY DEF Meaning
  <2>1. ParseWeight(tokens, first, keys) = IF valid = {} THEN 0 ELSE WeightOf[tokens[Max(valid)]]
    BY DEF ParseWeight
  <2>2. /\ c.weight = Blank => A = {}
        /\ c.weight # Blank => \E a \in Nat : A = {a} /\ tokens[a] = c.weight
    BY DEF OptionNames
  <2> HIDE DEF A
  <2>3. CASE c.weight = Blank
    <3>1. valid = {}
      BY <2>2, <2>3
    <3>2. Blank \notin Weights
      BY CommandsAssumption DEF Weights
    <3> QED
      BY <2>0, <2>1, <2>3, <3>1, <3>2
  <2>4. CASE c.weight # Blank
    <3>1. PICK a \in Nat : A = {a} /\ tokens[a] = c.weight
      BY <2>2, <2>4
    <3>2. CASE c.weight \in Weights
      <4>1. valid = {a}
        BY <3>1, <3>2
      <4> HIDE DEF valid
      <4>2. valid # {} /\ Max(valid) = a
        BY <1>1, <4>1
      <4> QED
        BY <2>0, <2>1, <3>1, <3>2, <4>2
    <3>3. CASE c.weight \notin Weights
      <4>1. valid = {}
        BY <3>1, <3>3
      <4> QED
        BY <2>0, <2>1, <3>3, <4>1
    <3> QED
      BY <3>2, <3>3
  <2> QED
    BY <2>3, <2>4
<1>3. ParseTags(tokens, first, keys) = Meaning(c).tags
  <2> DEFINE A == Arguments(tokens, first, keys, "tags")
  <2>0. Meaning(c).tags = IF c.tags = Blank THEN {} ELSE TagsOf[c.tags]
    BY DEF Meaning
  <2>1. ParseTags(tokens, first, keys) = IF A = {} THEN {} ELSE TagsOf[tokens[Max(A)]]
    BY DEF ParseTags
  <2>2. /\ c.tags = Blank => A = {}
        /\ c.tags # Blank => \E a \in Nat : A = {a} /\ tokens[a] = c.tags
    BY DEF OptionNames
  <2> HIDE DEF A
  <2>3. CASE c.tags = Blank
    BY <2>0, <2>1, <2>2, <2>3
  <2>4. CASE c.tags # Blank
    <3>1. PICK a \in Nat : A = {a} /\ tokens[a] = c.tags
      BY <2>2, <2>4
    <3>2. A # {} /\ Max(A) = a
      BY <1>1, <3>1
    <3> QED
      BY <2>0, <2>1, <2>4, <3>1, <3>2
  <2> QED
    BY <2>3, <2>4
<1>4. ASSUME c.opts \in DOMAIN OptsOf \cup {Blank} PROVE ParseOpts(tokens, first, keys) = Meaning(c).opts
  <2> DEFINE A == Arguments(tokens, first, keys, "opts")
             Setting(o) == {i \in A : o \in DOMAIN OptsOf[tokens[i]]}
  <2>0. Meaning(c).opts = IF c.opts = Blank THEN NoOpts ELSE OptsOf[c.opts]
    BY DEF Meaning
  <2>1. ParseOpts(tokens, first, keys) =
            [o \in UNION {DOMAIN OptsOf[tokens[i]] : i \in A} |-> OptsOf[tokens[Max(Setting(o))]][o]]
    BY DEF ParseOpts
  <2>2. /\ c.opts = Blank => A = {}
        /\ c.opts # Blank => \E a \in Nat : A = {a} /\ tokens[a] = c.opts
    BY DEF OptionNames
  <2> HIDE DEF A
  <2>3. CASE c.opts = Blank
    <3>1. UNION {DOMAIN OptsOf[tokens[i]] : i \in A} = {}
      BY <2>2, <2>3
    <3>2. ParseOpts(tokens, first, keys) = NoOpts
      BY <2>1, <3>1 DEF NoOpts
    <3> QED
      BY <2>0, <2>3, <3>2
  <2>4. CASE c.opts # Blank
    <3>1. PICK a \in Nat : A = {a} /\ tokens[a] = c.opts
      BY <2>2, <2>4
    <3> DEFINE O == OptsOf[c.opts]
    <3>2. UNION {DOMAIN OptsOf[tokens[i]] : i \in A} = DOMAIN O
      BY <3>1
    <3>3. ASSUME NEW o \in DOMAIN O PROVE Max(Setting(o)) = a
      <4>1. Setting(o) = {a}
        BY <3>1
      <4> HIDE DEF Setting
      <4> QED
        BY <1>1, <4>1
    <3>4. O = [o \in DOMAIN O |-> O[o]]
      BY <1>4, <2>4, CommandsAssumption
    <3> HIDE DEF O, Setting
    <3>5. ParseOpts(tokens, first, keys) = [o \in DOMAIN O |-> O[o]]
      BY <2>1, <3>1, <3>2, <3>3 DEF O
    <3> QED
      BY <2>0, <2>4, <3>4, <3>5 DEF O
  <2> QED
    BY <2>3, <2>4
<1> QED
  BY <1>2, <1>3, <1>4

\* A line of a command: its words, then its options in some order.
LEMMA LineOf ==
  ASSUME NEW c, NEW line \in Grammar(c), IsSeq(Words(c))
  PROVE  LET p == Len(Words(c))
         IN /\ \A i \in 1 .. p : line[i] = Words(c)[i]
            /\ p \in Nat /\ \E f : Listed(c, f, line, p)
<1> DEFINE n == Cardinality(Options(c))
           flat(f) == [i \in 1 .. 2 * n |-> f[(i + 1) \div 2][IF i % 2 = 1 THEN 1 ELSE 2]]
           g == Words(c)
           p == Len(g)
<1>1. PICK f \in Orders(c) : line = g \o flat(f)
  BY DEF Grammar
<1>2. n \in Nat
  BY OrdersList
<1> DEFINE v == flat(f)
<1>3. IsSeq(v) /\ Len(v) = 2 * n
  <2>1. 2 * n \in Nat
    BY <1>2
  <2> HIDE DEF n
  <2>2. DOMAIN v = 1 .. 2 * n /\ v = [i \in 1 .. 2 * n |-> v[i]]
    OBVIOUS
  <2> HIDE DEF v
  <2>3. Len(v) = 2 * n
    BY <2>1, <2>2
  <2> QED
    BY <2>1, <2>2, <2>3 DEF IsSeq
<1>4. ASSUME NEW i \in 1 .. n PROVE 2 * i - 1 \in 1 .. 2 * n /\ 2 * i \in 1 .. 2 * n /\ v[2 * i - 1] = f[i][1] /\ v[2 * i] = f[i][2]
  <2> HIDE DEF n
  <2>1. i \in Nat /\ 2 * i - 1 \in 1 .. 2 * n /\ 2 * i \in 1 .. 2 * n
    BY <1>2
  <2>2. (2 * i - 1 + 1) \div 2 = i /\ (2 * i + 1) \div 2 = i /\ (2 * i - 1) % 2 = 1 /\ (2 * i) % 2 # 1
    BY <2>1
  <2> QED
    BY <2>1, <2>2
<1> HIDE DEF v, n, g
<1>5. line = [i \in 1 .. p + 2 * n |-> IF i <= p THEN g[i] ELSE v[i - p]] /\ Len(line) = p + 2 * n /\ p \in Nat
  <2>1. IsSeq(g) /\ p \in Nat /\ line = g \o v
    BY <1>1 DEF IsSeq, v, g
  <2>2. /\ line = [i \in 1 .. Len(g) + Len(v) |-> IF i <= Len(g) THEN g[i] ELSE v[i - Len(g)]]
        /\ Len(line) = Len(g) + Len(v)
    BY <1>3, <2>1, Joined
  <2> QED
    BY <1>3, <2>1, <2>2
<1> HIDE DEF p
<1>6. \A i \in 1 .. p : line[i] = g[i]
  BY <1>2, <1>5
<1>7. ASSUME NEW i \in 1 .. n PROVE line[p + 2 * i - 1] = f[i][1] /\ line[p + 2 * i] = f[i][2]
  <2>1. i \in Nat /\ 1 <= i /\ i <= n
    BY <1>2
  <2>2. /\ p + 2 * i - 1 \in 1 .. p + 2 * n /\ ~(p + 2 * i - 1 <= p) /\ p + 2 * i - 1 - p = 2 * i - 1
        /\ p + 2 * i \in 1 .. p + 2 * n /\ ~(p + 2 * i <= p) /\ p + 2 * i - p = 2 * i
    BY <1>2, <1>5, <2>1
  <2>3. line[p + 2 * i - 1] = v[2 * i - 1] /\ line[p + 2 * i] = v[2 * i]
    BY <1>5, <2>2
  <2> QED
    BY <1>4, <2>3
<1>8. Listed(c, f, line, p)
  BY <1>5, <1>7 DEF Listed, n
<1> QED
  BY <1>5, <1>6, <1>8 DEF p, g

\* Two, three and four words, and one more.
LEMMA Tuples ==
  ASSUME NEW a, NEW b, NEW c, NEW d, NEW x
  PROVE  /\ <<a, b>> \o <<x>> = <<a, b, x>>
         /\ <<a, b, c>> \o <<x>> = <<a, b, c, x>>
         /\ <<a, b, c, d>> \o <<x>> = <<a, b, c, d, x>>
<1>1. <<a, b>> \o <<x>> = <<a, b, x>>
  <2> DEFINE s == <<a, b>>
             e == <<x>>
             u == s \o e
  <2>1. IsSeq(s) /\ IsSeq(e)
    BY DEF IsSeq
  <2>2. Len(s) = 2 /\ Len(e) = 1 /\ s[1] = a /\ s[2] = b /\ e[1] = x
    OBVIOUS
  <2> HIDE DEF s, e
  <2>3. u = [i \in 1 .. Len(s) + Len(e) |-> IF i <= Len(s) THEN s[i] ELSE e[i - Len(s)]]
    BY <2>1, Joined
  <2> HIDE DEF u
  <2>4. u = [i \in 1 .. 3 |-> IF i <= 2 THEN s[i] ELSE e[i - 2]]
    BY <2>2, <2>3
  <2>5. u = [i \in 1 .. 3 |-> u[i]] /\ u[1] = a /\ u[2] = b /\ u[3] = x
    BY <2>2, <2>4
  <2>6. u = <<a, b, x>>
    BY <2>5
  <2> QED
    BY <2>6 DEF u, s, e
<1>2. <<a, b, c>> \o <<x>> = <<a, b, c, x>>
  <2> DEFINE s == <<a, b, c>>
             e == <<x>>
             u == s \o e
  <2>1. IsSeq(s) /\ IsSeq(e)
    BY DEF IsSeq
  <2>2. Len(s) = 3 /\ Len(e) = 1 /\ s[1] = a /\ s[2] = b /\ s[3] = c /\ e[1] = x
    OBVIOUS
  <2> HIDE DEF s, e
  <2>3. u = [i \in 1 .. Len(s) + Len(e) |-> IF i <= Len(s) THEN s[i] ELSE e[i - Len(s)]]
    BY <2>1, Joined
  <2> HIDE DEF u
  <2>4. u = [i \in 1 .. 4 |-> IF i <= 3 THEN s[i] ELSE e[i - 3]]
    BY <2>2, <2>3
  <2>5. u = [i \in 1 .. 4 |-> u[i]] /\ u[1] = a /\ u[2] = b /\ u[3] = c /\ u[4] = x
    BY <2>2, <2>4
  <2>6. u = <<a, b, c, x>>
    BY <2>5
  <2> QED
    BY <2>6 DEF u, s, e
<1>3. <<a, b, c, d>> \o <<x>> = <<a, b, c, d, x>>
  <2> DEFINE s == <<a, b, c, d>>
             e == <<x>>
             u == s \o e
  <2>1. IsSeq(s) /\ IsSeq(e)
    BY DEF IsSeq
  <2>2. Len(s) = 4 /\ Len(e) = 1 /\ s[1] = a /\ s[2] = b /\ s[3] = c /\ s[4] = d /\ e[1] = x
    OBVIOUS
  <2> HIDE DEF s, e
  <2>3. u = [i \in 1 .. Len(s) + Len(e) |-> IF i <= Len(s) THEN s[i] ELSE e[i - Len(s)]]
    BY <2>1, Joined
  <2> HIDE DEF u
  <2>4. u = [i \in 1 .. 5 |-> IF i <= 4 THEN s[i] ELSE e[i - 4]]
    BY <2>2, <2>3
  <2>5. u = [i \in 1 .. 5 |-> u[i]] /\ u[1] = a /\ u[2] = b /\ u[3] = c /\ u[4] = d /\ u[5] = x
    BY <2>2, <2>4
  <2>6. u = <<a, b, c, d, x>>
    BY <2>5
  <2> QED
    BY <2>6 DEF u, s, e
<1> QED
  BY <1>1, <1>2, <1>3

\* The words of each command.
LEMMA WordsGiven ==
  ASSUME NEW c
  PROVE  /\ Blank \notin {c.service, c.src, c.dst} => Words(c) = <<"route", c.cmd, c.service, c.src, c.dst>>
         /\ c.service # Blank /\ c.src # Blank /\ c.dst = Blank => Words(c) = <<"route", c.cmd, c.service, c.src>>
         /\ c.service # Blank /\ c.src = Blank /\ c.dst = Blank => Words(c) = <<"route", c.cmd, c.service>>
         /\ c.service = Blank /\ c.src # Blank /\ c.dst = Blank => Words(c) = <<"route", c.cmd, c.src>>
         /\ c.service = Blank /\ c.src = Blank /\ c.dst = Blank => Words(c) = <<"route", c.cmd>>
<1> DEFINE r == <<"route", c.cmd>>
<1>1. /\ Words(c) = r \o Word(c.service) \o Word(c.src) \o Word(c.dst)
      /\ \A x : x = Blank => Word(x) = << >>
      /\ \A x : x # Blank => Word(x) = <<x>>
  BY DEF Words, Word
<1>2. /\ r \o << >> = r
      /\ <<"route", c.cmd, c.service>> \o << >> = <<"route", c.cmd, c.service>>
      /\ <<"route", c.cmd, c.src>> \o << >> = <<"route", c.cmd, c.src>>
      /\ <<"route", c.cmd, c.service, c.src>> \o << >> = <<"route", c.cmd, c.service, c.src>>
  OBVIOUS
<1>3. /\ r \o <<c.service>> = <<"route", c.cmd, c.service>>
      /\ r \o <<c.src>> = <<"route", c.cmd, c.src>>
      /\ <<"route", c.cmd, c.service>> \o <<c.src>> = <<"route", c.cmd, c.service, c.src>>
      /\ <<"route", c.cmd, c.service, c.src>> \o <<c.dst>> = <<"route", c.cmd, c.service, c.src, c.dst>>
  BY Tuples
<1> HIDE DEF r
<1>4. ASSUME Blank \notin {c.service, c.src, c.dst} PROVE Words(c) = <<"route", c.cmd, c.service, c.src, c.dst>>
  BY <1>1, <1>3, <1>4, Zenon
<1>5. ASSUME c.service # Blank, c.src # Blank, c.dst = Blank PROVE Words(c) = <<"route", c.cmd, c.service, c.src>>
  BY <1>1, <1>2, <1>3, <1>5, Zenon
<1>6. ASSUME c.service # Blank, c.src = Blank, c.dst = Blank PROVE Words(c) = <<"route", c.cmd, c.service>>
  BY <1>1, <1>2, <1>3, <1>6, Zenon
<1>7. ASSUME c.service = Blank, c.src # Blank, c.dst = Blank PROVE Words(c) = <<"route", c.cmd, c.src>>
  BY <1>1, <1>2, <1>3, <1>7, Zenon
<1>8. ASSUME c.service = Blank, c.src = Blank, c.dst = Blank PROVE Words(c) = r
  BY <1>1, <1>2, <1>8, Zenon
<1> QED
  BY <1>4, <1>5, <1>6, <1>7, <1>8 DEF r

\* A line of `route add'.
LEMMA AddParsed ==
  ASSUME NEW c, NEW line \in Grammar(c), c.cmd = "add", Documented(c)
  PROVE  parse_line(line) = Meaning(c)
<1>1. Blank \notin {c.service, c.src, c.dst} /\ c.opts \in DOMAIN OptsOf \cup {Blank}
  BY DEF Documented
<1> DEFINE g == Words(c)
<1>2. g = <<"route", "add", c.service, c.src, c.dst>>
  BY <1>1, WordsGiven
<1>3. IsSeq(g) /\ Len(g) = 5 /\ g[1] = "route" /\ g[2] = "add" /\ g[3] = c.service /\ g[4] = c.src /\ g[5] = c.dst
  <2> HIDE DEF g
  <2> QED
    BY <1>2 DEF IsSeq
<1>4. PICK f : Listed(c, f, line, Len(g)) /\ \A i \in 1 .. Len(g) : line[i] = g[i]
  BY <1>3, LineOf
<1> HIDE DEF g
<1>5. Listed(c, f, line, 5) /\ \A i \in 1 .. 5 : line[i] = g[i]
  BY <1>3, <1>4
<1>6. line[1] = "route" /\ line[2] = "add" /\ line[3] = c.service /\ line[4] = c.src /\ line[5] = c.dst
  BY <1>3, <1>5
<1>7. Len(line) \in Nat /\ Len(line) >= 5
  <2>1. f \in Orders(c) /\ Len(line) = 5 + 2 * Cardinality(Options(c))
    BY <1>5 DEF Listed
  <2>2. Cardinality(Options(c)) \in Nat
    BY <2>1, OrdersList
  <2> QED
    BY <2>1, <2>2
<1> DEFINE keys == {"weight", "tags", "opts"}
<1>8. \A key \in OptionNames :
            /\ c[key] = Blank => Arguments(line, 6, keys, key) = {}
            /\ c[key] # Blank => \E a \in Nat : Arguments(line, 6, keys, key) = {a} /\ line[a] = c[key]
  <2>1. {o \in OptionNames : c[o] # Blank} \subseteq keys
    BY DEF OptionNames
  <2> HIDE DEF keys
  <2>2. \A key \in OptionNames :
            /\ c[key] = Blank => Arguments(line, 5 + 1, keys, key) = {}
            /\ c[key] # Blank => \E a \in Nat : Arguments(line, 5 + 1, keys, key) = {a} /\ line[a] = c[key]
    BY <1>5, <2>1, OptionsRead
  <2>3. 5 + 1 = 6
    OBVIOUS
  <2> QED
    BY <2>2, <2>3
<1>9. /\ ParseWeight(line, 6, keys) = Meaning(c).weight
      /\ ParseTags(line, 6, keys) = Meaning(c).tags
      /\ ParseOpts(line, 6, keys) = Meaning(c).opts
  <2> HIDE DEF keys
  <2> QED
    BY <1>1, <1>8, ValuesRead
<1>10. parse_line(line) = parse_route_add(line)
  BY <1>6, <1>7 DEF parse_line
<1>11. parse_route_add(line) =
            [cmd |-> "add", service |-> line[3], src |-> line[4], dst |-> line[5],
             weight |-> ParseWeight(line, 6, keys), tags |-> ParseTags(line, 6, keys),
             opts |-> ParseOpts(line, 6, keys)]
  BY <1>7 DEF parse_route_add
<1>12. Meaning(c) = [cmd |-> "add", service |-> c.service, src |-> c.src, dst |-> c.dst,
                     weight |-> Meaning(c).weight, tags |-> Meaning(c).tags, opts |-> Meaning(c).opts]
  BY DEF Meaning
<1> HIDE DEF keys
<1> QED
  BY <1>6, <1>9, <1>10, <1>11, <1>12, Zenon

\* A line of `route weight'.
LEMMA WeightParsed ==
  ASSUME NEW c, NEW line \in Grammar(c), c.cmd = "weight", Documented(c)
  PROVE  parse_line(line) = Meaning(c)
<1>1. c.src \notin {Blank, "weight"} /\ c.dst = Blank /\ c.opts = Blank /\ (c.service = Blank => c.weight # Blank)
  BY DEF Documented
<1> DEFINE keys == {"weight", "tags"}
           first == IF c.service = Blank THEN 4 ELSE 5
           p == first - 1
           g == Words(c)
<1>2. /\ c.service = Blank => g = <<"route", "weight", c.src>>
      /\ c.service # Blank => g = <<"route", "weight", c.service, c.src>>
  BY <1>1, WordsGiven
<1>3. /\ IsSeq(g) /\ Len(g) = p /\ p \in Nat /\ p + 1 = first /\ p >= 3 /\ g[1] = "route" /\ g[2] = "weight"
      /\ c.service = Blank => g[3] = c.src
      /\ c.service # Blank => g[3] = c.service /\ g[4] = c.src
  <2> HIDE DEF g
  <2>1. CASE c.service = Blank
    <3>1. first = 4 /\ p = 3
      BY <2>1
    <3> HIDE DEF first, p
    <3>0. g = <<"route", "weight", c.src>>
      BY <1>2, <2>1
    <3>2. IsSeq(g) /\ Len(g) = 3 /\ g[1] = "route" /\ g[2] = "weight" /\ g[3] = c.src
      BY <3>0 DEF IsSeq
    <3> QED
      BY <2>1, <3>1, <3>2
  <2>2. CASE c.service # Blank
    <3>1. first = 5 /\ p = 4
      BY <2>2
    <3> HIDE DEF first, p
    <3>2. IsSeq(g) /\ Len(g) = 4 /\ g[1] = "route" /\ g[2] = "weight" /\ g[3] = c.service /\ g[4] = c.src
      BY <1>2, <2>2 DEF IsSeq
    <3> QED
      BY <2>2, <3>1, <3>2
  <2> QED
    BY <2>1, <2>2
<1>4. PICK f : Listed(c, f, line, Len(g)) /\ \A i \in 1 .. Len(g) : line[i] = g[i]
  BY <1>3, LineOf
<1> HIDE DEF g
<1>5. Listed(c, f, line, p) /\ \A i \in 1 .. p : line[i] = g[i]
  BY <1>3, <1>4
<1> DEFINE n == Cardinality(Options(c))
<1>6. /\ f \in Orders(c) /\ Len(line) = p + 2 * n /\ n \in Nat
      /\ \A i \in 1 .. n : line[p + 2 * i - 1] = f[i][1]
      /\ \A o \in Options(c) : \E i \in 1 .. n : f[i] = o
  <2>1. f \in Orders(c)
    BY <1>5 DEF Listed
  <2> QED
    BY <1>5, <2>1, OrdersList DEF Listed
<1> HIDE DEF p, n
<1>7. Len(line) \in Nat /\ Len(line) >= 3 /\ line[1] = "route" /\ line[2] = "weight"
  BY <1>3, <1>5, <1>6
<1>8. ASSUME c.service = Blank
      PROVE  parse_route_weight(line) =
                [cmd |-> "weight", service |-> c.service, src |-> c.src, dst |-> c.dst,
                 weight |-> ParseWeight(line, first, keys), tags |-> ParseTags(line, first, keys), opts |-> NoOpts]
  <2>1. p = 3 /\ line[3] = c.src
    BY <1>3, <1>5, <1>8 DEF p
  <2>2. <<"weight", c["weight"]>> \in Options(c)
    BY <1>1, <1>8 DEF Options
  <2>3. 1 \in 1 .. n
    BY <1>6, <2>2
  <2>4. f[1] = <<"weight", c.weight>>
    BY <1>6, <1>8 DEF Orders
  <2>5. line[4] = "weight" /\ Len(line) > 3
    <3>1. line[p + 2 * 1 - 1] = f[1][1]
      BY <1>6, <2>3
    <3> QED
      BY <1>6, <2>1, <2>3, <2>4, <3>1
  <2>6. parse_route_weight(line) =
            [cmd |-> "weight", service |-> Blank, src |-> line[3], dst |-> Blank,
             weight |-> ParseWeight(line, 4, keys), tags |-> ParseTags(line, 4, keys), opts |-> NoOpts]
    BY <1>7, <2>5 DEF parse_route_weight
  <2>7. first = 4
    BY <1>8
  <2> HIDE DEF first, keys
  <2> QED
    BY <1>1, <1>8, <2>1, <2>6, <2>7, Zenon
<1>9. ASSUME c.service # Blank
      PROVE  parse_route_weight(line) =
                [cmd |-> "weight", service |-> c.service, src |-> c.src, dst |-> c.dst,
                 weight |-> ParseWeight(line, first, keys), tags |-> ParseTags(line, first, keys), opts |-> NoOpts]
  <2>1. p = 4 /\ line[3] = c.service /\ line[4] = c.src
    BY <1>3, <1>5, <1>9 DEF p
  <2>2. Len(line) > 3 /\ line[4] # "weight"
    BY <1>1, <1>6, <2>1
  <2>3. parse_route_weight(line) =
            [cmd |-> "weight", service |-> line[3], src |-> line[4], dst |-> Blank,
             weight |-> ParseWeight(line, 5, keys), tags |-> ParseTags(line, 5, keys), opts |-> NoOpts]
    BY <1>7, <2>2 DEF parse_route_weight
  <2>4. first = 5
    BY <1>9
  <2> HIDE DEF first, keys
  <2> QED
    BY <1>1, <1>9, <2>1, <2>3, <2>4, Zenon
<1>10. parse_line(line) = parse_route_weight(line)
  BY <1>7 DEF parse_line
<1>11. {o \in OptionNames : c[o] # Blank} \subseteq keys
  BY <1>1 DEF OptionNames
<1> HIDE DEF first, keys
<1>12. /\ ParseWeight(line, first, keys) = Meaning(c).weight
       /\ ParseTags(line, first, keys) = Meaning(c).tags
  <2>1. \A key \in OptionNames :
            /\ c[key] = Blank => Arguments(line, p + 1, keys, key) = {}
            /\ c[key] # Blank => \E a \in Nat : Arguments(line, p + 1, keys, key) = {a} /\ line[a] = c[key]
    BY <1>3, <1>5, <1>11, OptionsRead
  <2>2. \A key \in OptionNames :
            /\ c[key] = Blank => Arguments(line, first, keys, key) = {}
            /\ c[key] # Blank => \E a \in Nat : Arguments(line, first, keys, key) = {a} /\ line[a] = c[key]
    BY <1>3, <2>1
  <2> QED
    BY <2>2, ValuesRead
<1>13. Meaning(c) = [cmd |-> "weight", service |-> c.service, src |-> c.src, dst |-> c.dst,
                     weight |-> Meaning(c).weight, tags |-> Meaning(c).tags, opts |-> NoOpts]
  BY <1>1 DEF Meaning
<1> QED
  BY <1>8, <1>9, <1>10, <1>12, <1>13, Zenon

\* Words that are no keywords, and the tags behind them.
LEMMA PlacesRead ==
  ASSUME NEW tokens, NEW first \in Nat, NEW p \in Nat, first <= p + 1,
         NEW tagged \in BOOLEAN, Len(tokens) = IF tagged THEN p + 2 ELSE p,
         \A i \in first .. p : tokens[i] # "tags", tagged => tokens[p + 1] = "tags"
  PROVE  LET P == KeywordPositions(tokens, first, {"tags"})
         IN /\ {i \in P : tokens[i] # "tags"} = first .. p
            /\ Arguments(tokens, first, {"tags"}, "tags") = IF tagged THEN {p + 2} ELSE {}
<1> DEFINE P == KeywordPositions(tokens, first, {"tags"})
           len == Len(tokens)
<1>1. len \in Nat /\ P \subseteq first .. len
  BY DEF KeywordPositions
<1>2. \A i \in first .. len : i \in P <=> i = first \/ ~(i - 1 \in P /\ tokens[i - 1] \in {"tags"})
  BY <1>1, KeywordStep
<1>3. Arguments(tokens, first, {"tags"}, "tags") = {i + 1 : i \in {k \in P : tokens[k] = "tags" /\ k < len}}
  BY DEF Arguments
<1>4. len = IF tagged THEN p + 2 ELSE p
  OBVIOUS
<1> HIDE DEF P, len
<1>5. ASSUME NEW i \in first .. len, i <= p + 1 PROVE i \in P
  BY <1>2, <1>5
<1>6. CASE tagged
  <2>1. len = p + 2 /\ p + 1 \in first .. len /\ p + 2 \in first .. len
    BY <1>4, <1>6
  <2>2. p + 1 \in P /\ p + 2 \notin P
    <3>1. p + 1 \in P
      BY <1>5, <2>1
    <3>2. p + 2 # first /\ p + 2 - 1 = p + 1
      OBVIOUS
    <3> QED
      BY <1>2, <1>6, <2>1, <3>1, <3>2
  <2>3. ASSUME NEW i \in P PROVE i \in first .. p \/ i = p + 1
    BY <1>1, <2>1, <2>2
  <2>4. \A i \in first .. p : i \in P
    BY <1>5, <2>1
  <2>5. {i \in P : tokens[i] # "tags"} = first .. p
    BY <1>6, <2>3, <2>4
  <2>6. {k \in P : tokens[k] = "tags" /\ k < len} = {p + 1}
    BY <1>6, <2>1, <2>2, <2>3
  <2>7. Arguments(tokens, first, {"tags"}, "tags") = {p + 2}
    BY <1>3, <2>6
  <2> QED
    BY <1>6, <2>5, <2>7 DEF P
<1>7. CASE ~tagged
  <2>1. len = p
    BY <1>4, <1>7
  <2>2. P = first .. p
    <3>1. ASSUME NEW i \in first .. p PROVE i \in P
      <4>1. i \in first .. len /\ i <= p + 1
        BY <2>1
      <4> QED
        BY <1>5, <4>1
    <3> QED
      BY <1>1, <2>1, <3>1
  <2>3. {i \in P : tokens[i] # "tags"} = first .. p
    BY <2>2
  <2>4. {k \in P : tokens[k] = "tags" /\ k < len} = {}
    BY <2>2
  <2>5. Arguments(tokens, first, {"tags"}, "tags") = {}
    BY <1>3, <2>4
  <2> QED
    BY <1>7, <2>3, <2>5 DEF P
<1> QED
  BY <1>6, <1>7

\* A del has no option but its tags.
LEMMA DelOptions ==
  ASSUME NEW c, c.weight = Blank, c.opts = Blank, NEW p \in Nat, NEW f, NEW line, Listed(c, f, line, p)
  PROVE  /\ c.tags = Blank => Len(line) = p
         /\ c.tags # Blank => Len(line) = p + 2 /\ line[p + 1] = "tags" /\ line[p + 2] = c.tags
<1> DEFINE n == Cardinality(Options(c))
<1>1. /\ f \in Orders(c) /\ Len(line) = p + 2 * n
      /\ \A i \in 1 .. n : line[p + 2 * i - 1] = f[i][1] /\ line[p + 2 * i] = f[i][2]
  BY DEF Listed
<1>2. f \in [1 .. n -> Options(c)]
  BY <1>1, OrdersList
<1>3. CASE c.tags = Blank
  <2>1. Options(c) = {}
    BY <1>3 DEF Options
  <2>2. n = 0
    BY <2>1, FS_EmptySet
  <2> HIDE DEF n
  <2> QED
    BY <1>1, <1>3, <2>2
<1>4. CASE c.tags # Blank
  <2>1. Options(c) = {<<"tags", c.tags>>}
    BY <1>4 DEF Options
  <2>2. n = 1
    BY <2>1, FS_Singleton
  <2> HIDE DEF n
  <2>3. f[1] = <<"tags", c.tags>> /\ 1 \in 1 .. n
    BY <1>2, <2>1, <2>2
  <2>4. line[p + 2 * 1 - 1] = f[1][1] /\ line[p + 2 * 1] = f[1][2]
    BY <1>1, <2>3
  <2>5. f[1][1] = "tags" /\ f[1][2] = c.tags /\ p + 2 * 1 - 1 = p + 1 /\ p + 2 * 1 = p + 2 /\ Len(line) = p + 2
    BY <1>1, <2>2, <2>3
  <2> QED
    BY <1>4, <2>4, <2>5
<1> QED
  BY <1>3, <1>4

\* The least of an interval, and of what is above it.
LEMMA LeastOfInterval ==
  ASSUME NEW a \in Nat, NEW b \in Nat, a <= b, NEW S, S = a .. b
  PROVE  S # {} /\ Min(S) = a
<1>1. S \subseteq Nat /\ S # {} /\ a \in S
  OBVIOUS
<1>2. Min(S) \in S /\ \A n \in S : Min(S) <= n
  BY <1>1, LeastPosition
<1> DEFINE m == Min(S)
<1> HIDE DEF m
<1>3. m \in a .. b /\ m <= a
  BY <1>1, <1>2 DEF m
<1>4. m = a
  BY <1>3
<1> QED
  BY <1>1, <1>4 DEF m

\* The least of one.
LEMMA LeastOfOne ==
  ASSUME NEW a \in Nat, NEW S, S = a .. a
  PROVE  S # {} /\ Min(S) = a
<1>1. a <= a
  OBVIOUS
<1> QED
  BY <1>1, LeastOfInterval, Zenon

\* A line of `route del'.
LEMMA DelParsed ==
  ASSUME NEW c, NEW line \in Grammar(c), c.cmd = "del", Documented(c)
  PROVE  parse_line(line) = Meaning(c)
<1>1. c.weight = Blank /\ c.opts = Blank
  BY DEF Documented
<1> DEFINE service == IF line[3] = "tags" THEN Blank ELSE line[3]
           first == IF service = Blank THEN 3 ELSE 4
           tags == ParseTags(line, first, {"tags"})
           args == Arguments(line, first, {"tags"}, "tags")
           places == {i \in KeywordPositions(line, first, {"tags"}) : line[i] # "tags"}
           FirstOf(at) == IF at = {} THEN Blank ELSE line[Min(at)]
           src == FirstOf(places)
           dst == FirstOf({i \in places : i > Min(places)})
           g == Words(c)
           p == Len(g)
           tagged == c.tags # Blank
<1>2. parse_route_del(line) =
        IF service = Blank /\ tags = {} THEN NoDef
        ELSE [cmd |-> "del", service |-> service, src |-> src, dst |-> dst, weight |-> 0, tags |-> tags,
              opts |-> NoOpts]
  BY DEF parse_route_del
<1>3. Meaning(c) = [cmd |-> "del", service |-> c.service, src |-> c.src, dst |-> c.dst,
                    weight |-> 0, tags |-> IF tagged THEN TagsOf[c.tags] ELSE {}, opts |-> NoOpts]
  <2>1. Blank \notin Weights
    BY CommandsAssumption DEF Weights
  <2> QED
    BY <1>1, <2>1 DEF Meaning
<1>4. ASSUME IsSeq(g), p >= 2, g[1] = "route", g[2] = "del", p >= 3 \/ tagged
      PROVE  /\ p \in Nat /\ \A i \in 1 .. p : line[i] = g[i]
             /\ Len(line) = IF tagged THEN p + 2 ELSE p
             /\ tagged => line[p + 1] = "tags" /\ line[p + 2] = c.tags
             /\ parse_line(line) = parse_route_del(line)
  <2>1. p \in Nat /\ (\A i \in 1 .. p : line[i] = g[i]) /\ \E f : Listed(c, f, line, p)
    BY <1>4, LineOf
  <2> HIDE DEF g, p
  <2>2. PICK f : Listed(c, f, line, p)
    BY <2>1
  <2>3. /\ Len(line) = IF tagged THEN p + 2 ELSE p
        /\ tagged => line[p + 1] = "tags" /\ line[p + 2] = c.tags
    BY <1>1, <2>1, <2>2, DelOptions
  <2> HIDE DEF tagged
  <2>4. line[1] = "route" /\ line[2] = "del" /\ Len(line) >= 3
    BY <1>4, <2>1, <2>3
  <2>5. parse_line(line) = parse_route_del(line)
    BY <2>1, <2>3, <2>4 DEF parse_line
  <2> QED
    BY <2>1, <2>3, <2>5
<1>5. ASSUME p \in Nat, first \in Nat, first <= p + 1, \A i \in first .. p : line[i] # "tags",
             Len(line) = IF tagged THEN p + 2 ELSE p,
             tagged => line[p + 1] = "tags" /\ line[p + 2] = c.tags
      PROVE  places = first .. p /\ tags = IF tagged THEN TagsOf[c.tags] ELSE {}
  <2>0. tagged \in BOOLEAN
    OBVIOUS
  <2> HIDE DEF tagged, p, g
  <2>1. places = first .. p /\ args = IF tagged THEN {p + 2} ELSE {}
    <3> HIDE DEF first
    <3> QED
      BY <1>5, <2>0, PlacesRead
  <2>2. tags = IF args = {} THEN {} ELSE TagsOf[line[Max(args)]]
    BY DEF ParseTags
  <2> HIDE DEF args, tags, places, first
  <2>3. CASE tagged
    <3>1. p + 2 \in Nat /\ args = {p + 2}
      BY <1>5, <2>1, <2>3
    <3>2. Max(args) = p + 2 /\ args # {}
      BY <3>1, MaxOfOne
    <3> QED
      BY <1>5, <2>1, <2>2, <2>3, <3>2
  <2>4. CASE ~tagged
    BY <2>1, <2>2, <2>4
  <2> QED
    BY <2>3, <2>4
<1> HIDE DEF tagged
<1>6. CASE c.service # Blank
  <2>1. c.service # "tags" /\ c.src # "tags" /\ c.dst # "tags" /\ (c.dst # Blank => c.src # Blank)
    BY <1>6 DEF Documented
  <2>2. /\ c.dst # Blank => g = <<"route", "del", c.service, c.src, c.dst>>
        /\ c.src # Blank /\ c.dst = Blank => g = <<"route", "del", c.service, c.src>>
        /\ c.src = Blank => g = <<"route", "del", c.service>>
    BY <1>6, <2>1, WordsGiven
  <2> HIDE DEF g
  <2>3. /\ IsSeq(g) /\ g[1] = "route" /\ g[2] = "del" /\ g[3] = c.service
        /\ c.dst # Blank => p = 5 /\ g[4] = c.src /\ g[5] = c.dst
        /\ c.src # Blank /\ c.dst = Blank => p = 4 /\ g[4] = c.src
        /\ c.src = Blank => p = 3
    <3>1. CASE c.dst # Blank
      <4>1. g = <<"route", "del", c.service, c.src, c.dst>>
        BY <2>2, <3>1
      <4>2. IsSeq(g) /\ Len(g) = 5 /\ g[1] = "route" /\ g[2] = "del" /\ g[3] = c.service /\ g[4] = c.src /\ g[5] = c.dst
        BY <4>1 DEF IsSeq
      <4> QED
        BY <2>1, <3>1, <4>2
    <3>2. CASE c.src # Blank /\ c.dst = Blank
      <4>1. g = <<"route", "del", c.service, c.src>>
        BY <2>2, <3>2
      <4>2. IsSeq(g) /\ Len(g) = 4 /\ g[1] = "route" /\ g[2] = "del" /\ g[3] = c.service /\ g[4] = c.src
        BY <4>1 DEF IsSeq
      <4> QED
        BY <3>2, <4>2
    <3>3. CASE c.src = Blank
      <4>1. g = <<"route", "del", c.service>>
        BY <2>2, <3>3
      <4>2. IsSeq(g) /\ Len(g) = 3 /\ g[1] = "route" /\ g[2] = "del" /\ g[3] = c.service
        BY <4>1 DEF IsSeq
      <4> QED
        BY <2>1, <3>3, <4>2
    <3> QED
      BY <3>1, <3>2, <3>3
  <2>4. p \in 3 .. 5
    BY <2>1, <2>3
  <2>5. /\ \A i \in 1 .. p : line[i] = g[i]
        /\ Len(line) = IF tagged THEN p + 2 ELSE p
        /\ tagged => line[p + 1] = "tags" /\ line[p + 2] = c.tags
        /\ parse_line(line) = parse_route_del(line)
    BY <1>4, <2>3, <2>4
  <2>6. service = c.service /\ first = 4
    BY <1>6, <2>1, <2>3, <2>4, <2>5
  <2>7. /\ p = 5 => line[4] = c.src /\ line[5] = c.dst /\ c.src # Blank
        /\ p = 4 => line[4] = c.src /\ c.dst = Blank /\ c.src # Blank
        /\ p = 3 => c.src = Blank /\ c.dst = Blank
    <3> HIDE DEF p, service, first, tags, args, places, FirstOf, src, dst
    <3>1. /\ p = 5 => c.dst # Blank
          /\ p = 4 => c.src # Blank /\ c.dst = Blank
          /\ p = 3 => c.src = Blank /\ c.dst = Blank
      BY <2>1, <2>3
    <3>2. /\ p = 5 => line[4] = g[4] /\ line[5] = g[5]
          /\ p = 4 => line[4] = g[4]
      BY <2>5
    <3> QED
      BY <2>1, <2>3, <3>1, <3>2
  <2> HIDE DEF p
  <2>8. places = 4 .. p /\ tags = IF tagged THEN TagsOf[c.tags] ELSE {}
    <3>1. \A i \in 4 .. p : line[i] # "tags"
      BY <2>1, <2>4, <2>7
    <3> HIDE DEF first, tags, places
    <3> QED
      BY <1>5, <2>4, <2>5, <2>6, <3>1
  <2> HIDE DEF places, tags, service, first
  <2>9. src = c.src /\ dst = c.dst
    <3>1. CASE p = 3
      <4>1. places = {}
        BY <2>8, <3>1
      <4> QED
        BY <2>7, <3>1, <4>1
    <3>2. CASE p = 4
      <4>0. places = 4 .. 4 /\ 4 \in Nat
        BY <2>8, <3>2
      <4>1. places # {} /\ Min(places) = 4 /\ places = 4 .. 4
        BY <4>0, LeastOfOne, Zenon
      <4>2. {i \in places : i > Min(places)} = {}
        BY <4>1
      <4> QED
        BY <2>7, <3>2, <4>1, <4>2
    <3>3. CASE p = 5
      <4>0. places = 4 .. 5 /\ 4 \in Nat /\ 5 \in Nat /\ 4 <= 5
        BY <2>8, <3>3
      <4>1. places # {} /\ Min(places) = 4 /\ places = 4 .. 5
        BY <4>0, LeastOfInterval, Zenon
      <4> DEFINE rest == {i \in places : i > Min(places)}
      <4>2. rest = 5 .. 5 /\ rest # {}
        BY <4>1
      <4> HIDE DEF rest
      <4>a. 5 \in Nat
        OBVIOUS
      <4>3. Min(rest) = 5
        BY <4>2, <4>a, LeastOfOne, Zenon
      <4>4. src = c.src
        BY <2>7, <3>3, <4>1
      <4>5. FirstOf(rest) = c.dst
        BY <2>7, <3>3, <4>2, <4>3
      <4> QED
        BY <4>4, <4>5 DEF rest
    <3> QED
      BY <2>4, <3>1, <3>2, <3>3
  <2> HIDE DEF src, dst
  <2>10. parse_route_del(line) =
            [cmd |-> "del", service |-> service, src |-> src, dst |-> dst, weight |-> 0, tags |-> tags,
             opts |-> NoOpts]
    BY <1>2, <1>6, <2>6
  <2> QED
    BY <1>3, <2>5, <2>6, <2>8, <2>9, <2>10, Zenon
<1>7. CASE c.service = Blank
  <2>1. c.src = Blank /\ c.dst = Blank /\ tagged /\ TagsOf[c.tags] # {}
    BY <1>7 DEF Documented, tagged
  <2>2. g = <<"route", "del">>
    BY <1>7, <2>1, WordsGiven
  <2> HIDE DEF g
  <2>3. IsSeq(g) /\ p = 2 /\ g[1] = "route" /\ g[2] = "del"
    BY <2>2 DEF IsSeq
  <2>4. /\ Len(line) = p + 2 /\ line[p + 1] = "tags" /\ line[p + 2] = c.tags
        /\ parse_line(line) = parse_route_del(line)
    BY <1>4, <2>1, <2>3
  <2>5. line[3] = "tags"
    BY <2>3, <2>4
  <2>6. service = Blank /\ first = 3
    BY <2>5
  <2> HIDE DEF p
  <2>7. places = 3 .. 2 /\ tags = TagsOf[c.tags]
    <3>1. \A i \in 3 .. 2 : line[i] # "tags"
      OBVIOUS
    <3> HIDE DEF first, tags, places
    <3> QED
      BY <1>5, <2>1, <2>3, <2>4, <2>6, <3>1
  <2> HIDE DEF places, tags, service, first
  <2>8. places = {}
    BY <2>7
  <2>9. src = c.src /\ dst = c.dst
    BY <2>1, <2>8
  <2> HIDE DEF src, dst
  <2>10. parse_route_del(line) =
            [cmd |-> "del", service |-> service, src |-> src, dst |-> dst, weight |-> 0, tags |-> tags,
             opts |-> NoOpts]
    BY <1>2, <2>1, <2>7
  <2> QED
    BY <1>3, <1>7, <2>1, <2>4, <2>6, <2>7, <2>9, <2>10, Zenon
<1> QED
  BY <1>6, <1>7

\* Every line that says a command is read as that command, whatever the
\* order of its options (parse_line).
THEOREM LinesAreUnderstood ==
  ASSUME NEW s \in DOMAIN Commands, NEW c \in Commands[s], NEW line \in Grammar(c)
  PROVE  parse_line(line) = Meaning(c)
<1>1. Documented(c)
  BY TableAssumption
<1>2. c.cmd \in {"add", "del", "weight"}
  BY <1>1 DEF Documented
<1> QED
  BY <1>1, <1>2, AddParsed, DelParsed, WeightParsed

\* A line that says no command is read as none.
LEMMA JunkIsIgnored ==
  ASSUME NEW line \in Junk
  PROVE  parse_line(line) = NoDef
<1>1. Pointless(line)
  BY TableAssumption
<1>2. CASE Len(line) < 3 \/ line[1] # "route"
  BY <1>2 DEF parse_line
<1>3. CASE ~(Len(line) < 3 \/ line[1] # "route") /\ line[2] \notin {"add", "del", "weight"}
  BY <1>3 DEF parse_line
<1>4. CASE ~(Len(line) < 3 \/ line[1] # "route") /\ line[2] = "add" /\ Len(line) < 5
  BY <1>4 DEF parse_line, parse_route_add
<1>5. CASE ~(Len(line) < 3 \/ line[1] # "route") /\ line[2] = "weight" /\ Len(line) < 4
  BY <1>5 DEF parse_line, parse_route_weight
<1>6. CASE /\ ~(Len(line) < 3 \/ line[1] # "route") /\ line[2] = "del" /\ line[3] = "tags"
           /\ Len(line) = 3 \/ (Len(line) = 4 /\ TagsOf[line[4]] = {})
  <2> DEFINE P == KeywordPositions(line, 3, {"tags"})
             args == Arguments(line, 3, {"tags"}, "tags")
             tags == ParseTags(line, 3, {"tags"})
  <2>1. P \subseteq 3 .. Len(line)
    BY DEF KeywordPositions
  <2>2. args = {i + 1 : i \in {k \in P : line[k] = "tags" /\ k < Len(line)}}
    BY DEF Arguments
  <2>3. tags = IF args = {} THEN {} ELSE TagsOf[line[Max(args)]]
    BY DEF ParseTags
  <2> HIDE DEF P, args, tags
  <2>4. ASSUME NEW a \in args PROVE a = 4 /\ Len(line) = 4
    <3>1. PICK k \in P : k < Len(line) /\ a = k + 1
      BY <2>2
    <3>2. Len(line) = 3 \/ Len(line) = 4
      BY <1>6
    <3>3. k \in 3 .. Len(line)
      BY <2>1
    <3>4. k \in Int /\ 3 <= k /\ k <= Len(line)
      BY <3>2, <3>3
    <3>5. CASE Len(line) = 3
      BY <3>1, <3>4, <3>5
    <3>6. CASE Len(line) = 4
      BY <3>1, <3>4, <3>6
    <3> QED
      BY <3>2, <3>5, <3>6
  <2>5. args = {} \/ (args = {4} /\ Len(line) = 4)
    BY <2>4
  <2>6. tags = {}
    <3>1. CASE args = {}
      BY <2>3, <3>1
    <3>2. CASE args = {4} /\ Len(line) = 4
      <4>1. Max(args) = 4
        BY <3>2, MaxOfOne
      <4> QED
        BY <1>6, <2>3, <3>2, <4>1
    <3> QED
      BY <2>5, <3>1, <3>2
  <2>7. parse_route_del(line) = NoDef
    <3>1. ParseTags(line, 3, {"tags"}) = {}
      BY <2>6 DEF tags
    <3> QED
      BY <1>6, <3>1 DEF parse_route_del
  <2> QED
    BY <1>6, <2>7 DEF parse_line
<1> QED
  BY <1>1, <1>2, <1>3, <1>4, <1>5, <1>6 DEF Pointless

----------------------------------------------------------------------------
(***************************************************************************)
(* The inductive invariant: each target on the table stems from an add     *)
(* that no del took back, with the weight of that add unless a weight      *)
(* command came after it; and each such add has its target, or repeats an  *)
(* earlier one.                                                            *)
(***************************************************************************)
Stems(w, i, h, p, x) ==
    /\ RouteNamed(w[i]) = <<h, p>>
    /\ x.service = w[i].service /\ x.url = w[i].dst /\ x.tags = w[i].tags /\ x.opts = w[i].opts
    /\ x.source = w[i].source
    /\ \/ x.fixed = w[i].weight
       \/ \E k \in i + 1 .. Len(w) : w[k].cmd = "weight" /\ RouteNamed(w[k]) = <<h, p>>

Backed(w, t) == \A h, p, x : On(t, h, p, x) => \E i \in Survivors(w) : Stems(w, i, h, p, x)

Serves(t, d) ==
    \E x : /\ On(t, Lower[src_host(d)], src_path(d), x)
           /\ x.service = d.service /\ x.url = d.dst /\ x.source = d.source /\ x.tags = d.tags /\ x.opts = d.opts

Served(w, t) == \A i \in Survivors(w) : Repeats(w, i) \/ Serves(t, w[i])

TableInv ==
    /\ phase \in {"static", "kv", "service", "built"}
    /\ IsSeq(written) /\ Len(written) <= MaxCommands
    /\ GoodTable(route_table)
    /\ Backed(written, route_table)
    /\ Served(written, route_table)
    /\ IsBuilt => RoutesInOrder(route_table)

\* A command more: the earlier ones stay, and only a del takes one back.
LEMMA OneCommandMore ==
  ASSUME NEW w, IsSeq(w), NEW d
  PROVE  LET v == Append(w, d)
             n == Len(w) + 1
         IN /\ IsSeq(v) /\ Len(v) = n /\ v[n] = d
            /\ \A i \in DOMAIN w : v[i] = w[i] /\ i \in 1 .. n - 1 /\ (Repeats(w, i) => Repeats(v, i))
            /\ \A i : i \in Survivors(v) <=> \/ i \in Survivors(w) /\ ~(d.cmd = "del" /\ Covers(d, w[i]))
                                             \/ i = n /\ d.cmd = "add"
            /\ \A i \in Survivors(w) : i \in DOMAIN w
            /\ \A i \in DOMAIN w : \A h, p, x : Stems(w, i, h, p, x) => Stems(v, i, h, p, x)
<1> DEFINE v == Append(w, d)
           n == Len(w) + 1
<1>1. v = [i \in 1 .. Len(w) + 1 |-> IF i = Len(w) + 1 THEN d ELSE w[i]]
  BY Appended
<1>2. DOMAIN w = 1 .. Len(w) /\ Len(w) \in Nat
  BY DEF IsSeq
<1> HIDE DEF v
<1>3. IsSeq(v) /\ Len(v) = n /\ DOMAIN v = 1 .. n /\ v[n] = d /\ \A i \in 1 .. Len(w) : v[i] = w[i]
  <2>1. n \in Nat
    BY <1>2
  <2>2. DOMAIN v = 1 .. n /\ v = [i \in 1 .. n |-> v[i]]
    BY <1>1
  <2>3. Len(v) = n
    BY <2>1, <2>2
  <2>4. v[n] = d /\ \A i \in 1 .. Len(w) : v[i] = w[i]
    BY <1>1, <1>2
  <2> QED
    BY <2>1, <2>2, <2>3, <2>4 DEF IsSeq
<1>4. ASSUME NEW i \in 1 .. Len(w) PROVE Repeats(w, i) => Repeats(v, i)
  <2>1. ASSUME NEW j \in 1 .. i - 1, MaybeSameWeight(w, j, i) PROVE MaybeSameWeight(v, j, i)
    <3>1. j \in 1 .. Len(w) /\ v[j] = w[j] /\ v[i] = w[i]
      BY <1>2, <1>3
    <3>2. ASSUME NEW k \in j + 1 .. i - 1 PROVE v[k] = w[k]
      BY <1>2, <1>3, <3>1
    <3> QED
      BY <2>1, <3>1, <3>2 DEF MaybeSameWeight
  <2>2. \A j \in 1 .. i - 1 : v[j] = w[j]
    BY <1>2, <1>3
  <2>3. v[i] = w[i]
    BY <1>3
  <2> QED
    BY <2>1, <2>2, <2>3 DEF Repeats
<1>5. ASSUME NEW i PROVE i \in Survivors(v) <=> \/ i \in Survivors(w) /\ ~(d.cmd = "del" /\ Covers(d, w[i]))
                                                \/ i = n /\ d.cmd = "add"
  <2>1. CASE i \in 1 .. Len(w)
    <3>1. i \in DOMAIN v /\ v[i] = w[i] /\ i # n /\ n \in i + 1 .. n
      BY <1>2, <1>3, <2>1
    <3>2. \A j : j \in i + 1 .. n <=> j \in i + 1 .. Len(w) \/ j = n
      BY <1>2, <2>1
    <3>3. \A j \in i + 1 .. Len(w) : v[j] = w[j]
      BY <1>2, <1>3, <2>1
    <3>4. (\A j \in i + 1 .. n : v[j].cmd = "del" => ~Covers(v[j], v[i])) <=>
          (\A j \in i + 1 .. Len(w) : w[j].cmd = "del" => ~Covers(w[j], w[i])) /\ ~(d.cmd = "del" /\ Covers(d, w[i]))
      BY <1>3, <3>1, <3>2, <3>3
    <3> QED
      BY <1>2, <1>3, <2>1, <3>1, <3>4 DEF Survivors
  <2>2. CASE i = n
    <3>1. i \in DOMAIN v /\ v[i] = d /\ i \notin DOMAIN w /\ i + 1 .. n = {}
      BY <1>2, <1>3, <2>2
    <3> QED
      BY <1>3, <2>2, <3>1 DEF Survivors
  <2>3. CASE i \notin 1 .. Len(w) /\ i # n
    <3>1. i \notin DOMAIN v /\ i \notin DOMAIN w
      BY <1>2, <1>3, <2>3
    <3> QED
      BY <2>3, <3>1 DEF Survivors
  <2> QED
    BY <2>1, <2>2, <2>3
<1>6. ASSUME NEW i \in 1 .. Len(w), NEW h, NEW p, NEW x, Stems(w, i, h, p, x) PROVE Stems(v, i, h, p, x)
  <2>1. v[i] = w[i]
    BY <1>3
  <2>2. ASSUME NEW k \in i + 1 .. Len(w) PROVE k \in i + 1 .. Len(v) /\ v[k] = w[k]
    BY <1>2, <1>3
  <2> QED
    BY <1>6, <2>1, <2>2 DEF Stems
<1>7. \A i \in Survivors(w) : i \in DOMAIN w
  BY DEF Survivors
<1>8. \A i \in DOMAIN w : i \in 1 .. n - 1
  BY <1>2
<1> HIDE DEF n
<1> QED
  BY <1>2, <1>3, <1>4, <1>5, <1>6, <1>7, <1>8 DEF v, n

\* An add keeps the invariant.
LEMMA AddKeeps ==
  ASSUME NEW w, IsSeq(w), NEW t, GoodTable(t), Backed(w, t), Served(w, t),
         NEW d, d.cmd = "add", IsSeq(src_path(d))
  PROVE  LET v == Append(w, d)
             u == apply_add(t, d)
         IN GoodTable(u) /\ Backed(v, u) /\ Served(v, u)
<1> DEFINE v == Append(w, d)
           u == apply_add(t, d)
           n == Len(w) + 1
           host == Lower[src_host(d)]
           path == src_path(d)
           x == NewTarget(d)
<1>1. /\ GoodTable(u)
      /\ \A h, p, y : On(t, h, p, y) => \E z : On(u, h, p, z) /\ Same(z, y)
      /\ \A h, p, z : On(u, h, p, z) => \/ \E y : On(t, h, p, y) /\ Same(y, z)
                                        \/ h = host /\ p = path /\ Same(z, x)
      /\ \E z : On(u, host, path, z) /\ z.service = d.service /\ z.url = d.dst /\ z.fixed = d.weight /\ z.source = d.source
  BY AddOn
<1>2. /\ IsSeq(v) /\ Len(v) = n /\ v[n] = d
      /\ \A i \in DOMAIN w : v[i] = w[i] /\ i \in 1 .. n - 1 /\ (Repeats(w, i) => Repeats(v, i))
      /\ \A i : i \in Survivors(v) <=> \/ i \in Survivors(w) /\ ~(d.cmd = "del" /\ Covers(d, w[i]))
                                       \/ i = n /\ d.cmd = "add"
      /\ \A i \in Survivors(w) : i \in DOMAIN w
      /\ \A i \in DOMAIN w : \A h, p, y : Stems(w, i, h, p, y) => Stems(v, i, h, p, y)
  BY OneCommandMore
<1>3. /\ x.service = d.service /\ x.url = d.dst /\ x.fixed = d.weight /\ x.tags = d.tags /\ x.opts = d.opts
      /\ x.source = d.source
  BY DEF NewTarget
<1>4. RouteNamed(d) = <<host, path>>
  BY DEF RouteNamed
<1> HIDE DEF u, v, n, host, path, x
<1>5. \A i : i \in Survivors(v) <=> i \in Survivors(w) \/ i = n
  BY <1>2
<1>6. ASSUME NEW i, NEW h, NEW p, NEW y, NEW z, Stems(v, i, h, p, y), Same(y, z) PROVE Stems(v, i, h, p, z)
  BY <1>6 DEF Stems, Same, Like
<1>7. ASSUME NEW h, NEW p, NEW z, On(u, h, p, z) PROVE \E i \in Survivors(v) : Stems(v, i, h, p, z)
  <2>1. CASE \E y : On(t, h, p, y) /\ Same(y, z)
    <3>1. PICK y : On(t, h, p, y) /\ Same(y, z)
      BY <2>1
    <3>2. PICK i \in Survivors(w) : Stems(w, i, h, p, y)
      BY <3>1 DEF Backed
    <3>3. i \in Survivors(v) /\ Stems(v, i, h, p, y)
      BY <1>2, <1>5, <3>2
    <3> QED
      BY <1>6, <3>1, <3>3
  <2>2. CASE h = host /\ p = path /\ Same(z, x)
    <3>1. Stems(v, n, h, p, z)
      BY <1>2, <1>3, <1>4, <2>2 DEF Stems, Same, Like
    <3> QED
      BY <1>5, <3>1
  <2> QED
    BY <1>1, <1>7, <2>1, <2>2
<1>8. ASSUME NEW i \in Survivors(w) PROVE Repeats(v, i) \/ Serves(u, v[i])
  <2>1. i \in DOMAIN w /\ v[i] = w[i] /\ (Repeats(w, i) => Repeats(v, i))
    BY <1>2
  <2>2. CASE Repeats(w, i)
    BY <2>1, <2>2
  <2>3. CASE Serves(t, w[i])
    <3>1. PICK y : /\ On(t, Lower[src_host(w[i])], src_path(w[i]), y)
                   /\ y.service = w[i].service /\ y.url = w[i].dst /\ y.source = w[i].source
                   /\ y.tags = w[i].tags /\ y.opts = w[i].opts
      BY <2>3 DEF Serves
    <3>2. PICK z : On(u, Lower[src_host(w[i])], src_path(w[i]), z) /\ Same(z, y)
      BY <1>1, <3>1
    <3>3. Serves(u, w[i])
      BY <3>1, <3>2 DEF Serves, Same, Like
    <3> QED
      BY <2>1, <3>3
  <2> QED
    BY <2>2, <2>3 DEF Served
<1>9. Repeats(v, n) \/ Serves(u, v[n])
  <2>1. PICK z : On(u, host, path, z) /\ z.service = d.service /\ z.url = d.dst /\ z.fixed = d.weight /\ z.source = d.source
    BY <1>1
  <2>2. CASE Same(z, x)
    <3>1. Serves(u, d)
      BY <1>3, <2>1, <2>2 DEF Serves, Same, Like, host, path
    <3> QED
      BY <1>2, <3>1
  <2>3. CASE \E y : On(t, host, path, y) /\ Same(y, z)
    <3>1. PICK y : On(t, host, path, y) /\ Same(y, z)
      BY <2>3
    <3>2. PICK j \in Survivors(w) : Stems(w, j, host, path, y)
      BY <3>1 DEF Backed
    <3>3. j \in DOMAIN w /\ v[j] = w[j] /\ j \in 1 .. n - 1 /\ w[j].cmd = "add"
      BY <1>2, <3>2 DEF Survivors
    <3>4. /\ RouteNamed(w[j]) = <<host, path>> /\ y.service = w[j].service /\ y.url = w[j].dst
          /\ y.tags = w[j].tags /\ y.opts = w[j].opts /\ y.source = w[j].source
          /\ \/ y.fixed = w[j].weight
             \/ \E k \in j + 1 .. Len(w) : w[k].cmd = "weight" /\ RouteNamed(w[k]) = <<host, path>>
      BY <3>2 DEF Stems
    <3>5. /\ y.service = d.service /\ y.url = d.dst /\ y.fixed = d.weight /\ y.source = d.source
          /\ y.tags = z.tags /\ y.opts = z.opts
      BY <2>1, <3>1 DEF Same, Like
    <3>6. CASE w[j].tags = d.tags /\ w[j].opts = d.opts
      <4>1. Serves(u, d)
        BY <2>1, <3>4, <3>5, <3>6 DEF Serves, host, path
      <4> QED
        BY <1>2, <4>1
    <3>7. CASE ~(w[j].tags = d.tags /\ w[j].opts = d.opts)
      <4>1. Asked(v[j]) # Asked(v[n])
        BY <1>2, <3>3, <3>7 DEF Asked
      <4>2. MaybeSameWeight(v, j, n)
        <5>1. CASE y.fixed = w[j].weight
          BY <1>2, <3>3, <3>5, <5>1 DEF MaybeSameWeight
        <5>2. CASE \E k \in j + 1 .. Len(w) : w[k].cmd = "weight" /\ RouteNamed(w[k]) = <<host, path>>
          <6>1. PICK k \in j + 1 .. Len(w) : w[k].cmd = "weight" /\ RouteNamed(w[k]) = <<host, path>>
            BY <5>2
          <6>2. Len(w) \in Nat /\ DOMAIN w = 1 .. Len(w)
            BY DEF IsSeq
          <6>3. k \in DOMAIN w /\ k \in j + 1 .. n - 1
            BY <3>3, <6>2 DEF n
          <6>4. v[k] = w[k]
            BY <1>2, <6>3
          <6> QED
            BY <1>2, <1>4, <6>1, <6>3, <6>4 DEF MaybeSameWeight
        <5> QED
          BY <3>4, <5>1, <5>2
      <4>3. /\ v[j].cmd = "add" /\ RouteNamed(v[j]) = RouteNamed(v[n])
            /\ v[j].service = v[n].service /\ v[j].dst = v[n].dst /\ v[j].source = v[n].source
        BY <1>2, <1>4, <3>3, <3>4, <3>5
      <4>4. Repeats(v, n)
        BY <3>3, <4>1, <4>2, <4>3 DEF Repeats
      <4> QED
        BY <4>4
    <3> QED
      BY <3>6, <3>7
  <2> QED
    BY <1>1, <2>1, <2>2, <2>3
<1>10. Backed(v, u) /\ Served(v, u)
  BY <1>5, <1>7, <1>8, <1>9 DEF Backed, Served
<1> QED
  BY <1>1, <1>10 DEF u, v

\* A del keeps the invariant.
LEMMA DelKeeps ==
  ASSUME NEW w, IsSeq(w), NEW t, GoodTable(t), Backed(w, t), Served(w, t), NEW d, d.cmd = "del"
  PROVE  LET v == Append(w, d)
             u == apply_del(t, d)
         IN GoodTable(u) /\ Backed(v, u) /\ Served(v, u)
<1> DEFINE v == Append(w, d)
           u == apply_del(t, d)
           n == Len(w) + 1
           Gone(h, p, x) == InScope(d, h, p) /\ Takes(d, x)
<1>1. /\ GoodTable(u)
      /\ \A h, p, z : On(u, h, p, z) => \E y : On(t, h, p, y) /\ Same(y, z) /\ ~Gone(h, p, y)
      /\ \A h, p, y : On(t, h, p, y) /\ ~Gone(h, p, y) => \E z : On(u, h, p, z) /\ Same(z, y)
  BY DelOn
<1>2. /\ \A i \in DOMAIN w : v[i] = w[i] /\ (Repeats(w, i) => Repeats(v, i))
      /\ \A i : i \in Survivors(v) <=> \/ i \in Survivors(w) /\ ~(d.cmd = "del" /\ Covers(d, w[i]))
                                       \/ i = n /\ d.cmd = "add"
      /\ \A i \in Survivors(w) : i \in DOMAIN w
      /\ \A i \in DOMAIN w : \A h, p, y : Stems(w, i, h, p, y) => Stems(v, i, h, p, y)
  BY OneCommandMore
<1> HIDE DEF u, v, n
<1>3. \A i : i \in Survivors(v) <=> i \in Survivors(w) /\ ~Covers(d, w[i])
  BY <1>2
<1>4. ASSUME NEW a, NEW y, y.service = a.service, y.url = a.dst, y.tags = a.tags
      PROVE  Covers(d, a) <=> Gone(Lower[src_host(a)], src_path(a), y)
  <2>1. Covers(d, a) <=> /\ InScope(d, Lower[src_host(a)], src_path(a))
                         /\ d.service = Blank \/ a.service = d.service
                         /\ d.tags \subseteq a.tags
                         /\ d.dst = Blank \/ a.dst = d.dst
    BY DEF Covers
  <2> QED
    BY <1>4, <2>1 DEF Takes, Selects
<1>5. ASSUME NEW h, NEW p, NEW z, On(u, h, p, z) PROVE \E i \in Survivors(v) : Stems(v, i, h, p, z)
  <2>1. PICK y : On(t, h, p, y) /\ Same(y, z) /\ ~Gone(h, p, y)
    BY <1>1, <1>5
  <2>2. PICK i \in Survivors(w) : Stems(w, i, h, p, y)
    BY <2>1 DEF Backed
  <2>3. h = Lower[src_host(w[i])] /\ p = src_path(w[i]) /\ y.service = w[i].service /\ y.url = w[i].dst /\ y.tags = w[i].tags
    BY <2>2 DEF Stems, RouteNamed
  <2>4. ~Covers(d, w[i])
    <3> HIDE DEF Gone
    <3> QED
      BY <1>4, <2>1, <2>3
  <2>5. i \in Survivors(v) /\ Stems(v, i, h, p, y)
    BY <1>2, <1>3, <2>2, <2>4
  <2>6. Stems(v, i, h, p, z)
    BY <2>1, <2>5 DEF Stems, Same, Like
  <2> QED
    BY <2>5, <2>6
<1>6. ASSUME NEW i \in Survivors(v) PROVE Repeats(v, i) \/ Serves(u, v[i])
  <2>1. i \in Survivors(w) /\ i \in DOMAIN w /\ v[i] = w[i] /\ (Repeats(w, i) => Repeats(v, i)) /\ ~Covers(d, w[i])
    BY <1>2, <1>3
  <2>2. CASE Repeats(w, i)
    BY <2>1, <2>2
  <2>3. CASE Serves(t, w[i])
    <3>1. PICK y : /\ On(t, Lower[src_host(w[i])], src_path(w[i]), y)
                   /\ y.service = w[i].service /\ y.url = w[i].dst /\ y.source = w[i].source
                   /\ y.tags = w[i].tags /\ y.opts = w[i].opts
      BY <2>3 DEF Serves
    <3>2. ~Gone(Lower[src_host(w[i])], src_path(w[i]), y)
      <4> HIDE DEF Gone
      <4> QED
        BY <1>4, <2>1, <3>1
    <3>3. PICK z : On(u, Lower[src_host(w[i])], src_path(w[i]), z) /\ Same(z, y)
      BY <1>1, <3>1, <3>2
    <3>4. Serves(u, w[i])
      BY <3>1, <3>3 DEF Serves, Same, Like
    <3> QED
      BY <2>1, <3>4
  <2> QED
    BY <2>1, <2>2, <2>3 DEF Served
<1>7. Backed(v, u) /\ Served(v, u)
  BY <1>5, <1>6 DEF Backed, Served
<1> QED
  BY <1>1, <1>7 DEF u, v

\* A weight command keeps the invariant.
LEMMA WeightKeeps ==
  ASSUME NEW w, IsSeq(w), NEW t, GoodTable(t), Backed(w, t), Served(w, t), NEW d, d.cmd = "weight"
  PROVE  LET v == Append(w, d)
             u == apply_weight(t, d)
         IN GoodTable(u) /\ Backed(v, u) /\ Served(v, u)
<1> DEFINE v == Append(w, d)
           u == apply_weight(t, d)
           n == Len(w) + 1
           Kept(h, p, x, y) == Like(x, y) /\ (x.fixed = y.fixed \/ (h = Lower[src_host(d)] /\ p = src_path(d)))
<1>1. /\ GoodTable(u)
      /\ \A h, p, z : On(u, h, p, z) => \E y : On(t, h, p, y) /\ Kept(h, p, y, z)
      /\ \A h, p, y : On(t, h, p, y) => \E z : On(u, h, p, z) /\ Kept(h, p, y, z)
  BY WeightOn
<1>2. /\ Len(v) = n /\ v[n] = d
      /\ \A i \in DOMAIN w : v[i] = w[i] /\ i \in 1 .. n - 1 /\ (Repeats(w, i) => Repeats(v, i))
      /\ \A i : i \in Survivors(v) <=> \/ i \in Survivors(w) /\ ~(d.cmd = "del" /\ Covers(d, w[i]))
                                       \/ i = n /\ d.cmd = "add"
      /\ \A i \in Survivors(w) : i \in DOMAIN w
      /\ \A i \in DOMAIN w : \A h, p, y : Stems(w, i, h, p, y) => Stems(v, i, h, p, y)
  BY OneCommandMore
<1>3. n \in Nat
  BY DEF IsSeq
<1> HIDE DEF u, v, n
<1>4. \A i : i \in Survivors(v) <=> i \in Survivors(w)
  BY <1>2
<1>5. ASSUME NEW h, NEW p, NEW z, On(u, h, p, z) PROVE \E i \in Survivors(v) : Stems(v, i, h, p, z)
  <2>1. PICK y : On(t, h, p, y) /\ Kept(h, p, y, z)
    BY <1>1, <1>5
  <2>2. PICK i \in Survivors(w) : Stems(w, i, h, p, y)
    BY <2>1 DEF Backed
  <2>3. i \in Survivors(v) /\ Stems(v, i, h, p, y) /\ i \in 1 .. n - 1
    BY <1>2, <1>4, <2>2
  <2>4. CASE y.fixed = z.fixed
    <3>1. Stems(v, i, h, p, z)
      BY <2>1, <2>3, <2>4 DEF Stems, Like
    <3> QED
      BY <2>3, <3>1
  <2>5. CASE h = Lower[src_host(d)] /\ p = src_path(d)
    <3>1. n \in i + 1 .. Len(v) /\ v[n].cmd = "weight" /\ RouteNamed(v[n]) = <<h, p>>
      BY <1>2, <1>3, <2>3, <2>5 DEF RouteNamed
    <3>2. Stems(v, i, h, p, z)
      BY <2>1, <2>3, <3>1 DEF Stems, Like
    <3> QED
      BY <2>3, <3>2
  <2> QED
    BY <2>1, <2>4, <2>5
<1>6. ASSUME NEW i \in Survivors(v) PROVE Repeats(v, i) \/ Serves(u, v[i])
  <2>1. i \in Survivors(w) /\ i \in DOMAIN w /\ v[i] = w[i] /\ (Repeats(w, i) => Repeats(v, i))
    BY <1>2, <1>4
  <2>2. CASE Repeats(w, i)
    BY <2>1, <2>2
  <2>3. CASE Serves(t, w[i])
    <3>1. PICK y : /\ On(t, Lower[src_host(w[i])], src_path(w[i]), y)
                   /\ y.service = w[i].service /\ y.url = w[i].dst /\ y.source = w[i].source
                   /\ y.tags = w[i].tags /\ y.opts = w[i].opts
      BY <2>3 DEF Serves
    <3>2. PICK z : On(u, Lower[src_host(w[i])], src_path(w[i]), z) /\ Like(y, z)
      BY <1>1, <3>1
    <3>3. Serves(u, w[i])
      BY <3>1, <3>2 DEF Serves, Like
    <3> QED
      BY <2>1, <3>3
  <2> QED
    BY <2>1, <2>2, <2>3 DEF Served
<1>7. Backed(v, u) /\ Served(v, u)
  BY <1>5, <1>6 DEF Backed, Served
<1> QED
  BY <1>1, <1>7 DEF u, v

\* Any command keeps the invariant.
LEMMA CommandKeeps ==
  ASSUME NEW w, IsSeq(w), NEW t, GoodTable(t), Backed(w, t), Served(w, t),
         NEW d, d.cmd \in {"add", "del", "weight"}, IsSeq(src_path(d))
  PROVE  LET v == Append(w, d)
             u == apply(t, d)
         IN GoodTable(u) /\ Backed(v, u) /\ Served(v, u)
<1>1. CASE d.cmd = "add"
  <2>1. apply(t, d) = apply_add(t, d)
    BY <1>1 DEF apply
  <2> QED
    BY <1>1, <2>1, AddKeeps
<1>2. CASE d.cmd = "del"
  <2>1. apply(t, d) = apply_del(t, d)
    BY <1>2 DEF apply
  <2> QED
    BY <1>2, <2>1, DelKeeps
<1>3. CASE d.cmd = "weight"
  <2>1. apply(t, d) = apply_weight(t, d)
    BY <1>3 DEF apply
  <2> QED
    BY <1>3, <2>1, WeightKeeps
<1> QED
  BY <1>1, <1>2, <1>3

\* The path of a definition is a sequence.
LEMMA PathIsSeq ==
  ASSUME NEW d, d.src \in DOMAIN PathOf \cup {Blank}
  PROVE  IsSeq(src_path(d))
<1> DEFINE path == src_path(d)
<1>1. CASE d.src = Blank
  <2>1. path = << >>
    BY <1>1 DEF src_path
  <2> HIDE DEF path
  <2>2. IsSeq(path)
    BY <2>1 DEF IsSeq
  <2> QED
    BY <2>2 DEF path
<1>2. CASE d.src # Blank
  <2>1. path = PathOf[d.src]
    BY <1>2 DEF src_path
  <2> DEFINE S == Range(PathOf[d.src])
  <2>2. PathOf[d.src] \in Seq(S)
    BY <1>2, TableAssumption
  <2> HIDE DEF path, S
  <2>3. path \in Seq(S)
    BY <2>1, <2>2
  <2>4. IsSeq(path)
    BY <2>3 DEF IsSeq
  <2> QED
    BY <2>4 DEF path
<1> QED
  BY <1>1, <1>2

\* One definition more, of a line or of a tag, keeps the invariant.
LEMMA DefinitionKeeps ==
  ASSUME TableInv, NEW d, d.cmd \in {"add", "del", "weight"}, d.src \in DOMAIN PathOf \cup {Blank},
         Len(written) < MaxCommands, written' = Append(written, d),
         route_table' = apply(route_table, d), phase' = phase, phase # "built"
  PROVE  TableInv'
<1>1. /\ IsSeq(written) /\ GoodTable(route_table) /\ Backed(written, route_table) /\ Served(written, route_table)
  BY DEF TableInv
<1>2. IsSeq(written') /\ Len(written') = Len(written) + 1
  BY <1>1, OneCommandMore
<1>3. Len(written') <= MaxCommands
  <2>1. Len(written) \in Nat /\ MaxCommands \in Nat
    BY <1>1, TableAssumption DEF IsSeq
  <2> QED
    BY <1>2, <2>1
<1>4. IsSeq(src_path(d))
  BY PathIsSeq
<1>5. GoodTable(route_table') /\ Backed(written', route_table') /\ Served(written', route_table')
  BY <1>1, <1>4, CommandKeeps
<1>6. phase' \in {"static", "kv", "service", "built"} /\ ~IsBuilt'
  BY DEF TableInv, IsBuilt
<1> QED
  BY <1>2, <1>3, <1>5, <1>6 DEF TableInv

\* The invariant holds in every state.
LEMMA TableInvariant ==
  TableSpec => []TableInv
<1>1. ASSUME TableInit PROVE TableInv
  <2>1. written = << >> /\ route_table = EmptyTable /\ phase = "static"
    BY <1>1 DEF TableInit
  <2>2. IsSeq(written) /\ Len(written) = 0 /\ DOMAIN written = {}
    BY <2>1 DEF IsSeq
  <2>3. DOMAIN route_table = {}
    BY <2>1 DEF EmptyTable
  <2>4. GoodTable(route_table) /\ Backed(written, route_table)
    BY <2>3 DEF GoodTable, Backed, On
  <2>5. Served(written, route_table)
    BY <2>2 DEF Served, Survivors
  <2>6. 0 <= MaxCommands
    BY TableAssumption
  <2> QED
    BY <2>1, <2>2, <2>4, <2>5, <2>6 DEF TableInv, IsBuilt
<1>2. ASSUME TableInv, [TableNext]_tableVars PROVE TableInv'
  <2>1. ASSUME NEW s \in DOMAIN Commands, NEW c \in Commands[s], ReadCommand(c) PROVE TableInv'
    <3> DEFINE m == Meaning(c)
               d == Marked(m, phase)
    <3>1. PICK line \in Grammar(c) : Read(line, Append(written, d))
      BY <2>1 DEF ReadCommand
    <3>2. parse_line(line) = m
      BY LinesAreUnderstood
    <3>3. c.cmd \in {"add", "del", "weight"} /\ c.src \in DOMAIN PathOf \cup {Blank}
      BY TableAssumption DEF Documented
    <3>4. m.cmd = c.cmd /\ m.src = c.src /\ m # NoDef
      BY <3>3 DEF Meaning, NoDef
    <3> HIDE DEF m
    <3>5. d.cmd = c.cmd /\ d.src = c.src
      BY <3>4 DEF Marked
    <3>6. /\ phase \in DOMAIN Commands /\ Len(written) < MaxCommands /\ written' = Append(written, d)
          /\ route_table' = apply(route_table, d) /\ phase' = phase
      BY <3>1, <3>2, <3>4 DEF Read
    <3>7. phase # "built"
      BY <3>6, TableAssumption
    <3> HIDE DEF d
    <3> QED
      BY <1>2, <3>3, <3>5, <3>6, <3>7, DefinitionKeeps
  <2>2. ASSUME NEW line \in Junk, ReadJunk(line) PROVE TableInv'
    <3>1. parse_line(line) = NoDef
      BY JunkIsIgnored
    <3>2. written' = written /\ route_table' = route_table /\ phase' = phase
      BY <2>2, <3>1 DEF ReadJunk, Read
    <3> QED
      BY <1>2, <3>2 DEF TableInv, IsBuilt
  <2>6. ASSUME NEW c \in Discovered, Discover(c) PROVE TableInv'
    <3> DEFINE d == Marked(Tagged(c), "service")
    <3>1. d.cmd = "add" /\ d.src = c.src /\ c.src \in DOMAIN PathOf
      BY TableAssumption DEF Marked, Tagged
    <3>2. /\ phase = "service" /\ Len(written) < MaxCommands /\ written' = Append(written, d)
          /\ route_table' = apply(route_table, d) /\ phase' = phase
      BY <2>6 DEF Discover
    <3> HIDE DEF d
    <3> QED
      BY <1>2, <3>1, <3>2, DefinitionKeeps
  <2>7. ASSUME NextSource PROVE TableInv'
    BY <1>2, <2>7 DEF NextSource, TableInv, IsBuilt
  <2>3. ASSUME Finalize PROVE TableInv'
    <3>1. phase' = "built" /\ route_table' \in finalize(route_table) /\ written' = written
      BY <2>3 DEF Finalize
    <3>2. /\ IsSeq(written) /\ Len(written) <= MaxCommands
          /\ GoodTable(route_table) /\ Backed(written, route_table) /\ Served(written, route_table)
      BY <1>2 DEF TableInv
    <3>3. /\ GoodTable(route_table') /\ RoutesInOrder(route_table')
          /\ \A h, p, x : On(route_table', h, p, x) <=> On(route_table, h, p, x)
      BY <3>1, <3>2, SortOn
    <3>4. Backed(written, route_table') /\ Served(written, route_table')
      BY <3>2, <3>3 DEF Backed, Served, Serves
    <3> QED
      BY <3>1, <3>2, <3>3, <3>4 DEF TableInv
  <2>4. ASSUME StartRebuild PROVE TableInv'
    <3>1. written' = << >> /\ route_table' = EmptyTable /\ phase' = "static"
      BY <2>4 DEF StartRebuild
    <3>2. IsSeq(written') /\ Len(written') = 0 /\ DOMAIN written' = {}
      BY <3>1 DEF IsSeq
    <3>3. DOMAIN route_table' = {}
      BY <3>1 DEF EmptyTable
    <3>4. GoodTable(route_table') /\ Backed(written', route_table')
      BY <3>3 DEF GoodTable, Backed, On
    <3>5. Served(written', route_table')
      BY <3>2 DEF Served, Survivors
    <3>6. 0 <= MaxCommands
      BY TableAssumption
    <3> QED
      BY <3>1, <3>2, <3>4, <3>5, <3>6 DEF TableInv, IsBuilt
  <2>5. CASE UNCHANGED tableVars
    BY <1>2, <2>5 DEF tableVars, TableInv, IsBuilt
  <2> QED
    BY <1>2, <2>1, <2>2, <2>3, <2>4, <2>5, <2>6, <2>7 DEF TableNext
<1> QED
  BY <1>1, <1>2, PTL DEF TableSpec

\* The table means what the commands say, for every set of commands and
\* whatever lines are read in between (parse_line, apply, finalize).
THEOREM TableMeansWhatWasSaid ==
  TableSpec => []TableIsRight
<1>1. ASSUME TableInv PROVE TableIsRight
  <2>1. /\ phase \in {"static", "kv", "service", "built"} /\ Len(written) <= MaxCommands
        /\ GoodTable(route_table) /\ Backed(written, route_table) /\ Served(written, route_table)
    BY <1>1 DEF TableInv
  <2>2. TableTypeOK
    BY <2>1 DEF TableTypeOK, GoodTable, IsRoutes
  <2>3. ASSUME NEW e \in Held(route_table) PROVE e \in {Asked(written[i]) : i \in Survivors(written)}
    <3>a. PICK h \in DOMAIN route_table :
             e \in UNION {{<<<<h, r.path>>, x.service, x.url, x.source, x.tags, x.opts>> : x \in ToSet(r.targets)} :
                             r \in ToSet(route_table[h])}
      BY <2>3 DEF Held
    <3>b. PICK r \in ToSet(route_table[h]) :
             e \in {<<<<h, r.path>>, x.service, x.url, x.source, x.tags, x.opts>> : x \in ToSet(r.targets)}
      BY <3>a
    <3>1. PICK x \in ToSet(r.targets) : e = <<<<h, r.path>>, x.service, x.url, x.source, x.tags, x.opts>>
      BY <3>b
    <3>2. On(route_table, h, r.path, x)
      BY <3>1 DEF On, In, ToSet
    <3>3. PICK i \in Survivors(written) : Stems(written, i, h, r.path, x)
      BY <2>1, <3>2 DEF Backed
    <3>4. e = Asked(written[i])
      BY <3>1, <3>3 DEF Stems, Asked
    <3> QED
      BY <3>4
  <2>4. ASSUME NEW i \in Survivors(written), ~Repeats(written, i) PROVE Asked(written[i]) \in Held(route_table)
    <3> DEFINE d == written[i]
               host == Lower[src_host(d)]
    <3>1. PICK x : /\ On(route_table, host, src_path(d), x)
                   /\ x.service = d.service /\ x.url = d.dst /\ x.source = d.source /\ x.tags = d.tags /\ x.opts = d.opts
      BY <2>1, <2>4 DEF Served, Serves
    <3>2. Asked(d) = <<<<host, src_path(d)>>, d.service, d.dst, d.source, d.tags, d.opts>>
      BY DEF Asked, RouteNamed
    <3> HIDE DEF host, d
    <3>3. /\ host \in DOMAIN route_table
          /\ \E r \in ToSet(route_table[host]) : r.path = src_path(d) /\ x \in ToSet(r.targets)
      BY <3>1 DEF On, In, ToSet
    <3>4. Asked(d) \in Held(route_table)
      BY <3>1, <3>2, <3>3 DEF Held
    <3> QED
      BY <3>4 DEF d
  <2>5. \A h \in DOMAIN route_table : route_table[h] # << >>
    BY <2>1 DEF GoodTable, Full
  <2>6. \A r \in AllRoutes : r.targets # << >>
    BY <2>1 DEF AllRoutes, ToSet, GoodTable, Full
  <2> QED
    BY <2>2, <2>3, <2>4, <2>5, <2>6 DEF TableIsRight, TableMeansCommands
<1> QED
  BY <1>1, TableInvariant, PTL

----------------------------------------------------------------------------
(* Lookups. *)

\* The routes of a host that is not in the table are none.
LEMMA HostRoutesAreGood ==
  ASSUME NEW t, GoodTable(t), NEW h
  PROVE  LET s == HostRoutes(t, h)
         IN /\ IsRoutes(s) /\ \A i \in DOMAIN s : i \in Nat /\ s[i].targets # << >>
            /\ RoutesInOrder(t) => \A i, j \in DOMAIN s : i < j => ~MoreSpecific(s[j], s[i])
<1> DEFINE s == HostRoutes(t, h)
<1>1. CASE h \in DOMAIN t
  <2>1. s = t[h]
    BY <1>1 DEF HostRoutes
  <2> HIDE DEF s
  <2>2. IsRoutes(s) /\ \A i \in DOMAIN s : s[i].targets # << >>
    BY <1>1, <2>1 DEF GoodTable, Full
  <2>3. DOMAIN s = 1 .. Len(s)
    BY <2>2 DEF IsRoutes, IsSeq
  <2>4. RoutesInOrder(t) => \A i, j \in DOMAIN s : i < j => ~MoreSpecific(s[j], s[i])
    BY <1>1, <2>1 DEF RoutesInOrder
  <2>5. \A i \in DOMAIN s : i \in Nat
    BY <2>3
  <2> QED
    BY <2>2, <2>4, <2>5 DEF s
<1>2. CASE h \notin DOMAIN t
  <2>1. s = << >>
    BY <1>2 DEF HostRoutes
  <2> HIDE DEF s
  <2>2. IsSeq(s) /\ DOMAIN s = {}
    BY <2>1 DEF IsSeq
  <2>3. IsRoutes(s)
    BY <2>2 DEF IsRoutes
  <2> QED
    BY <2>2, <2>3 DEF s
<1> QED
  BY <1>1, <1>2

\* On one host: the candidates, the first of them, and their paths.
LEMMA HostLookup ==
  ASSUME NEW t, GoodTable(t), RoutesInOrder(t), NEW h, NEW path, NEW m
  PROVE  LET s == HostRoutes(t, h)
             at == Candidates(s, path, m)
             matching == {r \in ToSet(s) : Matches(m, r, path)}
             collected == Retain(s, at)
         IN /\ at = {} <=> matching = {}
            /\ IsSeq(collected) /\ (at = {} <=> collected = << >>)
            /\ at # {} => /\ s[Min(at)] \in matching
                          /\ \A r \in matching : Len(r.path) <= Len(s[Min(at)].path)
                          /\ 1 \in DOMAIN collected /\ collected[1] = s[Min(at)]
<1> DEFINE s == HostRoutes(t, h)
           at == Candidates(s, path, m)
           matching == {r \in ToSet(s) : Matches(m, r, path)}
           collected == Retain(s, at)
<1>1. /\ IsRoutes(s) /\ \A i \in DOMAIN s : i \in Nat /\ s[i].targets # << >>
      /\ \A i, j \in DOMAIN s : i < j => ~MoreSpecific(s[j], s[i])
  BY HostRoutesAreGood
<1> HIDE DEF s
<1>2. \A i : i \in at <=> i \in DOMAIN s /\ Matches(m, s[i], path)
  BY <1>1 DEF Candidates
<1>3. \A r : r \in matching <=> \E i \in at : r = s[i]
  BY <1>2 DEF ToSet
<1>4. IsSeq(s) /\ at \subseteq DOMAIN s /\ at \subseteq Nat
  BY <1>1, <1>2 DEF IsRoutes
<1> HIDE DEF at, matching
<1>5. /\ IsSeq(collected) /\ (at # {} <=> collected # << >>)
      /\ at # {} => 1 \in DOMAIN collected /\ collected[1] = s[Min(at)]
  BY <1>4, Retained
<1> HIDE DEF collected
<1>6. at = {} <=> matching = {}
  BY <1>3
<1>7. ASSUME at # {} PROVE s[Min(at)] \in matching /\ \A r \in matching : Len(r.path) <= Len(s[Min(at)].path)
  <2> DEFINE a == Min(at)
  <2>1. a \in at /\ \A i \in at : a <= i
    BY <1>4, <1>7, LeastPosition
  <2> HIDE DEF a
  <2>2. s[a] \in matching
    BY <1>3, <2>1
  <2>3. ASSUME NEW r \in matching PROVE Len(r.path) <= Len(s[a].path)
    <3>1. PICK i \in at : r = s[i]
      BY <1>3
    <3>2. i \in Nat /\ a \in Nat /\ i \in DOMAIN s /\ a \in DOMAIN s /\ a <= i
      BY <1>4, <2>1
    <3>3. Len(s[i].path) \in Nat /\ Len(s[a].path) \in Nat
      BY <1>1, <3>2 DEF IsRoutes, IsSeq
    <3>4. CASE i = a
      BY <3>1, <3>3, <3>4
    <3>5. CASE i # a
      <4>1. ~MoreSpecific(s[i], s[a])
        BY <1>1, <3>2, <3>5
      <4>2. ~(Len(s[i].path) > Len(s[a].path))
        BY <4>1 DEF MoreSpecific
      <4> QED
        BY <3>1, <3>3, <4>2
    <3> QED
      BY <3>4, <3>5
  <2> QED
    BY <2>2, <2>3 DEF a
<1> QED
  BY <1>5, <1>6, <1>7 DEF s, at, matching, collected

\* Every lookup finds the route it should, on every table that commands can
\* build (lookup_route, matching_routes, tcp_listener_ports, lookup_tcp_route
\* and its callers, whose two ways to read a port differ).
THEOREM LookupsFindTheRoute ==
  TableSpec => []LookupsAreRight
<1>1. ASSUME TableInv PROVE LongestPrefixWins
  <2> SUFFICES ASSUME IsBuilt, NEW host \in DOMAIN Lower, NEW path \in RequestPaths, NEW m \in Matchers
               PROVE  LET M(h) == {r \in ToSet(HostRoutes(route_table, h)) : Matches(m, r, path)}
                          best == IF M(Lower[host]) # {} THEN M(Lower[host]) ELSE M(Blank)
                          found == lookup_route(route_table, host, path, m)
                          all == matching_routes(route_table, host, path, m)
                      IN IF best = {} THEN found = NoRoute /\ all = << >>
                         ELSE /\ found \in best
                              /\ \A r \in best : Len(r.path) <= Len(found.path)
                              /\ found = Head(all)
    BY DEF LongestPrefixWins
  <2> DEFINE t == route_table
             key == Lower[host]
             S(h) == HostRoutes(t, h)
             M(h) == {r \in ToSet(S(h)) : Matches(m, r, path)}
             At(h) == Candidates(S(h), path, m)
             C(h) == Retain(S(h), At(h))
             First(h) == S(h)[Min(At(h))]
             best == IF M(key) # {} THEN M(key) ELSE M(Blank)
             found == lookup_route(t, host, path, m)
             all == matching_routes(t, host, path, m)
  <2>1. GoodTable(t) /\ RoutesInOrder(t)
    BY <1>1 DEF TableInv
  <2>2. found = IF At(key) # {} THEN First(key) ELSE IF At(Blank) # {} THEN First(Blank) ELSE NoRoute
    BY DEF lookup_route
  <2>3. all = C(key) \o (IF key = Blank THEN << >> ELSE C(Blank))
    BY DEF matching_routes
  <2>4. \A h : /\ At(h) = {} <=> M(h) = {}
               /\ IsSeq(C(h)) /\ (At(h) = {} <=> C(h) = << >>)
               /\ At(h) # {} => /\ First(h) \in M(h)
                                /\ \A r \in M(h) : Len(r.path) <= Len(First(h).path)
                                /\ 1 \in DOMAIN C(h) /\ C(h)[1] = First(h)
    <3>1. ASSUME NEW h PROVE /\ At(h) = {} <=> M(h) = {}
                             /\ IsSeq(C(h)) /\ (At(h) = {} <=> C(h) = << >>)
                             /\ At(h) # {} => /\ First(h) \in M(h)
                                              /\ \A r \in M(h) : Len(r.path) <= Len(First(h).path)
                                              /\ 1 \in DOMAIN C(h) /\ C(h)[1] = First(h)
      BY <2>1, HostLookup
    <3> QED
      BY <3>1
  <2> HIDE DEF M, At, C, First, found, all, key, t, S
  <2> DEFINE rest == IF key = Blank THEN << >> ELSE C(Blank)
  <2>5. IsSeq(C(key)) /\ IsSeq(rest)
    BY <2>4 DEF IsSeq
  <2>6. /\ all = [i \in 1 .. Len(C(key)) + Len(rest) |-> IF i <= Len(C(key)) THEN C(key)[i] ELSE rest[i - Len(C(key))]]
        /\ IsSeq(all) /\ Len(all) = Len(C(key)) + Len(rest)
    BY <2>3, <2>5, Joined
  <2> HIDE DEF rest
  <2>7. \A s : s # << >> => Head(s) = s[1]
    OBVIOUS
  <2>8. CASE At(key) # {}
    <3>1. best = M(key) /\ found = First(key) /\ best # {}
      BY <2>2, <2>4, <2>8
    <3>2. 1 \in DOMAIN C(key) /\ C(key)[1] = First(key) /\ First(key) \in M(key)
          /\ \A r \in M(key) : Len(r.path) <= Len(First(key).path)
      BY <2>4, <2>8
    <3>3. 1 \in 1 .. Len(C(key)) /\ Len(C(key)) \in Nat /\ Len(rest) \in Nat
      BY <2>5, <3>2 DEF IsSeq
    <3>4. 1 \in DOMAIN all /\ all[1] = First(key)
      BY <2>6, <3>2, <3>3
    <3>5. all # << >>
      BY <3>4
    <3>6. found = Head(all)
      BY <2>7, <3>1, <3>4, <3>5
    <3> HIDE DEF best
    <3>7. best # {} /\ found \in best /\ (\A r \in best : Len(r.path) <= Len(found.path)) /\ found = Head(all)
      BY <3>1, <3>2, <3>6
    <3> QED
      BY <3>7 DEF best, found, all, M, key, t, S
  <2>9. CASE At(key) = {} /\ At(Blank) # {}
    <3>1. best = M(Blank) /\ found = First(Blank) /\ best # {} /\ key # Blank
      BY <2>2, <2>4, <2>9
    <3>2. 1 \in DOMAIN C(Blank) /\ C(Blank)[1] = First(Blank) /\ First(Blank) \in M(Blank)
          /\ \A r \in M(Blank) : Len(r.path) <= Len(First(Blank).path)
      BY <2>4, <2>9
    <3>3. rest = C(Blank) /\ C(key) = << >>
      BY <2>4, <2>9, <3>1 DEF rest
    <3>4. 1 \in 1 .. Len(rest) /\ Len(rest) \in Nat /\ Len(C(key)) = 0
      BY <2>5, <3>2, <3>3 DEF IsSeq
    <3>5. 1 \in DOMAIN all /\ all[1] = First(Blank)
      BY <2>6, <3>2, <3>3, <3>4
    <3>6. all # << >>
      BY <3>5
    <3>7. found = Head(all)
      BY <2>7, <3>1, <3>5, <3>6
    <3> HIDE DEF best
    <3>8. best # {} /\ found \in best /\ (\A r \in best : Len(r.path) <= Len(found.path)) /\ found = Head(all)
      BY <3>1, <3>2, <3>7
    <3> QED
      BY <3>8 DEF best, found, all, M, key, t, S
  <2>10. CASE At(key) = {} /\ At(Blank) = {}
    <3>1. best = {} /\ found = NoRoute
      BY <2>2, <2>4, <2>10
    <3>2. C(key) = << >> /\ rest = << >>
      BY <2>4, <2>10 DEF rest
    <3>3. Len(C(key)) = 0 /\ Len(rest) = 0
      BY <3>2
    <3>4. 1 \notin DOMAIN all /\ IsSeq(all)
      BY <2>6, <3>3
    <3>5. all = << >>
      BY <3>4, NotEmpty
    <3> QED
      BY <3>1, <3>5 DEF best, found, all, M, key, t, S
  <2> QED
    BY <2>8, <2>9, <2>10
<1>2. ASSUME TableInv PROVE ListenersHaveRoutes
  <2> DEFINE t == route_table
             S(h) == HostRoutes(t, h)
             Tcp(h) == TcpAt(t, h)
             First(h) == S(h)[Min(Tcp(h))]
  <2>1. GoodTable(t)
    BY <1>2 DEF TableInv
  \* What is found on one host.
  <2>2. ASSUME NEW h, Tcp(h) # {}
        PROVE  /\ h \in DOMAIN t /\ First(h) \in ToSet(t[h]) /\ First(h) \in ToSet(S(h))
               /\ route_is_tcp(First(h))
    <3>1. \A i \in DOMAIN S(h) : i \in Nat
      BY <2>1, HostRoutesAreGood
    <3>2. \A i : i \in Tcp(h) <=> i \in DOMAIN S(h) /\ route_is_tcp(S(h)[i])
      BY DEF TcpAt
    <3>3. h \in DOMAIN t
      <4>1. CASE h \notin DOMAIN t
        <5>1. DOMAIN S(h) = {}
          BY <4>1 DEF HostRoutes
        <5> QED
          BY <2>2, <3>2, <5>1
      <4> QED
        BY <4>1
    <3>4. S(h) = t[h]
      BY <3>3 DEF HostRoutes
    <3> HIDE DEF S, Tcp
    <3>5. Min(Tcp(h)) \in Tcp(h)
      <4>1. Tcp(h) \subseteq Nat
        BY <3>1, <3>2
      <4> QED
        BY <2>2, <4>1, LeastPosition
    <3> QED
      BY <3>2, <3>3, <3>4, <3>5 DEF ToSet
  <2>3. ASSUME NEW hosts
        PROVE  FirstTcp(t, hosts) = {First(h) : h \in {x \in hosts : Tcp(x) # {}}}
    BY DEF FirstTcp
  <2> HIDE DEF S, Tcp, First
  \* What is found for a port.
  <2>4. ASSUME NEW p \in DOMAIN PortName, NEW r \in lookup_tcp_route(t, p)
        PROVE  route_is_tcp(r) /\ \E h \in DOMAIN t : EndsInPort(h, p) /\ r \in ToSet(t[h])
    <3>1. EndsInPort(CatchAll[p], p)
      BY TableAssumption DEF EndsInPort
    <3>2. PICK h : Tcp(h) # {} /\ r = First(h) /\ EndsInPort(h, p)
      <4>1. CASE Tcp(CatchAll[p]) # {}
        <5>1. r \in FirstTcp(t, {CatchAll[p]})
          BY <2>4, <4>1 DEF lookup_tcp_route, Tcp
        <5> QED
          BY <2>3, <3>1, <5>1
      <4>2. CASE Tcp(CatchAll[p]) = {}
        <5>1. r \in FirstTcp(t, {h \in DOMAIN t : EndsInPort(h, p)})
          BY <2>4, <4>2 DEF lookup_tcp_route, Tcp
        <5> QED
          BY <2>3, <5>1
      <4> QED
        BY <4>1, <4>2
    <3> QED
      BY <2>2, <3>2
  \* The port of a local address.
  <2>5. ASSUME NEW a \in LocalAddrs
        PROVE  \E p \in DOMAIN PortName : parse_listener_port(a) = {p}
    BY TableAssumption DEF parse_listener_port
  \* A host spelled with its port is listened on and found.
  <2>6. ASSUME IsBuilt, NEW h \in DOMAIN t, NEW p \in DOMAIN PortName, EndsInPort(h, p),
               \A r \in ToSet(t[h]) : route_is_tcp(r)
        PROVE  /\ p \in tcp_listener_ports(t)
               /\ \A a \in LocalAddrs : p \in parse_listener_port(a) =>
                        lookup_tcp_route_for_local_addr(t, a) # {}
    <3>1. \A i \in DOMAIN t[h] : route_is_tcp(t[h][i])
      BY <2>6 DEF ToSet
    <3>2. p \in parse_listener_port(h)
      BY <2>6, TableAssumption DEF EndsInPort, parse_listener_port
    <3>3. p \in tcp_listener_ports(t)
      BY <3>1, <3>2 DEF tcp_listener_ports
    <3>4. Tcp(h) # {}
      <4>1. S(h) = t[h] /\ t[h] # << >> /\ IsSeq(t[h])
        BY <2>1 DEF S, HostRoutes, GoodTable, Full, IsRoutes
      <4>2. 1 \in DOMAIN t[h]
        BY <4>1, NotEmpty
      <4>3. 1 \in Tcp(h)
        BY <3>1, <4>1, <4>2 DEF Tcp, TcpAt, S
      <4> QED
        BY <4>3
    <3>5. lookup_tcp_route(t, p) # {}
      <4>1. CASE Tcp(CatchAll[p]) # {}
        <5>1. lookup_tcp_route(t, p) = FirstTcp(t, {CatchAll[p]})
          BY <4>1 DEF lookup_tcp_route, Tcp
        <5>2. First(CatchAll[p]) \in FirstTcp(t, {CatchAll[p]})
          BY <2>3, <4>1
        <5> QED
          BY <5>1, <5>2
      <4>2. CASE Tcp(CatchAll[p]) = {}
        <5> DEFINE hosts == {g \in DOMAIN t : EndsInPort(g, p)}
        <5>1. lookup_tcp_route(t, p) = FirstTcp(t, hosts)
          BY <4>2 DEF lookup_tcp_route, Tcp
        <5>2. h \in hosts
          BY <2>6
        <5> HIDE DEF hosts
        <5>3. First(h) \in FirstTcp(t, hosts)
          BY <2>3, <3>4, <5>2
        <5> QED
          BY <5>1, <5>3
      <4> QED
        BY <4>1, <4>2
    <3>6. ASSUME NEW a \in LocalAddrs, p \in parse_listener_port(a)
          PROVE  lookup_tcp_route_for_local_addr(t, a) # {}
      <4>1. CASE Tcp(a) # {}
        <5>1. lookup_tcp_route_for_local_addr(t, a) = FirstTcp(t, {a})
          BY <4>1 DEF lookup_tcp_route_for_local_addr, Tcp
        <5>2. First(a) \in FirstTcp(t, {a})
          BY <2>3, <4>1
        <5> QED
          BY <5>1, <5>2
      <4>2. CASE Tcp(a) = {}
        <5>1. lookup_tcp_route_for_local_addr(t, a) = UNION {lookup_tcp_route(t, q) : q \in parse_listener_port(a)}
          BY <4>2 DEF lookup_tcp_route_for_local_addr, Tcp
        <5> QED
          BY <3>5, <3>6, <5>1
      <4> QED
        BY <4>1, <4>2
    <3> QED
      BY <3>3, <3>6
  \* What a connection is given.
  <2>7. ASSUME IsBuilt, NEW a \in LocalAddrs, NEW r \in lookup_tcp_route_for_local_addr(t, a)
        PROVE  /\ route_is_tcp(r)
               /\ {x \in ToSet(S(a)) : route_is_tcp(x)} # {} => r \in {x \in ToSet(S(a)) : route_is_tcp(x)}
               /\ \E h \in DOMAIN t : /\ h = a \/ \E p \in parse_listener_port(a) : EndsInPort(h, p)
                                      /\ r \in ToSet(t[h])
    <3>1. CASE Tcp(a) # {}
      <4>1. r \in FirstTcp(t, {a})
        BY <2>7, <3>1 DEF lookup_tcp_route_for_local_addr, Tcp
      <4>2. r = First(a)
        BY <2>3, <4>1
      <4> QED
        BY <2>2, <3>1, <4>2
    <3>2. CASE Tcp(a) = {}
      <4>1. {x \in ToSet(S(a)) : route_is_tcp(x)} = {}
        BY <3>2 DEF Tcp, TcpAt, ToSet, S
      <4>2. PICK p \in DOMAIN PortName : parse_listener_port(a) = {p}
        BY <2>5
      <4>3. r \in lookup_tcp_route(t, p)
        BY <2>7, <3>2, <4>2 DEF lookup_tcp_route_for_local_addr, Tcp
      <4>4. route_is_tcp(r) /\ \E h \in DOMAIN t : EndsInPort(h, p) /\ r \in ToSet(t[h])
        BY <2>4, <4>3
      <4> QED
        BY <4>1, <4>2, <4>4
    <3> QED
      BY <3>1, <3>2
  <2>8. ASSUME NEW r, route_is_tcp(r), NEW x \in ToSet(r.targets) PROVE is_tcp(x)
    BY <2>8 DEF route_is_tcp, ToSet
  <2>9. ASSUME NEW host \in DOMAIN Lower, NEW r \in lookup_tcp_sni_route(t, host)
        PROVE  route_is_tcp(r) /\ r.path = << >>
    BY <2>9 DEF lookup_tcp_sni_route
  <2> HIDE DEF t
  <2> QED
    BY <2>6, <2>7, <2>8, <2>9 DEF ListenersHaveRoutes, t, S
<1>3. TableInv => LookupsAreRight
  BY <1>1, <1>2 DEF LookupsAreRight
<1> QED
  BY <1>3, TableInvariant, PTL

=============================================================================
