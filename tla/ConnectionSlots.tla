-------------------------- MODULE ConnectionSlots --------------------------
(***************************************************************************)
(* The per-upstream connection limit, across rebuilds of the route table.  *)
(*                                                                         *)
(* Each upstream URL has one counter of active connections.  A request     *)
(* reaches it through the target it picked from the current table; a       *)
(* rebuild gives the targets of the next table their counters through      *)
(* TargetStatsRegistry, a map of Weak references that finds the old counter*)
(* as long as somebody still holds it (src/route/target_stats.rs,          *)
(* src/route/table.rs, src/route/registry.rs).  Slots are taken by HTTP    *)
(* requests and TCP connections alike (src/route/target.rs).               *)
(*                                                                         *)
(* A counter is an object with an identity; it lives while the current     *)
(* table, the table under construction or a request refers to it.          *)
(***************************************************************************)
EXTENDS Integers, FiniteSets

CONSTANTS
    Urls,             \* upstream URLs route definitions may name
    HttpRequests,     \* requests served by the HTTP proxy
    TcpConnections,   \* connections served by the TCP proxy
    Counters,         \* identities of counter objects
    None,             \* "no counter": absent target, absent or pruned entry
    Limits,           \* values max_connections may be set to; 0 is "no limit"
    PruneThreshold    \* REGISTRY_PRUNE_THRESHOLD

Requests == HttpRequests \cup TcpConnections

ASSUME SlotsAssumption ==
    /\ None \notin Counters
    /\ Limits \subseteq Nat
    /\ Limits # {}
    /\ IsFiniteSet(Requests)
    /\ PruneThreshold \in Nat

VARIABLES
    max_connections,  \* proxy.max_connections of the configuration in force
    registry,         \* TargetStatsRegistry.active_connections, by URL
    table,            \* counter of the target of each URL in the current table
    building,         \* a rebuild is under way (it holds update_lock)
    pending,          \* URLs of the definitions the rebuild has yet to apply
    partial,          \* the table under construction
    count,            \* value of each counter
    phase,            \* where each request is
    url,              \* URL of the target it picked
    ctr,              \* the counter that target refers to
    limit,            \* max_connections as the request read it
    current           \* the counter value its CAS loop holds

rebuild == <<registry, table, building, pending, partial>>
request == <<phase, url, ctr, limit, current>>
slotsVars == <<max_connections, rebuild, count, request>>

Phases == {"idle", "picked", "cas", "held"}
NoUrl == None

SlotsInit ==
    /\ max_connections \in Limits
    /\ registry = [u \in Urls |-> None]
    /\ table = [u \in Urls |-> None]
    /\ building = FALSE
    /\ pending = {}
    /\ partial = [u \in Urls |-> None]
    /\ count = [c \in Counters |-> 0]
    /\ phase = [r \in Requests |-> "idle"]
    /\ url = [r \in Requests |-> NoUrl]
    /\ ctr = [r \in Requests |-> None]
    /\ limit = [r \in Requests |-> 0]
    /\ current = [r \in Requests |-> 0]

----------------------------------------------------------------------------
(***************************************************************************)
(* A counter's strong references.  Weak::upgrade succeeds on a live one.   *)
(***************************************************************************)
Live(c) ==
    \/ \E u \in Urls : table[u] = c \/ partial[u] = c
    \/ \E r \in Requests : ctr[r] = c

Upgradable(u) == registry[u] # None /\ Live(registry[u])

(***************************************************************************)
(* A rebuild: every update of routes takes update_lock, applies the route  *)
(* definitions one by one to an empty table and swaps it in.               *)
(***************************************************************************)
StartRebuild(defs) ==
    /\ ~building
    /\ building' = TRUE
    /\ pending' = defs
    /\ partial' = [u \in Urls |-> None]
    /\ UNCHANGED <<max_connections, registry, table, count, request>>

(***************************************************************************)
(* active_connections_for: the entry's counter if it can be upgraded, else *)
(* a new counter, after pruning the dead entries of a registry that has    *)
(* outgrown its threshold.  An object's identity is not used again while a *)
(* Weak entry still refers to it.                                          *)
(***************************************************************************)
Entries == {u \in Urls : registry[u] # None}

Pruned ==
    IF Cardinality(Entries) > PruneThreshold
      THEN [u \in Urls |-> IF Upgradable(u) THEN registry[u] ELSE None]
      ELSE registry

Fresh == {c \in Counters : ~Live(c) /\ \A u \in Urls : registry[u] # c}

NewCounter(u) ==
    \E c \in Fresh :
       /\ registry' = [Pruned EXCEPT ![u] = c]
       /\ partial' = [partial EXCEPT ![u] = c]
       /\ count' = [count EXCEPT ![c] = 0]

\* Mutant: every rebuild starts counting from zero.
active_connections_for_AlwaysNew(u) == NewCounter(u)

active_connections_for(u) ==
    \/ /\ Upgradable(u)
       /\ partial' = [partial EXCEPT ![u] = registry[u]]
       /\ UNCHANGED <<registry, count>>
    \/ ~Upgradable(u) /\ NewCounter(u)

ApplyDefinition(u) ==
    /\ building
    /\ u \in pending
    /\ pending' = pending \ {u}
    /\ active_connections_for(u)
    /\ UNCHANGED <<max_connections, table, building, request>>

Swap ==
    /\ building
    /\ pending = {}
    /\ table' = partial
    /\ partial' = [u \in Urls |-> None]
    /\ building' = FALSE
    /\ UNCHANGED <<max_connections, registry, pending, count, request>>

----------------------------------------------------------------------------
(***************************************************************************)
(* A request reads the table and picks a target.  HTTP reads the           *)
(* configuration here, TCP when it asks for the slot.                      *)
(***************************************************************************)
Pick(r, u) ==
    /\ phase[r] = "idle"
    /\ table[u] # None
    /\ phase' = [phase EXCEPT ![r] = "picked"]
    /\ url' = [url EXCEPT ![r] = u]
    /\ ctr' = [ctr EXCEPT ![r] = table[u]]
    /\ limit' = [limit EXCEPT ![r] = max_connections]
    /\ UNCHANGED <<max_connections, rebuild, count, current>>

LimitRead(r) == IF r \in TcpConnections THEN max_connections ELSE limit[r]

(***************************************************************************)
(* try_acquire_connection_slot.                                            *)
(***************************************************************************)
AcquireUnlimited(r) ==
    /\ phase[r] = "picked"
    /\ LimitRead(r) = 0
    /\ limit' = [limit EXCEPT ![r] = 0]
    /\ count' = [count EXCEPT ![ctr[r]] = @ + 1]
    /\ phase' = [phase EXCEPT ![r] = "held"]
    /\ UNCHANGED <<max_connections, rebuild, url, ctr, current>>

AcquireLoad(r) ==
    /\ phase[r] = "picked"
    /\ LimitRead(r) # 0
    /\ limit' = [limit EXCEPT ![r] = LimitRead(r)]
    /\ current' = [current EXCEPT ![r] = count[ctr[r]]]
    /\ phase' = [phase EXCEPT ![r] = "cas"]
    /\ UNCHANGED <<max_connections, rebuild, count, url, ctr>>

(***************************************************************************)
(* The request is over and drops its target.                               *)
(***************************************************************************)
Leave(r) ==
    /\ phase' = [phase EXCEPT ![r] = "idle"]
    /\ url' = [url EXCEPT ![r] = NoUrl]
    /\ ctr' = [ctr EXCEPT ![r] = None]
    /\ limit' = [limit EXCEPT ![r] = 0]
    /\ current' = [current EXCEPT ![r] = 0]

AcquireFull(r) ==
    /\ phase[r] = "cas"
    /\ current[r] >= limit[r]
    /\ Leave(r)
    /\ UNCHANGED <<max_connections, rebuild, count>>

\* Mutant: a plain store instead of the compare-exchange.
AcquireCas_Store(r) ==
    /\ phase[r] = "cas"
    /\ current[r] < limit[r]
    /\ count' = [count EXCEPT ![ctr[r]] = current[r] + 1]
    /\ phase' = [phase EXCEPT ![r] = "held"]
    /\ UNCHANGED <<max_connections, rebuild, url, ctr, limit, current>>

\* Mutant: the increment does not depend on the value that was checked.
AcquireCas_FetchAdd(r) ==
    /\ phase[r] = "cas"
    /\ current[r] < limit[r]
    /\ count' = [count EXCEPT ![ctr[r]] = @ + 1]
    /\ phase' = [phase EXCEPT ![r] = "held"]
    /\ UNCHANGED <<max_connections, rebuild, url, ctr, limit, current>>

AcquireCas(r) ==
    /\ phase[r] = "cas"
    /\ current[r] < limit[r]
    /\ \/ /\ count[ctr[r]] = current[r]
          /\ count' = [count EXCEPT ![ctr[r]] = current[r] + 1]
          /\ phase' = [phase EXCEPT ![r] = "held"]
          /\ UNCHANGED current
       \/ /\ count[ctr[r]] # current[r]
          /\ current' = [current EXCEPT ![r] = count[ctr[r]]]
          /\ UNCHANGED <<count, phase>>
    /\ UNCHANGED <<max_connections, rebuild, url, ctr, limit>>

(***************************************************************************)
(* release_connection_slot: the access log of an HTTP request, the drop of *)
(* a TCP connection's guard.                                               *)
(***************************************************************************)
Release(r) ==
    /\ phase[r] = "held"
    /\ count' = [count EXCEPT ![ctr[r]] = @ - 1]
    /\ Leave(r)
    /\ UNCHANGED <<max_connections, rebuild>>

(***************************************************************************)
(* The rate limiter, which comes first, refuses an HTTP request.           *)
(***************************************************************************)
RateLimited(r) ==
    /\ r \in HttpRequests
    /\ phase[r] = "picked"
    /\ Leave(r)
    /\ UNCHANGED <<max_connections, rebuild, count>>

(***************************************************************************)
(* A configuration update stores a new max_connections.                    *)
(***************************************************************************)
Reconfigure(n) ==
    /\ n # max_connections
    /\ max_connections' = n
    /\ UNCHANGED <<rebuild, count, request>>

Acquire(r) ==
    \/ AcquireUnlimited(r) \/ AcquireLoad(r) \/ AcquireFull(r) \/ AcquireCas(r)

Serve(r) ==
    \/ \E u \in Urls : Pick(r, u)
    \/ Acquire(r) \/ Release(r) \/ RateLimited(r)

SlotsNext ==
    \/ \E defs \in SUBSET Urls : StartRebuild(defs)
    \/ \E u \in Urls : ApplyDefinition(u)
    \/ Swap
    \/ \E n \in Limits : Reconfigure(n)
    \/ \E r \in Requests : Serve(r)

SlotsSpec == SlotsInit /\ [][SlotsNext]_slotsVars

----------------------------------------------------------------------------
(***************************************************************************)
(* Every variable stays in its range.  A counter is a u64 released with    *)
(* fetch_sub: staying in Nat says it never wraps to "full".                *)
(***************************************************************************)
SlotsTypeOK ==
    /\ max_connections \in Limits
    /\ registry \in [Urls -> Counters \cup {None}]
    /\ table \in [Urls -> Counters \cup {None}]
    /\ building \in BOOLEAN
    /\ pending \in SUBSET Urls
    /\ partial \in [Urls -> Counters \cup {None}]
    /\ count \in [Counters -> Nat]
    /\ phase \in [Requests -> Phases]
    /\ url \in [Requests -> Urls \cup {NoUrl}]
    /\ ctr \in [Requests -> Counters \cup {None}]
    /\ limit \in [Requests -> Nat]
    /\ current \in [Requests -> Nat]

(***************************************************************************)
(* Connections to a URL that hold a slot.                                  *)
(***************************************************************************)
Holders(u) == {r \in Requests : phase[r] = "held" /\ url[r] = u}

(***************************************************************************)
(* All references to a URL's counter, from the current table, from the     *)
(* table under construction and from requests that picked their target from*)
(* a table since replaced, are to one object: a rebuild neither resets nor *)
(* splits the count of an upstream that still has connections.             *)
(***************************************************************************)
OneCounterPerUrl ==
    \A u \in Urls :
       Cardinality(({table[u], partial[u]}
                      \cup {ctr[r] : r \in {q \in Requests : url[q] = u}})
                   \ {None}) <= 1

(***************************************************************************)
(* The counter a table hands out counts exactly the connections that hold a*)
(* slot of that URL, whichever table they came through.                    *)
(***************************************************************************)
CountIsExact ==
    \A u \in Urls :
       table[u] # None => count[table[u]] = Cardinality(Holders(u))

(***************************************************************************)
(* A request that is given a slot leaves the upstream within the limit the *)
(* request read: racing acquisitions, rebuilds and releases never admit one*)
(* connection too many.                                                    *)
(***************************************************************************)
AdmissionWithinLimit ==
    [][\A r \in Requests :
          phase[r] # "held" /\ phase'[r] = "held" /\ limit'[r] # 0
             => Cardinality(Holders(url[r])') <= limit'[r]]_slotsVars
=============================================================================
