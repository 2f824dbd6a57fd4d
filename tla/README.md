# Verification of sentirum-lb

TLA+ models of the load balancer's core, checked with TLC on small instances and,
for the central safety properties, proved with TLAPS for every value of the
constants. The code is the reference: `PROJECT.json` maps each definition to the
lines it stands for.

## 1. The system

sentirum-lb is an HTTP/TCP load balancer. Consul watchers and an admin API feed
a **control plane**, which keeps route definitions by source and rebuilds an
immutable route table. The **data plane** (HTTP through the Pingora library, TCP
in its own listeners) reads the table without locks, picks a target, and asks the
target's circuit breaker, token bucket and connection counter. Those three and
the health tracker are shared objects, found again by URL at each rebuild
through a map of weak references.

| Component | State it keeps | Operations | What is hard |
|---|---|---|---|
| circuit breaker (`route/circuit_breaker.rs`) | state byte, window, error count, in-flight flag, two time stamps | `allow_request`, `abort_probe`, `record_success`, `record_error` and the transitions | lock-free, called from every worker; outcomes come late or never |
| connection limit (`route/target.rs`, `route/target_stats.rs`) | a counter per URL, map of weak references | acquire (CAS loop), release, look up or create at rebuild, prune | counter must survive rebuilds; requests hold targets of old tables |
| managed table (`route/registry.rs`) | definitions of three sources, table in force, breaker settings, tracker map | `load_static`, `append_static`, `update_kv`, `update_services`, `reconfigure_circuit_breaker` | read-modify-write by several tasks; trackers in use during rebuilds |
| runtime configuration (`admin/config_handler.rs`) | configuration, DNS TTL, trusted ranges | update (merge, validate, four stores), reset | concurrent updates; derived state in several places |
| token bucket (`proxy/ratelimit.rs`) | rate, burst (atomics), tokens and refill time (mutex) | `configure`, `try_acquire` | torn reads, reconfiguration by every request |
| health checker (`proxy/health.rs`, `route/health_tracker.rs`) | verdict and two counters per target, loop settings | tick, probe, record | hot reload, replaced trackers, disable/enable |
| route commands (`route/parser.rs`) | none | parse a line of `route add`, `del` or `weight` | options in any order, lines that mean nothing |
| table, matching, pickers (`route/table.rs`, `route/picker.rs`) | routes by host, slots by weight, cursor | add, del, weight, sort, match, pick | scope of deletions, rounding of weights, order of matches |
| request admission (`proxy/handler*.rs`) | per-request context | lookup with fallbacks, breaker, rate limit, slot, resolution, access log | table and configuration read more than once; a limit refuses what another admitted |
| DNS cache (`route/dns_cache.rs`) | positive and negative entries, TTLs | lookup, store, evict, `set_ttl` | no lock around a lookup; entries shared between targets with different permissions |
| Consul (`consul/*.rs`, `main.rs`) | index, pending work, back-off; a bounded channel | blocking queries, catalog lookups, update, apply | errors, restarts, stale reads, data that changes between two queries |
| TCP proxy (`proxy/tcp.rs`) | listeners by port, slots | reconcile, bind, accept, peek at the client hello, copy, stop | rebinding a port that is still held; lengths chosen by the client |
| TLS (`proxy/tls*`, `admin/certs_handler.rs`) | certificate store, client CAs, their status | start, watch files, refresh from Consul, manual reload, select by SNI | certificate and key change one after the other; partial snapshots |
| sessions (`admin/auth.rs`) | sessions, failed attempts | login, logout, evict, clean up, check | logins overlap; cleanups are skipped |
| log ring (`admin/logs.rs`) | ring, broadcast channel | push, recent, subscribe | store and broadcast are two steps |
| metrics stream (`admin/metrics_handler.rs`) | channel, feeding task | connect, tick, remove | a client comes while the task is about to stop |
| metrics, dashboard, configuration file | counters, views | | |

The properties that make each modelled component correct are listed with its
module below; the hazards they are aimed at, with lines, are in `PROJECT.json`.

## 2. Modules

| Module | Models | Properties |
|---|---|---|
| `CircuitBreaker` | one breaker and the requests of several threads | below, 3.1 |
| `ConnectionSlots` | slots, counter registry and rebuilds | 3.2 |
| `ManagedRoutes` | route updates, configuration updates, tracker map | 3.3 |
| `RouteSources` | abstract specification: what the traffic sees of updates | refined by `ManagedRoutes` |
| `TokenBucket` | one bucket, its requests and its rebuilds | 3.4 |
| `HealthChecker` | the background loop and the trackers | 3.5 |
| `RouteCommands` | parsed lines; extended by `RouteTable` | 3.6 |
| `RouteTable` | a rebuild command by command, and the lookups | 3.6 |
| `HttpRequests` | requests from lookup to access log; composes breaker, bucket, counter, picker and table, each reduced to its calls | 3.7 |
| `DnsCache` | the cache and `resolve_upstream_addr` | 3.8 |
| `ConsulWatcher` | both watchers, the channel, the task that applies updates; Consul is external | 3.9 |
| `TcpProxy` | the TCP service, its listener tasks and connections | 3.10 |
| `CertStore`, `TlsListener` | what is computed from certificate data; one listener from start to handshakes | 3.11 |
| `AdminSessions`, `LogRing`, `MetricsStream`, `AdminApi` | three independent parts of the admin API, and their composition | 3.12 |
| `MC*` | instances for TLC, one `.cfg` per run | |
| `TargetProofs` | TLAPS proofs about `TokenBucket`, `HealthChecker` and `ConnectionSlots`, the shared objects of a target | 4 |
| `ControlPlaneProofs` | about `ManagedRoutes`, `ConsulWatcher`, `RouteCommands` and `RouteTable` | 4 |
| other `*Proofs` | about the module of that name | 4 |

Definitions whose name is another one's with a suffix (`Store_Forgets`) are
mutants: plausible mistakes that show that a property can fail. No specification
uses them.

**Common conventions.** An action is one atomic access of the code where code is
lock-free, one critical section where nothing outside it can be observed
half-way, one statement otherwise. A thread's position is `pc`. Objects with
identity (counters, trackers) are members of a constant set; an identity is taken
only while nobody, a weak entry included, refers to it. Atomics are sequentially
consistent: the code uses acquire/release and relaxed orderings, and effects of
weaker memory are not modelled. A clock read and the store of its value are one
step.

## 3. What the runs check

All twelve runs pass; none takes more than four minutes. A
run lists few properties, and most are conjunctions of parts that are stated and
commented one by one in the module (`HoldingsAreReturned` is `TypeOK`,
`SlotsAccounted` and `ProbesHaveOwners`). The type invariants of `CircuitBreaker`,
`ConnectionSlots` and `ManagedRoutes` are proved and not checked again.

### 3.1 CircuitBreaker

`pc` names the function and the access a thread is about to make. Times are ages
that stop counting at the threshold they are compared with, so the clock is
unbounded. `role` is a history variable: how a request was admitted. A request's
outcome (`Refuse`, `Succeed`, `Fail`, `Lose`) is what `select_upstream_peer` and
`record_access_log` do with it; `GoUnchecked` and `Lose` cover the breaker being
switched on or off while a request is in flight.

`circuit_breaker`: `ErrorCountExact`, `ProbesBelowMax`, `ReservationIsStamped`,
and the liveness properties `OpenIsLeft` and `KeepsAdmitting`, under `FairSpec`: the
clock runs, a thread inside a call goes on (weak fairness), an upstream request
ends (every peer has timeouts), and requests keep arriving at each thread (strong
fairness of `Ask`, since threads may also serve unchecked requests). Two threads, a
window of 1, two probes to close, timeouts of one unit and one CAS attempt: the
window is full after one outcome, so every further one pops; the probe counter
reaches its last value below the maximum; a CAS that fails leads to the forced
store. Larger values of the constants are covered by the proofs.

### 3.2 ConnectionSlots

Two URLs, two HTTP requests, a TCP connection, three counters, limits 0 (none), 1
and 2, pruning above one entry. `connection_slots`: `OneCounterPerUrl`,
`CountIsExact`, `AdmissionWithinLimit`. Three
counters for two URLs are enough for a dead counter to be replaced while another
URL's is in use; three connections are enough for a slot to be contended at limit
2. Retries of the proxy library, which would call `upstream_peer` twice for one
request, are in `HttpRequests`.

### 3.3 ManagedRoutes and RouteSources

Tasks are the consumer of the watchers' channel and admin requests. A route
definition is its URL; a configuration has the three parts other state is derived
from, and `Invalid` is what `Config::validate` refuses. `held` are trackers that
requests and health probes keep alive.

`managed_routes`: `TableIsCurrent`, `BreakersUseSettings`, `SettingsInForce`,
`BreakersSurviveRebuilds`, `UpdatesAreMerged`, and `ImplementsRouteSources`: with
the table's routes and settings as the abstract state, every update takes effect in
one step and none is lost. One Consul task, two admin tasks, a URL, two trackers
(the one in use and its replacement), at most one static route, two values for each
part of the configuration, and a combination that `validate` refuses.

`SettingsInForce` speaks of the time between updates: while a handler is between
its stores, requests may see the new configuration with old breakers. That gap is
in the code and harmless to these properties.

### 3.4 TokenBucket

`MaxTime`, `MaxFills`, `MaxRate` and `MaxBurst` bound the model; a run stops when
the clock and the fills are used up, hence `CHECK_DEADLOCK FALSE`.

`token_bucket`: two requests on a bucket that follows the configuration, which
switches between two limits and off, or on one with a route's own limit, configured
again at rebuilds. `BucketIsSound`: the bucket never holds more than the largest
burst, and requests let through and tokens left are covered by fills and elapsed
time, at any rate and burst that torn reads may combine. `configure` fills the
bucket whenever it finds it empty, not only the first time as its comment says, so
the bound counts fills.

### 3.5 HealthChecker

`run` is a history variable: the latest equal results in a row of a tracker.
`probe` says whether the tracker that a probe will report to is still the
target's (`current`) or was replaced (`orphaned`).

`health_checker`: two URLs, three settings (one disabled), thresholds up to 3.
`VerdictsFollowProbes` (counters are the results in a row, verdicts change only on
enough of them), and `VerdictsCatchUp` under `FairHealthSpec`: the ticker fires and every
probe ends (client and connect timeouts). Nothing is assumed about the environment
beyond what the property's premises say.

### 3.6 RouteCommands and RouteTable

A line is the sequence of its tokens; what a token means as a host, path, weight,
tags or options is given by constants. `Grammar(c)` is the set of lines that write
the command `c`, with its options in every order, and `Meaning(c)` what it should
mean; `parse_line` is the code's. `Documented` says which words a command needs and
that none of them is a keyword where a keyword would be taken for one; `Pointless`
which lines say no command. `Blank` is a word left out, and the catch-all host. The
option loops of the parser are written without recursion: in a row of keywords every
second one is an argument (`KeywordPositions`), the last valid argument wins. A weight
out of range is skipped, which leaves the weight at 0, in `route weight` as in
`route add`.

A rebuild applies the definitions of the three sources in the order of `get_all`
(`phase`): lines of the static source, lines of the KV store, then the routes that the
tags of healthy instances ask for (`Discovered`), whose weight has no upper limit of
its own. `mark_sources` stamps each with its source. The table grows by one definition
per step, is finalized and starts again; `written` is a history variable. `finalize` is any permutation of a host's routes that is in order;
there is exactly one, as no two routes of a host have the same path.

The code reads the port of a host in two ways, and so does the model.
`tcp_listener_ports` parses what follows the last colon, or the whole host
(`parse_listener_port`: "8080", ":080" and ":8080" are all port 8080);
`lookup_tcp_route` wants the host to end in ":8080" (`EndsInPort`). The constants
`LastPart`, `ParsePort` and `PortName` describe the texts, so neither is the inverse
of the other.

`route_table`: up to four definitions from nine commands of the static source, seven
of the KV store and three discovered routes, with junk lines between them.
`TableIsRight` compares the table with a declarative reading of the commands
(`Survivors`: the adds that no later `del` covers). `Route::add_target` compares
service, URL, weight and source, so targets of different sources stay apart (the
test at `table.rs:1262`; the instance has one add in all three sources), and of two
adds of one source that differ in tags or options only, the later is ignored: the one
exception (`Repeats`) of the property, of which the instance has a pair.

`LookupsAreRight` says that a lookup finds the longest matching prefix of the
request's own host, else of the catch-all host, and that the two lookups of the code
agree. Of TCP (`ListenersHaveRoutes`) it says that a host spelled "...:\<port>" whose
routes are all TCP is listened on and that every connection arriving at that port
finds a route; that a connection is never given a route with a target that is not
TCP, one of another port, or one of another host when its own local address has one;
and that a server name gets the root route of its host. The converse, that a port
which is listened on has a route, does not hold (3.13): the instance has the host
"1".

`TrafficFollowsWeights` follows a weight from the command over rounding to slots and
to the order of picks. After any number of picks a target has had its share to within
half a request, plus half its own share for each target beyond the second: with two
targets that is the best possible, with three it is less than one request, with more
a target with most of the weight may be further behind. The instance reaches four
targets with 1, 1, 1 and 12 slots, where "within one request" fails. There are 12
slots instead of 1000 and 120 units of weight, and no weight counts for more than 240
of them (1000.0 in the code), so that all divisions of the instance are exact:
floating-point error is not modelled, rounding to slots is.

### 3.7 HttpRequests

The steps of a request are those between which it awaits or reads shared state
again: lookup, second look at the table, breaker, rate limit, slot, resolution,
upstream, log. A breaker's call is one step here (its interleavings are
`CircuitBreaker`'s business), whether a bucket has a token is left open, and a table
is the sequence of routes that match. A route's round-robin counter counts modulo
its `cycle`, a common multiple of the lengths of its lists, so that it stays bounded
and picks as the unbounded one does. `Retry` is Pingora calling `upstream_peer`
again; `lost` counts the picks it made the request forget, `gap` records that at
some moment of a lookup no route matched.

`http_requests`: two requests, two URLs, an open route before one with a header
constraint, or no route; breaker on with round robin and one connection, or off with
least connections. `HoldingsAreReturned`: slots, gauge and half-open probes are
given back on every way out, except what a retry overwrote. `SelectionsAreRight`: a
target fits the request's headers on every fallback, and 404 is only said if no
route matched at some moment. `NoTargetMissed`: nobody is turned away while a
target that is up, fits and accepts is in reach. `RefusalsDoNotFeedBack`: refusing
never opens a breaker. Two requests suffice for each to take the other's last slot
or probe between two of its steps.

### 3.8 DnsCache

The map has no lock of its own, so a lookup, a store with its two eviction passes,
and `set_ttl` are several steps. `overlap` marks the keys stored by calls that had
read the TTL before the clearing (a key once marked stays so, and `TtlInForce` says less
of it from then on); `missed` counts the victims that the last eviction
found gone. The removals of one eviction pass are one step. Of several addresses only
the first is kept, since no lookup looks at the others.

`dns_cache`: two resolvers, two names (one shared by targets with different
permissions), capacity 1, one tick of time. `AnswersAreGood`, `SizeBounded`,
`TtlInForce`. With capacity 1 and two resolvers each store evicts what the other
stored or is about to read. `SizeBounded` is weaker than one would think: an eviction
counts how many entries are too many after it listed its victims, and removes that
many of the list even if others removed them meanwhile. With three resolvers the cache
may therefore keep more than `Capacity` entries with no store in progress, until the
next store; the bound counts those in `missed`. An answer is never late, but for one
exception stated in `NoLateAnswers`: an entry stored by a thread that had read the
clock long before it stored.

### 3.9 ConsulWatcher

Consul is external: its catalog and keys change at any time, it fails, restarts
with a lower index, and something in between may strip the index header. A query
returns at any time. The client asks for stale reads (`client.rs:71`, 161, 182, 415),
so any server answers, with the data and the index it has got so far: `behind` holds
the older states that the slowest server may still have, `CatchUp` brings it one change
forward, and every query takes its answer from `Replies`, independently of the others.
`since` records the catalogs that any server had since the checks were read; `catalog`
which of them answered for each service; `lagged` that one was older than the checks.
Checks and catalog are matched by the text "\<node>.\<id>" (`watcher.rs:186`, 309), which
instances of one service may share when names contain dots: `IdOf` is that text, and
the instance has such a pair. Routes of one path come in any order, as the maps they
are taken from are unordered.

`consul`: two states of the catalog, two of the keys, a channel of size 1, at most
two changes and one fault, and one change at a time that not all servers have
(`MaxLag`).
`UpdatesAreRight`: a published update has only routes of instances that some server had
in its catalog since the checks were read and that those checks show well - that
instance, or one that is named the same - and all routes of those that are well and
that every server had all the time. `NeverSpins`. `RoutesCatchUp`, under weak fairness
of each of the three tasks, as tokio schedules them and every request has a timeout,
and of `CatchUp`: of Consul it is assumed that it changes and fails finitely often and
that its servers catch up. The property names its three exceptions: no index in the
replies; an index that a restart brought back to the number last seen; and a catalog
answer older than the checks (3.13). Two changes and one fault allow a change during
a failed round and a change after a restart; one change behind is enough for checks and
catalog to come from different states in either order, and for an index that goes
backwards without a restart. That `UpdatesAreRight` and `NeverSpins` hold for servers
any number of changes behind is proved.

### 3.10 TcpProxy

All modes of the service; in dynamic mode the manager reconciles listeners with
the table once per tick. A stopped listener is not awaited, so its successor may
find the port taken and retries. `Tasks` bounds the listener tasks alive at once. A
limit of 0 connections is none. A client hello is a record of its lengths.

`tcp`: two ports, two tables, three tasks, two connections, two changes of the
table, ports taken by others at the start. `NothingLeaks`: kept handles and living
tasks correspond, and slots taken are connections past the limit check.
`BytesAreRespected`: what was read ahead is sent on, once and first; and the parser
agrees with a declarative definition (`AddsUp`) over about 4000 combinations of
boundary lengths. `ListenersFollow`: under weak fairness of ticks and tasks, and
provided that other processes let go of a port some day, the accepting ports become
those with routes, and a stopped service returns. The service may end, hence
`CHECK_DEADLOCK FALSE`.

### 3.11 CertStore and TlsListener

A PEM blob is a name, `Pem` says what parsing finds, a certificate is identified
with its key pair. The start of the listener is modelled with its gates; files are
written one at a time and every write changes the modification time (all that
`proxy/tls/watcher.rs:50` compares: a write within one tick of the file system's clock,
or by a tool that preserves the time, would go unseen). So the watcher and a manual reload may read a certificate of
one generation and a key of the other. `KeyOrder` is the order of the keys in
Consul; a snapshot maps the positions at which an entry was loaded to its
certificate, so that the first certificate is the one of the least position.

`tls`: seven configurations (four of them refused or skipped at the start), two
pairs, five contents of each Consul prefix, two writes, one failed query.
`ListenersAreSafe`: the status main decides on is true, and a listener that asks
for client certificates always verifies them. `RightCertificate`: a certificate
with its own key, and the best match for the name. `KeepsLastGood`: an entry leaves
the store only when Consul holds neither half of it. `CertificatesCatchUp` under
weak fairness of polling, queries and sleeps. It excludes the watcher being
overtaken (`overtaken`): by a write between main's load and the watcher's first
look, and by a manual reload that read older files and stores last; in both the
code serves the older pair until the next change.

### 3.12 The admin API

Sessions, log ring and metrics stream share no state, so a behaviour of `AdminApi`
is one of a single part.

`admin`: `LoginsAreBounded`: sessions exceed their capacity by at most one, failed
attempts in a window exceed their limit by less than the logins in progress, nobody
is locked out for failures of older windows, and a session outlives its lifetime by
at most an interval and one more for each cleanup in a row that found the lock
taken. `LogIsComplete`: `recent` is exact for every limit (0 acts as 1) and
through every wrap of the ring, and a client of the API that subscribes and then reads
the ring, with any limit, misses nothing from the oldest entry it asked for on but what
it was too slow for. The repository's own dashboard works the other way round: it reads
200 entries (`js/7-refresh-charts.js:11`) and opens the stream later
(`js/g-logs.js:91`), and gets what was logged in between with its next read. `StreamFollowsClients`: one feeding task exactly while there is a channel,
every client that stays is fed, and the task ends when nobody is left, under weak
fairness of the task and of a client's handler. Two logins, two logging threads and
two clients are the smallest numbers that race; capacities of 1 and 2 are reached
and exceeded. The bounds on time and entries end the runs, hence `CHECK_DEADLOCK
FALSE`.

### 3.13 Disagreements

Places where the code does other than a comment, document or test says. The models
contain them as the code has them; the properties above hold in spite of them.

* `route/circuit_breaker.rs:787`, "only one probe should be in flight at once":
  `record_success`, `record_error` and `abort_probe` clear the reservation whichever
  request they report on (line 271), so a late outcome lets a second probe go.
* `route/circuit_breaker.rs:173`, "Minimum 100ms guard prevents race conditions":
  the stuck-probe reset (line 187) stores without looking again and may remove a
  reservation made since its check.
* `route/circuit_breaker.rs:6`, "All probes succeed": any success reported while
  HalfOpen counts, also that of a request admitted while Closed (line 273).
* `route/circuit_breaker.rs:6`, "Any probe fails": `transition_to_closed` exchanges
  whatever byte it loads (line 394), so Open may go to Closed at once.
* `docs/sentirum-lb.nomad.hcl:121` with `rate_limit_burst = 0`: the stored burst is
  at least 1 and never equals 0, so every request configures and refills the bucket
  (`route/target.rs:319`) and nothing is limited.
* `proxy/handler/access.rs:66`, refusals "never feed back into the circuit breaker":
  true of a first attempt; after a retry of the library `picked_target` of the
  attempt before is still set, and a refusal is recorded against it.
* `proxy/tcp.rs:289`, "Give in-flight connections a brief grace period": what is
  awaited is the accept loop; connections are tasks of their own.
* `route/table.rs:801` opens a port for every TCP host that parses as one, while
  `route/table.rs:752` finds routes only for hosts that end in ":\<port>" with the
  number in plain decimal: `route add s 8080 tcp://u`, or a host ":080", opens a port
  on which no connection finds a route.
* `consul/client.rs:415` asks for the catalog as a stale read: an answer older than the
  checks that led to it is published with their index, and the watcher then blocks on
  that index. The routes stay old until the next change.
* `admin/logs.rs:96`, "Get the last `limit` entries": a limit of 0, which
  `admin/api.rs:220` lets through, returns one.
* `admin/auth.rs:41`, "eliminates the TOCTOU gap": the count is checked in one step
  but raised only after the password was verified, so overlapping logins exceed it.

## 4. What is proved

All theorems hold for every value of the constants under the named assumptions of
the module. Sets of threads and tasks may be infinite, except where the property or
its invariant counts them: `Requests`, `Resolvers`, `Targets` of the cache, `Logins`,
`Clients`, and `Conns` of the TCP proxy are finite. The other assumptions say what the
code's types and `Config::validate` ensure (capacities and thresholds that are not
zero, a route's weighted list that points into its targets, lengths that are
naturals), that the names and blobs of an instance are described by its other
constants (every blob has its `Pem`, every key its position in `KeyOrder`), or keep a
mark such as `None` apart from the data.

* **CircuitBreakerProofs.** `Inv` adds to the four invariants: the mutex is held
  exactly by the thread in a critical step; inside a critical section the error
  count is off from the window by a known amount at each step (`err_count` done,
  oldest popped, window emptied); and a byte held for a CAS in `succ_cas` has room
  for another probe. The count of errors is a cardinality, so lemmas say what
  `Append` and `Tail` do to it.
* **TargetProofs**, of `ConnectionSlots`. `SlotsInv` says that a counter belongs to one URL, that
  references of table, partial table and requests agree with the registry's entry,
  and that a counter's value is the cardinality of its holders.
  `AdmissionWithinLimit` follows because a CAS succeeds only on the value that was
  compared with the limit.
* **ControlPlaneProofs**, of `ManagedRoutes`. `Inv` has four parts: each lock is held exactly by the
  task inside its critical section; a route update's draft is one update away from
  the registry, and after the store the registry is one update ahead of the table;
  how far each configuration update has got; and the tracker map agrees with the
  table except while it is being rebuilt. From it follow the invariants, both
  action properties, and the refinement of `RouteSources`: `Swap` is one abstract
  update, `Reswap` a change of settings, anything else a stutter.
* **ControlPlaneProofs**, of `ConsulWatcher`. `WatchInv` says where each watcher is and
  what it carries: between the checks and the update, each service still to be asked
  or answered has an instance passing in the snapshot, what any server may answer
  (`HeldData`) is among the catalogs recorded in `since`, so the answers are too, and the
  update waiting to be sent has the routes of those answers. A server that catches up
  takes a state away, a change adds one to both. `OnlyWellRouted` and `UpdatesAreWhole` are then facts about one
  set of answers, and the lemmas relate `passing_service_ids` to the declarative
  `Well`, up to instances with the same name. For `NeverSpins` it ties the count of queries without an index to the pause
  that must come before the next one.
* **ControlPlaneProofs**, of `RouteCommands`. `LinesAreUnderstood`: each line of
  `Grammar(c)`, for any documented command `c`, parses to `Meaning(c)`. A lemma
  (`KeywordStep`) says how one position of a line decides whether the next is looked at
  as a keyword; from it the keywords of a line of the grammar stand at every second
  position after its words, in whatever order and whatever the arguments are. That a
  set of positions has a least one comes from well-founded induction.
* **ControlPlaneProofs**, of `RouteTable`. `TableInv` relates the table to the commands
  in both directions. `Backed`: every target stems from a surviving add of its source, and still has
  its weight unless a `weight` command for its route came since; this is what makes the
  exception for repeated adds inductive, as `add_target` compares weights and sources. `Served`:
  every surviving add has its target on its route, or repeats an earlier one.
  `GoodTable`: no route or host is empty and no two routes of a host share a path; and
  once built the routes are in order (`RoutesInOrder`). One lemma for each command says
  which targets are on which route after it (`AddOn`, `DelOn`, `WeightOn`). With the
  order, the first match is the longest. For TCP the proof needs of the texts only that
  the decimal text of a port parses as that port and that ":\<port>" and the local
  addresses end in one (`TableAssumption`).
* **TargetProofs**, of `TokenBucket`. `BucketIsSound` is inductive as it stands. Its parts compare
  products of variables, on which the solver gives up, so the few facts about
  products that are needed are lemmas, and each step then uses sums only.
* **TargetProofs**, of `HealthChecker`. `IInv` adds to the types and `CountersMatchProbes` that the
  counter that decides a tracker's next verdict is below the largest threshold
  (`Undecided`); without it the range of the counters is not inductive.
* **DnsCacheProofs.** `IInv` says what each resolver carries between its steps
  (`Types`: an address its target may use, a clock value not in the future; `Fresh`:
  the entry about to be read had not expired at that value or was stored since), which
  TTL an entry or a store in progress has at each stage of `set_ttl`
  (`TtlsFollow`), and `SizeBounded`. Most actions change one resolver and at most
  take entries out; they share a lemma. The work is in `TakeSoonest`, where the
  number of victims, of those gone and of those left must add up.
* **HttpRequestsProofs.** `IInv` has the types, what a request holds at each `pc`
  (`Shapes`), that retries are within the model's bound (`OneRetry`), what `gap` means (`GapsKnown`),
  and the three parts of the properties: `SlotsAccounted`, `ProbesHaveOwners`,
  `StatusTellsWhy`. Slots and probes are cardinalities of sets of requests; lemmas
  say what a step that keeps, moves or does not concern a holding does to them. The
  pickers are treated separately: what a pick returns is a member of the list that is
  up and accepts, and it returns nothing only if there is none; `NoTargetMissed` is
  that lemma carried through the fallbacks of `lookup_target`. The bound of the model
  is that of the theorems too: one retried request at a time, at most `MaxLost` lost
  slots per URL.
* **AdminApiProofs.** Four invariants, one for each part that shares no state:
  failed attempts (`Margin`: the count and the logins in progress together stay below
  the limit plus the number of logins, which is what makes the overshoot inductive),
  sessions (their ages relative to the last cleanup), the ring (the entry at each
  position counted back from `write_pos` is the one pushed that long ago, and what a
  subscriber has not received is still to come), and the stream (which channel's task
  is at which step). `FeederIsOne` is the safety half of `StreamFollowsClients`.
* **TcpProxyProofs.** `TcpInv` has the types; that the task of a kept handle lives on
  that port and has not been told to stop, that no two handles share a task, and that
  a living task without a handle is on its way out (`TasksInv`); what each connection
  has read and sent at its step and when it holds a guard (`ConnsInv`); and
  `SlotsMatchConnections`, a cardinality. `NothingLeaks` and `NothingEaten` follow. The
  proof of reconciliation needs the new tasks to be different from each other and
  from the old ones, which is what `Spawns` says.
* **TlsListenerProofs.** `TlsInv` adds to the types that every entry in the store
  stands at the position of its own key, that certificates held anywhere, also those
  in a reload or handshake in progress, go with their keys; that a listener which asks for
  client certificates never gets to serve with an empty store of CAs; and what the
  refreshing tasks have still to report. `KeepsLastGood` rests on a lemma about
  `from_fabio_entries`: an entry any half of which is in Consul is handled at its
  first key, and is loaded or reused there. `RightCertificate` needs that `by_name`
  points to the first certificate bearing a name; the least element of a set of
  positions exists by well-founded induction.

**Only model-checked:**

* Liveness, which the prover does not handle: `OpenIsLeft`, `KeepsAdmitting`,
  `VerdictsCatchUp`, `RoutesCatchUp`, `ListenersFollow`, `CertificatesCatchUp`, and
  that clients are fed and tasks end in `StreamFollowsClients`.
* `TrafficFollowsWeights`: sums, rounding and the interleaving of slots are folds over
  the targets of a route, and what they compute for every list needs induction over
  data, which the prover cannot do. Its divisions are exact only in the instance.
* `ParserIsExact`, the part of `BytesAreRespected` about the client hello parser, whose
  loops over extensions and names are recursive functions.

## 5. What is not modelled

* Weak memory effects; the breaker's transition history.
* Metrics (`metrics/prometheus.rs`): counters nothing else reads, and formatting.
* The headers a request is sent on with (`forwarded.rs`, `client_cert.rs`,
  `rewrite.rs`), bodies, compression and protocol detection: functions of one
  request, without state.
* OCSP stapling, X.509 and PEM decoding, cryptography, and the override of
  verification for upgraded CA certificates.
* Splitting a command into tokens, floating-point error of weights, weights of tags
  that are negative or no number (`consul/watcher.rs:363` takes any `f64`), and glob
  matching, which is the library's.
* The configuration file and its defaults; the dashboard's read-only views and
  topology graph; registration of the proxy itself in Consul; TCP keepalive.
* The Consul refresh tasks of the TLS stores do not pause when replies carry no
  index (`main.rs:197`), as the route watchers do; `TlsListener` has no property
  about their rate.
* `route del` and `route weight` are not in `ManagedRoutes` (their effect depends
  on the order of sources); `RouteTable` has them, with the sources in their order.

## 6. Plan

1. Refinements: a breaker call of `HttpRequests` implemented by `CircuitBreaker`, its
   slots by `ConnectionSlots`.
2. Commands other than adds in `ManagedRoutes`, as `RouteTable` has them.
