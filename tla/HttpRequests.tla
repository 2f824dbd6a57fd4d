---------------------------- MODULE HttpRequests ----------------------------
(***************************************************************************)
(* The life of an HTTP request in src/proxy/handler.rs, handler/upstream.rs*)
(* and handler/access.rs: it arrives, is given a target, passes the        *)
(* breaker, the rate limit and the connection limit, is resolved and       *)
(* proxied, and is logged, while tables, settings, probes and the other    *)
(* requests change what it reads at each step.                             *)
(*                                                                         *)
(* A table is here the sequence of routes that match the requests (see     *)
(* RouteTable for the matching), a target of a route is its position.  The *)
(* calls of a breaker are single steps (see CircuitBreaker for their       *)
(* interleavings), whether a bucket has a token is not determined (see     *)
(* TokenBucket).  Health and breaker of a URL live in its tracker.  Changed*)
(* breaker settings replace all trackers: the old ones are then only known *)
(* to requests under way, and what they answer is left open.               *)
(***************************************************************************)
EXTENDS Integers, Sequences, FiniteSets, SequencesExt

CONSTANTS
    Requests,     \* clients, each with one request at a time
    Urls,         \* upstream URLs
    Tables,       \* tables that may be published
    Configs,      \* settings: [cb, strategy, max_connections]
    Headers,      \* header constraints
    None,         \* no target, no error
    MaxProbes,    \* half_open_max_requests
    MaxLost,      \* bound on the slots lost
    Flaky,        \* URLs the health checker may mark down
    Reused,       \* URLs with connections to reuse
    Errors        \* errors of the proxy library after a peer was chosen

Targets == [url : Urls, needs : SUBSET Headers, weight : Nat]
(* A weighted list names targets by position, and is not empty if there    *)
(* are targets (Route::rebuild falls back to equal weights).  Bound: the   *)
(* counter counts modulo cycle, a common multiple of the lengths of lists. *)
IsRoute(route) ==
    /\ route.targets \in Seq(Targets) /\ route.w_targets \in Seq(DOMAIN route.targets)
    /\ route.w_targets = << >> => route.targets = << >>
    /\ route.cycle \in Nat \ {0}
    /\ \A n \in DOMAIN route.targets \cup DOMAIN route.w_targets : route.cycle % n = 0

(* A target as a request holds it; stale once its tracker is replaced. *)
HeldTargets == [url : Urls, needs : SUBSET Headers, stale : BOOLEAN]

ASSUME RequestAssumption ==
    /\ IsFiniteSet(Requests)
    /\ MaxProbes \in Nat \ {0} /\ MaxLost \in Nat
    /\ Flaky \subseteq Urls
    /\ \A c \in Configs : c.cb \in BOOLEAN /\ c.max_connections \in Nat
    /\ \A routes \in Tables :
            routes \in Seq(Range(routes)) /\ \A route \in Range(routes) : IsRoute(route)
    /\ None \notin {"404", "429", "503"} \cup HeldTargets

VARIABLES
    config,    \* the settings (ArcSwap)
    applying,  \* an update has stored settings and not yet rebuilt the table
    table,     \* the routes that match, most specific first
    cursor,    \* rr_counter of each route
    tracker,   \* URL |-> [up, state, count, sent]
    active,    \* URL |-> active_connections
    gauge,     \* connections in the metrics
    req,       \* the request of each client
    lost,      \* URL |-> slots no request will release (history variable)
    gap        \* request |-> no route matched while it looked (history variable)

vars == <<config, applying, table, cursor, tracker, active, gauge, req, lost, gap>>

States == {"closed", "open", "half"}

NewTracker == [up |-> TRUE, state |-> "closed", count |-> 0, sent |-> FALSE]

(* ProxyCtx, with the locals of select_upstream_peer that live across steps. *)
Idle == [pc |-> "idle", want |-> {}, cfg |-> None, target |-> None, picked |-> None,
         refused |-> None, bad |-> FALSE, retries |-> 0, probes |-> {}]

----------------------------------------------------------------------------
(* The breaker of a target.  Whether its recovery time has elapsed, since  *)
(* it opened or since a probe was sent, is left open: late holds the URLs  *)
(* for which it has.  sent is half_open_in_flight.                         *)

can_accept_request(b, late) ==
    \/ b.state = "closed"
    \/ b.state = "open" /\ late
    \/ b.state = "half" /\ b.count < MaxProbes /\ ~b.sent

allows(b, late) ==
    \/ b.state = "closed"
    \/ b.state = "open" /\ late
    \/ b.state = "half" /\ b.count < MaxProbes /\ (~b.sent \/ late)

allow_request(b) ==
    CASE b.state = "open" -> [b EXCEPT !.state = "half", !.count = 0, !.sent = TRUE]
      [] b.state = "half" -> [b EXCEPT !.sent = TRUE]
      [] OTHER            -> b

abort_probe(b) == IF b.state = "half" THEN [b EXCEPT !.sent = FALSE] ELSE b

record_success(b) ==
    IF b.state # "half" THEN b
    ELSE IF b.count + 1 >= MaxProbes
         THEN [b EXCEPT !.state = "closed", !.count = 0, !.sent = FALSE]
         ELSE [b EXCEPT !.count = @ + 1, !.sent = FALSE]

(* Whether the error fills the window is left open. *)
Opened(b) == [b EXCEPT !.state = "open", !.count = 0, !.sent = FALSE]
record_error(b) ==
    CASE b.state = "closed" -> {b, Opened(b)}
      [] b.state = "half"   -> {Opened(b)}
      [] OTHER              -> {b}

----------------------------------------------------------------------------
(* Picking a target. *)

matches_headers(t, want) == t.needs \subseteq want

(* A list is filtered by leaving out positions; these are the entries with *)
(* n others before them.                                                   *)
Nth(list, n) ==
    {list[i] : i \in {j \in DOMAIN list : Cardinality({k \in DOMAIN list : k < j}) = n}}

(* The targets a strategy may pick of a list and its weighted list.  The   *)
(* first of the least loaded, as the loop keeps the earlier one.           *)
pick_target_by_strategy(strategy, targets, w_targets, count) ==
    LET weighted == RestrictValues(targets, LAMBDA t : t.weight > 0)
        least == RestrictValues(weighted, LAMBDA t : \A o \in Range(weighted) :
                                    active[t.url] * o.weight <= active[o.url] * t.weight)
        fewest == RestrictValues(targets, LAMBDA t : \A o \in Range(targets) :
                                    active[t.url] <= active[o.url])
    IN CASE strategy = "random" -> Range(w_targets)
         [] strategy = "least-connections" -> Nth(IF DOMAIN weighted # {} THEN least ELSE fewest, 0)
         [] OTHER -> Nth(w_targets, count % Cardinality(DOMAIN w_targets))

Constrained(route) == \E i \in DOMAIN route.targets : route.targets[i].needs # {}
Fits(route, t, want) == ~Constrained(route) \/ matches_headers(t, want)

Tracker(t) == tracker[t.url]
Held(t) == [url |-> t.url, needs |-> t.needs, stale |-> FALSE]

(***************************************************************************)
(* One route of lookup_target: the targets it may give, with the number of *)
(* round-robin ticks used.  The picked target is taken if it is up and its *)
(* breaker would let a request in; otherwise the same strategy, with the   *)
(* same counter, picks among the other URLs for which that holds.          *)
(***************************************************************************)
RouteOutcomes(route, count, want, cfg, late) ==
    LET all == route.targets
        targets == RestrictValues(all, LAMBDA t : Fits(route, t, want))
        fitting == RestrictValues([k \in DOMAIN route.w_targets |-> all[route.w_targets[k]]],
                                  LAMBDA t : Fits(route, t, want))
        w_list == IF DOMAIN fitting = {} THEN targets ELSE fitting
        tick == IF cfg.strategy = "round-robin" THEN 1 ELSE 0
        Accepts(t) == can_accept_request(Tracker(t), t.url \in late)
        Good(t) == Tracker(t).up /\ (~cfg.cb \/ Accepts(t))
        Others(t) == RestrictValues(targets, LAMBDA o : /\ o.url # t.url
                                                        /\ Tracker(o).up /\ Accepts(o))
        From(t) ==
            IF Good(t) THEN {[target |-> Held(t), ticks |-> tick]}
            ELSE IF DOMAIN Others(t) = {} THEN {[target |-> None, ticks |-> tick]}
            ELSE {[target |-> Held(o), ticks |-> 2 * tick] :
                    o \in pick_target_by_strategy(cfg.strategy, Others(t), Others(t), count + tick)}
    IN IF route.w_targets = << >> \/ DOMAIN targets = {} THEN {[target |-> None, ticks |-> 0]}
       ELSE UNION {From(t) : t \in pick_target_by_strategy(cfg.strategy, targets, w_list, count)}

Ticked(route, count, ticks) == (count + ticks) % route.cycle

(* Mutant: only the most specific route is tried. *)
lookup_target_FirstOnly(want, cfg, late) ==
    IF table = << >> THEN {[target |-> None, cursor |-> cursor]}
    ELSE {[target |-> o.target, cursor |-> [cursor EXCEPT ![1] = Ticked(table[1], @, o.ticks)]] :
            o \in RouteOutcomes(table[1], cursor[1], want, cfg, late)}

(* The routes are tried in order until one gives a target: given what each *)
(* would answer, the first that does is the last whose counter is used.    *)
lookup_target(want, cfg, late) ==
    LET Outcomes(i) == RouteOutcomes(table[i], cursor[i], want, cfg, late)
        Answers == {f \in [DOMAIN table -> UNION {Outcomes(i) : i \in DOMAIN table}] :
                        \A i \in DOMAIN table : f[i] \in Outcomes(i)}
        Giving(f) == {i \in DOMAIN table : f[i].target # None}
        Tried(f, i) == \A j \in Giving(f) : i <= j
    IN {[target |-> IF Giving(f) = {} THEN None ELSE f[Min(Giving(f))].target,
         cursor |-> [i \in DOMAIN table |->
                        IF Tried(f, i) THEN Ticked(table[i], cursor[i], f[i].ticks) ELSE cursor[i]]] :
            f \in Answers}

(* The places of targets in the table: route and position. *)
Places == UNION {{<<i, j>> : j \in DOMAIN table[i].targets} : i \in DOMAIN table}
At(place) == table[place[1]].targets[place[2]]
Before(p, q) == p[1] < q[1] \/ (p[1] = q[1] /\ p[2] <= q[2])

(* Mutant: the constraints of the other targets are forgotten. *)
Fallbacks_AnyHeader(r, late) ==
    {p \in Places : /\ table[p[1]].w_targets # << >>
                    /\ At(p).url # req[r].target.url
                    /\ Tracker(At(p)).up
                    /\ allows(Tracker(At(p)), At(p).url \in late)}

(* Where the inline fallback of select_upstream_peer may find a target. *)
Fallbacks(r, late) ==
    {p \in Places : /\ table[p[1]].w_targets # << >>
                    /\ At(p).url # req[r].target.url
                    /\ Tracker(At(p)).up
                    /\ Fits(table[p[1]], At(p), req[r].want)
                    /\ allows(Tracker(At(p)), At(p).url \in late)}

----------------------------------------------------------------------------
Init ==
    /\ config \in Configs
    /\ applying = FALSE
    /\ table \in Tables
    /\ cursor = [i \in DOMAIN table |-> 0]
    /\ tracker = [u \in Urls |-> NewTracker]
    /\ active = [u \in Urls |-> 0]
    /\ gauge = 0
    /\ req = [r \in Requests |-> Idle]
    /\ lost = [u \in Urls |-> 0]
    /\ gap = [r \in Requests |-> FALSE]

(* The status a request is logged with: the one of its response, or that of *)
(* its error.                                                               *)
response_status(status, error) ==
    IF status > 0 THEN status
    ELSE CASE error = None -> 200
           [] error = "403" -> 403
           [] error = "404" -> 404
           [] error = "429" -> 429
           [] error = "503" -> 503
           [] error = "ConnectTimedout" -> 504
           [] OTHER -> 502

should_record_target_error(status, error) ==
    \/ response_status(status, error) >= 500
    \/ error \in {"ConnectTimedout", "ConnectRefused", "ConnectNoRoute"}

Step(r, from, new) == req[r].pc = from /\ req' = [req EXCEPT ![r] = new]

(* new_ctx, early_request_filter, request_filter: the health endpoint of    *)
(* the load balancer itself is answered at once.                            *)
Arrive(r) ==
    /\ \/ \E want \in SUBSET Headers :
            Step(r, "idle", [Idle EXCEPT !.pc = "select", !.want = want])
       \/ Step(r, "idle", [Idle EXCEPT !.pc = "logging"])
    /\ gauge' = gauge + 1
    /\ gap' = [gap EXCEPT ![r] = (table = << >>)]
    /\ UNCHANGED <<config, applying, table, cursor, tracker, active, lost>>

Lookup(r) ==
    /\ req[r].pc = "select"
    /\ \E late \in SUBSET Urls : \E found \in lookup_target(req[r].want, config, late) :
        /\ Step(r, "select",
                [req[r] EXCEPT !.pc = IF found.target = None THEN "unmatched" ELSE "chosen",
                               !.cfg = config,
                               !.target = found.target])
        /\ cursor' = found.cursor
        /\ gap' = [gap EXCEPT ![r] = @ /\ found.target = None]
    /\ UNCHANGED <<config, applying, table, tracker, active, gauge, lost>>

(* The request is over, and what its log will tell the breaker is settled;  *)
(* the locals of select_upstream_peer are gone.                             *)
Over(r, status, error) ==
    [req[r] EXCEPT !.pc = "logging", !.cfg = None, !.target = None, !.want = {},
                   !.bad = should_record_target_error(status, error)]

Refused(r, code) == [Over(r, 0, code) EXCEPT !.refused = code]

(* The table is read again to tell 503 from no_route_status. *)
NoTarget(r) ==
    /\ Step(r, "unmatched", Refused(r, IF table # << >> THEN "503" ELSE "404"))
    /\ UNCHANGED <<config, applying, table, cursor, tracker, active, gauge, lost, gap>>

With(t, b) == IF t.stale THEN tracker ELSE [tracker EXCEPT ![t.url] = b]

(* allow_request, and the inline fallback if it refuses. *)
Allow(r, late) ==
    LET t == req[r].target
        fallbacks == Fallbacks(r, late)
        Take(x) ==
            /\ Step(r, "chosen", [req[r] EXCEPT !.pc = "allowed", !.target = x,
                    !.probes = IF x.stale \/ Tracker(x).state = "closed" THEN @ ELSE @ \cup {x.url}])
            /\ tracker' = With(x, allow_request(Tracker(x)))
    IN /\ req[r].pc = "chosen"
       /\ \/ /\ ~req[r].cfg.cb
             /\ Step(r, "chosen", [req[r] EXCEPT !.pc = "allowed"])
             /\ UNCHANGED tracker
          \/ req[r].cfg.cb /\ (t.stale \/ allows(Tracker(t), t.url \in late)) /\ Take(t)
          \/ /\ req[r].cfg.cb /\ (t.stale \/ ~allows(Tracker(t), t.url \in late))
             /\ \/ \E p \in fallbacks : (\A q \in fallbacks : Before(p, q)) /\ Take(Held(At(p)))
                \/ fallbacks = {} /\ Step(r, "chosen", Refused(r, "503")) /\ UNCHANGED tracker
       /\ UNCHANGED <<config, applying, table, cursor, active, gauge, lost, gap>>

Aborted(r) ==
    IF req[r].cfg.cb THEN With(req[r].target, abort_probe(Tracker(req[r].target))) ELSE tracker

(* Mutant: a refusal by the rate limit keeps the probe. *)
RateLimit_KeepsProbe(r) ==
    /\ \/ Step(r, "allowed", [req[r] EXCEPT !.pc = "limited"])
       \/ Step(r, "allowed", Refused(r, "429"))
    /\ UNCHANGED <<config, applying, table, cursor, tracker, active, gauge, lost, gap>>

(* Mutant: being over the rate counts as an error of the target. *)
RateLimit_CountsError(r) ==
    /\ \/ /\ Step(r, "allowed", [req[r] EXCEPT !.pc = "limited"])
          /\ UNCHANGED tracker
       \/ /\ Step(r, "allowed", Refused(r, "429"))
          /\ \E b \in record_error(Tracker(req[r].target)) : tracker' = With(req[r].target, b)
    /\ UNCHANGED <<config, applying, table, cursor, active, gauge, lost, gap>>

RateLimit(r) ==
    /\ \/ /\ Step(r, "allowed", [req[r] EXCEPT !.pc = "limited"])
          /\ UNCHANGED tracker
       \/ /\ Step(r, "allowed", [Refused(r, "429") EXCEPT !.probes = @ \ {req[r].target.url}])
          /\ tracker' = Aborted(r)
    /\ UNCHANGED <<config, applying, table, cursor, active, gauge, lost, gap>>

Picked(r) == [req[r] EXCEPT !.pc = "picked", !.picked = req[r].target,
                            !.cfg = None, !.target = None]

Full(r) == /\ req[r].cfg.max_connections > 0
           /\ active[req[r].target.url] >= req[r].cfg.max_connections

(* The slot, and the pick; a pick of an earlier try is overwritten. *)
Slot(r) ==
    LET u == req[r].target.url
        before == req[r].picked
    IN /\ req[r].pc = "limited"
       /\ \/ /\ ~Full(r)
             /\ Step(r, "limited", Picked(r))
             /\ active' = [active EXCEPT ![u] = @ + 1]
             /\ lost' = IF before = None THEN lost ELSE [lost EXCEPT ![before.url] = @ + 1]
             /\ UNCHANGED tracker
          \/ /\ Full(r)
             /\ Step(r, "limited", [Refused(r, "503") EXCEPT !.probes = @ \ {u}])
             /\ tracker' = Aborted(r)
             /\ UNCHANGED <<active, lost>>
       /\ UNCHANGED <<config, applying, table, cursor, gauge, gap>>

(* The address is looked up (see DnsCache); success changes nothing here. *)
ResolveFails(r) ==
    /\ \E error \in {"403", "ConnectNoRoute"} : Step(r, "picked", Over(r, 0, error))
    /\ UNCHANGED <<config, applying, table, cursor, tracker, active, gauge, lost, gap>>

(* The proxy library: a response, or an error before or after its header.  *)
Respond(r) ==
    /\ \E status \in {0, 200, 500}, error \in Errors \cup {None} :
            /\ status = 0 => error # None
            /\ Step(r, "picked", Over(r, status, error))
    /\ UNCHANGED <<config, applying, table, cursor, tracker, active, gauge, lost, gap>>

(* A reused connection turned out dead: the library asks for a peer again,  *)
(* with the same context.  Bound: one retried request at a time.            *)
Retry(r) ==
    /\ req[r].pc = "picked"
    /\ req[r].picked.url \in Reused
    /\ \A u \in Urls : lost[u] < MaxLost
    /\ \A o \in Requests : req[o].retries = 0
    /\ Step(r, "picked", [req[r] EXCEPT !.pc = "select", !.retries = @ + 1])
    /\ gap' = [gap EXCEPT ![r] = (table = << >>)]
    /\ UNCHANGED <<config, applying, table, cursor, tracker, active, gauge, lost>>

(* record_access_log: the slot goes back, and the breaker learns how it went *)
(* if breakers are in use by now.                                           *)
Log(r) ==
    LET q == req[r]
    IN /\ Step(r, "logging", Idle)
       /\ gauge' = gauge - 1
       /\ gap' = [gap EXCEPT ![r] = FALSE]
       /\ IF q.picked = None THEN UNCHANGED <<active, tracker>>
          ELSE /\ active' = [active EXCEPT ![q.picked.url] = @ - 1]
               /\ IF ~config.cb THEN UNCHANGED tracker
                  ELSE \E b \in IF q.bad
                                THEN record_error(Tracker(q.picked))
                                ELSE {record_success(Tracker(q.picked))} :
                            tracker' = With(q.picked, b)
       /\ UNCHANGED <<config, applying, table, cursor, lost>>

----------------------------------------------------------------------------
(* The surroundings. *)

(* A rebuild publishes a table; its routes count from zero. *)
Swap(routes) ==
    /\ table' = routes
    /\ cursor' = [i \in DOMAIN routes |-> 0]
    /\ gap' = [r \in Requests |->
                gap[r] \/ (req[r].pc \in {"select", "unmatched"} /\ routes = << >>)]
    /\ UNCHANGED <<config, applying, tracker, active, gauge, req, lost>>

(* config_update_handler stores the settings, then rebuilds the table with *)
(* new trackers if those of the breaker changed.                           *)
Configure(c) ==
    /\ ~applying
    /\ c # config
    /\ config' = c
    /\ applying' = (c.cb # config.cb)
    /\ UNCHANGED <<table, cursor, tracker, active, gauge, req, lost, gap>>

Stale(t) == IF t = None THEN None ELSE [t EXCEPT !.stale = TRUE]

Reconfigure ==
    /\ applying
    /\ applying' = FALSE
    /\ tracker' = [u \in Urls |-> NewTracker]
    /\ req' = [r \in Requests |-> [req[r] EXCEPT !.target = Stale(@), !.picked = Stale(@),
                                                !.probes = {}]]
    /\ cursor' = [i \in DOMAIN cursor |-> 0]
    /\ UNCHANGED <<config, table, active, gauge, lost, gap>>

(* The health checker marks the target up or down. *)
Probe(u) ==
    /\ tracker' = [tracker EXCEPT ![u].up = ~@]
    /\ UNCHANGED <<config, applying, table, cursor, active, gauge, req, lost, gap>>

RequestStep(r) ==
    \/ Lookup(r) \/ NoTarget(r) \/ (\E late \in SUBSET Urls : Allow(r, late)) \/ RateLimit(r) \/ Slot(r)
    \/ ResolveFails(r) \/ Respond(r) \/ Log(r)

Next ==
    \/ \E r \in Requests : Arrive(r) \/ RequestStep(r) \/ Retry(r)
    \/ \E routes \in Tables : Swap(routes)
    \/ \E c \in Configs : Configure(c)
    \/ Reconfigure
    \/ \E u \in Flaky : Probe(u)

Spec == Init /\ [][Next]_vars

----------------------------------------------------------------------------
(* Properties. *)

Running == {r \in Requests : req[r].pc # "idle"}

(* Only a half-open breaker has sent a probe. *)
IsBreaker(b) ==
    b.state \in States /\ b.count \in 0 .. MaxProbes - 1 /\ (b.sent => b.state = "half")

(* Every variable has its type; cursors belong to the routes of the table. *)
TypeOK ==
    /\ config \in Configs /\ applying \in BOOLEAN
    /\ table \in Tables
    /\ cursor \in [DOMAIN table -> Nat]
    /\ \A u \in Urls : IsBreaker(tracker[u])
    /\ active \in [Urls -> Nat] /\ lost \in [Urls -> 0 .. MaxLost]
    /\ gauge \in Nat
    /\ DOMAIN req = Requests /\ gap \in [Requests -> BOOLEAN]

(***************************************************************************)
(* Slots are given back (try_acquire_connection_slot, record_access_log):  *)
(* on every way out, refusals, resolution failures and errors included,    *)
(* active_connections counts the running requests that hold a slot of the  *)
(* URL, and besides them only the picks a library retry overwrote.  The    *)
(* connection gauge counts the running requests.                           *)
(***************************************************************************)
SlotsAccounted ==
    /\ \A u \in Urls :
        active[u] = lost[u] + Cardinality({r \in Running :
                                req[r].picked # None /\ req[r].picked.url = u})
    /\ gauge = Cardinality(Running)

(***************************************************************************)
(* Probes are given back (allow_request, abort_probe, record_error): in   *)
(* the table that is served, unless an update is half applied, a half-open *)
(* probe that is marked in flight belongs to a running request, whatever   *)
(* way requests end and settings change, except where a library retry made *)
(* the request forget a pick of that URL.                                  *)
(***************************************************************************)
ProbesHaveOwners ==
    ~applying /\ config.cb =>
        \A u \in Urls : tracker[u].sent =>
            lost[u] > 0 \/ \E r \in Running : u \in req[r].probes

(***************************************************************************)
(* Header constraints hold (lookup_target, inline fallback): no request is *)
(* given a target whose `header=' option it does not satisfy, on the first *)
(* pick, on either fallback, and across a swap of the table in between.    *)
(***************************************************************************)
HeaderConstraintsHold ==
    \A r \in Requests : req[r].target # None => matches_headers(req[r].target, req[r].want)

(***************************************************************************)
(* The status tells why (select_upstream_peer's second read of the table): *)
(* whatever tables are published between the lookup and the second read,   *)
(* no_route_status is only answered if at some moment of the lookup no     *)
(* route matched.                                                          *)
(***************************************************************************)
StatusTellsWhy == \A r \in Requests : req[r].refused = "404" => gap[r]

(***************************************************************************)
(* No target in reach is missed (lookup_target): a request is left without *)
(* target only if no route that matches has one that fits its headers, is  *)
(* up and whose breaker would accept; and a target that is given is up.    *)
(***************************************************************************)
NoTargetMissed ==
    [][ \A r \in Requests : req[r].pc = "select" /\ req'[r].pc # "select" =>
            LET Reachable(t) == /\ tracker[t.url].up
                                /\ can_accept_request(tracker[t.url], FALSE)
                                /\ matches_headers(t, req[r].want)
            IN /\ req'[r].target = None =>
                    \A i \in DOMAIN table : \A t \in Range(table[i].targets) : ~Reachable(t)
               /\ req'[r].target # None => tracker[req'[r].target.url].up ]_vars

(***************************************************************************)
(* Refusals do not feed back (select_upstream_peer, record_access_log): the*)
(* steps that refuse a request and log it, if it was not retried, neither  *)
(* open a breaker nor change a connection count, so that overload of the   *)
(* limits is never mistaken for failure of the upstream.                   *)
(***************************************************************************)
RefusalsDoNotFeedBack ==
    [][ \A r \in Requests :
            /\ req'[r] # req[r] /\ req[r].retries = 0
            /\ req[r].refused # None \/ req'[r].refused # None
            => /\ \A u \in Urls : tracker'[u].state = "open" => tracker[u].state = "open"
               /\ UNCHANGED active ]_vars

(* What a request takes it gives back: connection slots, the gauge and     *)
(* half-open probes, on every way out.                                     *)
HoldingsAreReturned == TypeOK /\ SlotsAccounted /\ ProbesHaveOwners

(* A selection is right although the table changes under it: the target    *)
(* fits the headers and a refusal's status its cause.                      *)
SelectionsAreRight == HeaderConstraintsHold /\ StatusTellsWhy
=============================================================================
