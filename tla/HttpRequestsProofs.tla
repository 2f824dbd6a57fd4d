------------------------ MODULE HttpRequestsProofs ------------------------
(***************************************************************************)
(* The life of a request for any number of clients, URLs and targets, any  *)
(* tables and settings.  A step of a request is first summed up by what it *)
(* makes of the request (Moves) and by its effect on the slots (Quiet) and *)
(* on the breakers; the parts of the invariant are then short arguments    *)
(* about these.                                                            *)
(***************************************************************************)
EXTENDS HttpRequests, FiniteSetTheorems, WellFoundedInduction, TLAPS

Pcs == {"idle", "select", "unmatched", "chosen", "allowed", "limited", "picked", "logging"}
Given == {"chosen", "allowed", "limited"}
Choosing == {"select", "unmatched"} \cup Given
Reqs == [pc : Pcs, want : SUBSET Headers, cfg : Configs \cup {None},
         target : HeldTargets \cup {None}, picked : HeldTargets \cup {None},
         refused : {None, "404", "429", "503"}, bad : BOOLEAN, retries : {0, 1},
         probes : SUBSET Urls]
Trackers == [up : BOOLEAN, state : States, count : 0 .. MaxProbes - 1, sent : BOOLEAN]
(* Only a half-open breaker has sent a probe. *)
Honest(b) == b.sent => b.state = "half"

Types ==
    /\ config \in Configs /\ applying \in BOOLEAN /\ table \in Tables
    /\ cursor \in [DOMAIN table -> Nat]
    /\ tracker \in [Urls -> Trackers] /\ \A u \in Urls : Honest(tracker[u])
    /\ active \in [Urls -> Nat] /\ lost \in [Urls -> 0 .. MaxLost] /\ gauge \in Nat
    /\ req \in [Requests -> Reqs] /\ gap \in [Requests -> BOOLEAN]

(***************************************************************************)
(* The probes a request may still have to answer for: of the target it has *)
(* been let in to, of the target it picked, and of picks it has forgotten. *)
(***************************************************************************)
MayOwn(q, u, l) ==
    \/ l[u] > 0
    \/ q.picked # None /\ ~q.picked.stale /\ q.picked.url = u
    \/ q.pc \in {"allowed", "limited"} /\ ~q.target.stale /\ q.target.url = u

(***************************************************************************)
(* What holds of a request at each step, given the slots lost, the settings *)
(* and whether an update is half applied: while breakers are in use, a     *)
(* request whose target is not stale knows that they are.                  *)
(***************************************************************************)
Shape(q, l, c, a) ==
    /\ q.pc = "idle" => q = Idle
    /\ q.pc \in Given \cup {"unmatched"} => q.cfg \in Configs
    /\ q.pc \in Given <=> q.target # None
    /\ q.pc = "picked" => q.picked # None
    /\ q.refused # None => q.pc = "logging" /\ (q.retries = 0 => q.picked = None)
    /\ q.retries = 0 /\ q.pc \in Choosing => q.picked = None
    /\ q.target # None => q.target.needs \subseteq q.want
    /\ q.target # None /\ q.target.stale => q.probes = {}
    /\ \A u \in q.probes : MayOwn(q, u, l)
    /\ ~a /\ c.cb /\ q.target # None /\ ~q.target.stale => q.cfg.cb

(* At most one request is a retried one, and it can still lose its slot. *)
OneRetry ==
    /\ \A r, o \in Requests : r # o => req[r].retries = 0 \/ req[o].retries = 0
    /\ \A r \in Requests : req[r].picked # None /\ req[r].pc \in Choosing =>
            \A u \in Urls : lost[u] < MaxLost

(* A request that would be told there is no route has met such a table. *)
GapsKnown ==
    \A r \in Requests : req[r].pc \in {"select", "unmatched"} /\ table = << >> => gap[r]

Shapes == \A r \in Requests : Shape(req[r], lost, config, applying)
IInv == /\ Types /\ Shapes /\ OneRetry /\ GapsKnown
        /\ SlotsAccounted /\ ProbesHaveOwners /\ StatusTellsWhy

----------------------------------------------------------------------------
(***************************************************************************)
(* Picking a target.                                                       *)
(***************************************************************************)

\* A set of numbers that is not empty has a least one.
LEMMA MinIsLeast ==
  ASSUME NEW S, S \subseteq Nat, S # {}
  PROVE  Min(S) \in S /\ \A n \in S : Min(S) <= n
<1> DEFINE R == {p \in Nat \X Nat : p[1] < p[2]}
<1>1. IsWellFoundedOn(R, Nat)
  BY NatLessThanWellFounded DEF OpToRel
<1>2. \A x, y \in Nat : x < y => <<x, y>> \in R
  OBVIOUS
<1> HIDE DEF R
<1>3. PICK x \in S : \A y \in S : ~(<<y, x>> \in R)
  BY <1>1, WFMin
<1>4. ASSUME NEW y \in S PROVE x <= y
  <2>1. x \in Nat /\ y \in Nat
    OBVIOUS
  <2>2. ~(y < x)
    BY <1>2, <1>3, <2>1
  <2>3. QED
    BY <2>1, <2>2
<1>5. QED
  BY <1>3, <1>4 DEF Min

LEMMA NthIsThere ==
  ASSUME NEW list, NEW n
  PROVE  Nth(list, n) \subseteq Range(list)
  BY DEF Nth, Range

\* A strategy picks from the lists it is given.
LEMMA PicksFromLists ==
  ASSUME NEW strategy, NEW targets, NEW w_targets, NEW count
  PROVE  pick_target_by_strategy(strategy, targets, w_targets, count)
            \subseteq Range(targets) \cup Range(w_targets)
<1> DEFINE weighted == RestrictValues(targets, LAMBDA t : t.weight > 0)
           least == RestrictValues(weighted, LAMBDA t : \A o \in Range(weighted) :
                                    active[t.url] * o.weight <= active[o.url] * t.weight)
           fewest == RestrictValues(targets, LAMBDA t : \A o \in Range(targets) :
                                    active[t.url] <= active[o.url])
<1>1. Range(weighted) \subseteq Range(targets)
  BY DEF RestrictValues, Restrict, Range
<1>2. Range(fewest) \subseteq Range(targets)
  BY DEF RestrictValues, Restrict, Range
<1>3. Range(least) \subseteq Range(weighted)
  <2> HIDE DEF weighted
  <2>1. QED
    BY DEF RestrictValues, Restrict, Range
<1> HIDE DEF weighted, least, fewest
<1>4. /\ Nth(least, 0) \subseteq Range(targets) /\ Nth(fewest, 0) \subseteq Range(targets)
      /\ Nth(w_targets, count % Cardinality(DOMAIN w_targets)) \subseteq Range(w_targets)
  BY <1>1, <1>2, <1>3, NthIsThere
<1>5. QED
  BY <1>4 DEF pick_target_by_strategy, weighted, least, fewest

(* A target that fits, is up and whose breaker would let a request in. *)
Reachable(t, want) ==
    /\ tracker[t.url].up
    /\ can_accept_request(tracker[t.url], FALSE)
    /\ matches_headers(t, want)

(* A target a lookup may give. *)
Suitable(t, want) ==
    t \in HeldTargets /\ ~t.stale /\ t.needs \subseteq want /\ tracker[t.url].up

LEMMA FitsMeansMatches ==
  ASSUME NEW route, IsRoute(route), NEW t \in Range(route.targets), NEW want
  PROVE  Fits(route, t, want) <=> matches_headers(t, want)
<1>1. PICK i \in DOMAIN route.targets : t = route.targets[i]
  BY DEF Range
<1>2. ~Constrained(route) => t.needs = {}
  BY <1>1 DEF Constrained
<1>3. QED
  BY <1>2 DEF Fits, matches_headers

\* One route gives a suitable target, or none if none is reachable.
LEMMA OutcomesOfRoute ==
  ASSUME Types, NEW route, IsRoute(route), NEW count, NEW want, NEW cfg, NEW late,
         NEW o \in RouteOutcomes(route, count, want, cfg, late)
  PROVE  /\ o.ticks \in Nat
         /\ o.target # None => Suitable(o.target, want)
         /\ o.target = None => \A t \in Range(route.targets) : ~Reachable(t, want)
<1> DEFINE all == route.targets
           targets == RestrictValues(all, LAMBDA t : Fits(route, t, want))
           fitting == RestrictValues([k \in DOMAIN route.w_targets |-> all[route.w_targets[k]]],
                                     LAMBDA t : Fits(route, t, want))
           w_list == IF DOMAIN fitting = {} THEN targets ELSE fitting
           tick == IF cfg.strategy = "round-robin" THEN 1 ELSE 0
           Accepts(t) == can_accept_request(Tracker(t), t.url \in late)
           Good(t) == Tracker(t).up /\ (~cfg.cb \/ Accepts(t))
           Others(t) == RestrictValues(targets, LAMBDA x : /\ x.url # t.url
                                                           /\ Tracker(x).up /\ Accepts(x))
           From(t) ==
               IF Good(t) THEN {[target |-> Held(t), ticks |-> tick]}
               ELSE IF DOMAIN Others(t) = {} THEN {[target |-> None, ticks |-> tick]}
               ELSE {[target |-> Held(x), ticks |-> 2 * tick] :
                       x \in pick_target_by_strategy(cfg.strategy, Others(t), Others(t), count + tick)}
           picks == pick_target_by_strategy(cfg.strategy, targets, w_list, count)
<1>1. /\ all \in Seq(Targets) /\ route.w_targets \in Seq(DOMAIN all)
      /\ route.w_targets = << >> => all = << >>
  BY DEF IsRoute
<1>2. tick \in Nat /\ 2 * tick \in Nat
  OBVIOUS
<1>3. o \in IF route.w_targets = << >> \/ DOMAIN targets = {} THEN {[target |-> None, ticks |-> 0]}
            ELSE UNION {From(t) : t \in picks}
  BY Zenon DEF RouteOutcomes
<1>4. /\ Range(targets) = {t \in Range(all) : matches_headers(t, want)}
      /\ Range(fitting) \subseteq {t \in Range(all) : matches_headers(t, want)}
  <2>1. /\ Range(targets) = {t \in Range(all) : Fits(route, t, want)}
    BY DEF RestrictValues, Restrict, Range
  <2>2. Range(fitting) \subseteq {t \in Range(all) : Fits(route, t, want)}
    <3>1. \A k \in DOMAIN route.w_targets : route.w_targets[k] \in DOMAIN all
      BY <1>1
    <3> DEFINE w == [k \in DOMAIN route.w_targets |-> all[route.w_targets[k]]]
    <3>2. \A k \in DOMAIN w : w[k] \in Range(all)
      BY <3>1 DEF Range
    <3> HIDE DEF w, all
    <3>3. Range(RestrictValues(w, LAMBDA t : Fits(route, t, want)))
            \subseteq {t \in Range(all) : Fits(route, t, want)}
      BY <3>2 DEF RestrictValues, Restrict, Range
    <3>4. QED
      BY <3>3 DEF w
  <2>3. QED
    BY <2>1, <2>2, FitsMeansMatches
<1>5. DOMAIN targets = {} <=> Range(targets) = {}
  BY DEF Range
<1>6. Range(all) \subseteq Targets
  BY <1>1 DEF Range
<1> HIDE DEF all, targets, fitting, tick
<1>7. ASSUME NEW t \in Range(all), matches_headers(t, want)
      PROVE  Held(t) \in HeldTargets /\ Held(t) # None /\ ~Held(t).stale
             /\ Held(t).needs \subseteq want /\ Held(t).url = t.url
  <2>1. t \in Targets /\ t.needs \subseteq want
    BY <1>6, <1>7 DEF matches_headers
  <2>2. /\ Held(t) \in HeldTargets /\ ~Held(t).stale /\ Held(t).needs = t.needs
        /\ Held(t).url = t.url
    BY <2>1 DEF Targets, HeldTargets, Held
  <2>3. None \notin HeldTargets
    BY RequestAssumption
  <2>4. QED
    BY <2>1, <2>2, <2>3
<1>8. picks \subseteq {t \in Range(all) : matches_headers(t, want)}
  BY <1>4, PicksFromLists
<1>9. CASE route.w_targets = << >> \/ DOMAIN targets = {}
  <2>1. o = [target |-> None, ticks |-> 0]
    BY <1>3, <1>9
  <2>2. \A t \in Range(all) : ~matches_headers(t, want)
    <3>1. CASE route.w_targets = << >>
      BY <1>1, <3>1 DEF Range
    <3>2. CASE DOMAIN targets = {}
      BY <1>4, <1>5, <3>2
    <3>3. QED
      BY <1>9, <3>1, <3>2
  <2>3. QED
    BY <2>1, <2>2 DEF all, Reachable
<1>10. CASE ~(route.w_targets = << >> \/ DOMAIN targets = {})
  <2>1. PICK t \in picks : o \in From(t)
    BY <1>3, <1>10
  <2>2. t \in Range(all) /\ matches_headers(t, want)
    BY <1>8, <2>1
  <2>3. Range(Others(t)) = {x \in Range(targets) : x.url # t.url /\ Tracker(x).up /\ Accepts(x)}
        /\ (DOMAIN Others(t) = {} <=> Range(Others(t)) = {})
    BY DEF RestrictValues, Restrict, Range
  <2>4. CASE Good(t)
    <3>1. o = [target |-> Held(t), ticks |-> tick]
      BY <2>1, <2>4
    <3>2. QED
      BY <1>2, <1>7, <2>2, <2>4, <3>1 DEF Suitable, Tracker
  <2>5. CASE ~Good(t) /\ DOMAIN Others(t) = {}
    <3>1. o = [target |-> None, ticks |-> tick]
      BY <2>1, <2>5
    <3>2. ASSUME NEW x \in Range(all), Reachable(x, want) PROVE FALSE
      <4>1. Tracker(x).up /\ Accepts(x) /\ x \in Range(targets)
        BY <1>4, <3>2 DEF Reachable, Tracker, can_accept_request
      <4>2. x.url = t.url
        BY <2>3, <2>5, <4>1
      <4>3. QED
        BY <2>5, <4>1, <4>2 DEF Tracker
    <3>3. QED
      BY <1>2, <3>1, <3>2 DEF all
  <2>6. CASE ~Good(t) /\ DOMAIN Others(t) # {}
    <3>1. PICK x \in pick_target_by_strategy(cfg.strategy, Others(t), Others(t), count + tick) :
            o = [target |-> Held(x), ticks |-> 2 * tick]
      BY <2>1, <2>6
    <3>2. x \in Range(Others(t))
      BY <3>1, PicksFromLists
    <3>3. x \in Range(all) /\ matches_headers(x, want) /\ Tracker(x).up
      BY <1>4, <2>3, <3>2
    <3>4. QED
      BY <1>2, <1>7, <3>1, <3>3 DEF Suitable, Tracker
  <2>7. QED
    BY <2>4, <2>5, <2>6
<1>11. QED
  BY <1>9, <1>10

\* A lookup gives a suitable target, or none if no route has one in reach.
LEMMA FoundByLookup ==
  ASSUME Types, NEW want, NEW cfg, NEW late, NEW found \in lookup_target(want, cfg, late)
  PROVE  /\ found.cursor \in [DOMAIN table -> Nat]
         /\ found.target # None => Suitable(found.target, want)
         /\ found.target = None =>
                \A i \in DOMAIN table : \A t \in Range(table[i].targets) : ~Reachable(t, want)
         /\ table = << >> => found.target = None
<1> DEFINE Outcomes(i) == RouteOutcomes(table[i], cursor[i], want, cfg, late)
           Answers == {f \in [DOMAIN table -> UNION {Outcomes(i) : i \in DOMAIN table}] :
                           \A i \in DOMAIN table : f[i] \in Outcomes(i)}
           Giving(f) == {i \in DOMAIN table : f[i].target # None}
           Tried(f, i) == \A j \in Giving(f) : i <= j
<1>1. PICK f \in Answers :
        found = [target |-> IF Giving(f) = {} THEN None ELSE f[Min(Giving(f))].target,
                 cursor |-> [i \in DOMAIN table |->
                    IF Tried(f, i) THEN Ticked(table[i], cursor[i], f[i].ticks) ELSE cursor[i]]]
  BY Zenon DEF lookup_target
<1>2. /\ found.target = IF Giving(f) = {} THEN None ELSE f[Min(Giving(f))].target
      /\ found.cursor = [i \in DOMAIN table |->
                    IF Tried(f, i) THEN Ticked(table[i], cursor[i], f[i].ticks) ELSE cursor[i]]
  BY <1>1
<1>3. /\ table \in Seq(Range(table)) /\ DOMAIN table \subseteq Nat
      /\ \A i \in DOMAIN table : IsRoute(table[i])
      /\ cursor \in [DOMAIN table -> Nat]
  <2>1. table \in Tables /\ cursor \in [DOMAIN table -> Nat]
    BY DEF Types
  <2>2. table \in Seq(Range(table)) /\ \A route \in Range(table) : IsRoute(route)
    BY <2>1, RequestAssumption
  <2>3. \A i \in DOMAIN table : table[i] \in Range(table)
    BY DEF Range
  <2>4. DOMAIN table \subseteq Nat
    BY <2>2
  <2>5. QED
    BY <2>1, <2>2, <2>3, <2>4
<1>4. ASSUME NEW i \in DOMAIN table
      PROVE  /\ f[i].ticks \in Nat
             /\ f[i].target # None => Suitable(f[i].target, want)
             /\ f[i].target = None => \A t \in Range(table[i].targets) : ~Reachable(t, want)
  <2>1. f[i] \in Outcomes(i)
    BY <1>1
  <2>2. QED
    BY <1>3, <2>1, OutcomesOfRoute
<1> HIDE DEF Answers
<1>5. Giving(f) # {} => Min(Giving(f)) \in Giving(f)
  BY <1>3, MinIsLeast
<1>6. \A i \in DOMAIN table : Ticked(table[i], cursor[i], f[i].ticks) \in Nat
  BY <1>3, <1>4 DEF Ticked, IsRoute
<1>7. found.cursor \in [DOMAIN table -> Nat]
  BY <1>2, <1>3, <1>6
<1>8. CASE Giving(f) = {}
  BY <1>2, <1>4, <1>7, <1>8
<1>9. CASE Giving(f) # {}
  BY <1>2, <1>4, <1>5, <1>7, <1>9
<1>10. QED
  BY <1>8, <1>9

----------------------------------------------------------------------------
(***************************************************************************)
(* The breakers.                                                           *)
(***************************************************************************)

\* What the calls of a breaker make of it.
LEMMA BreakerCalls ==
  ASSUME NEW b \in Trackers, Honest(b)
  PROVE  /\ allow_request(b) \in Trackers /\ Honest(allow_request(b))
         /\ abort_probe(b) \in Trackers /\ ~abort_probe(b).sent
         /\ record_success(b) \in Trackers /\ ~record_success(b).sent
         /\ \A c \in record_error(b) : c \in Trackers /\ ~c.sent
         /\ allow_request(b).state = "open" => b.state = "open"
         /\ abort_probe(b).state = "open" => b.state = "open"
         /\ b.state = "closed" => allow_request(b) = b
<1>0. MaxProbes \in Nat /\ 0 \in 0 .. MaxProbes - 1
  BY RequestAssumption
<1>1. b.state \in States /\ b.count \in 0 .. MaxProbes - 1 /\ b.sent \in BOOLEAN /\ b.up \in BOOLEAN
  BY DEF Trackers
<1>2. /\ allow_request(b) \in Trackers /\ Honest(allow_request(b))
      /\ (allow_request(b).state = "open" => b.state = "open")
      /\ b.state = "closed" => allow_request(b) = b
  BY <1>0, <1>1 DEF Trackers, Honest, allow_request, States
<1>3. /\ abort_probe(b) \in Trackers /\ ~abort_probe(b).sent
      /\ abort_probe(b).state = "open" => b.state = "open"
  BY <1>1 DEF Trackers, Honest, abort_probe, States
<1>4. record_success(b) \in Trackers /\ ~record_success(b).sent
  <2>1. CASE b.state # "half"
    BY <2>1 DEF record_success, Honest
  <2>2. CASE b.state = "half" /\ b.count + 1 >= MaxProbes
    <3>1. record_success(b) = [b EXCEPT !.state = "closed", !.count = 0, !.sent = FALSE]
      BY <2>2 DEF record_success
    <3>2. QED
      BY <1>0, <1>1, <3>1 DEF Trackers, States
  <2>3. CASE b.state = "half" /\ ~(b.count + 1 >= MaxProbes)
    <3>1. record_success(b) = [b EXCEPT !.count = @ + 1, !.sent = FALSE]
      BY <2>3 DEF record_success
    <3>2. b.count + 1 \in 0 .. MaxProbes - 1
      BY <1>0, <1>1, <2>3
    <3>3. QED
      BY <1>1, <3>1, <3>2 DEF Trackers, States
  <2>4. QED
    BY <2>1, <2>2, <2>3
<1>5. Opened(b) \in Trackers /\ ~Opened(b).sent
  BY <1>0, <1>1 DEF Trackers, Opened, States
<1>6. \A c \in record_error(b) : c \in Trackers /\ ~c.sent
  BY <1>1, <1>5 DEF record_error, States, Honest
<1>7. QED
  BY <1>2, <1>3, <1>4, <1>6

\* A call reaches the breaker of its target, unless that has been replaced.
LEMMA BreakerReached ==
  ASSUME Types, NEW t \in HeldTargets, NEW b \in Trackers, Honest(b)
  PROVE  /\ With(t, b) \in [Urls -> Trackers]
         /\ \A u \in Urls : /\ Honest(With(t, b)[u])
                            /\ With(t, b)[u] = IF ~t.stale /\ u = t.url THEN b ELSE tracker[u]
<1>1. t.url \in Urls /\ t.stale \in BOOLEAN
  BY DEF HeldTargets
<1>2. tracker \in [Urls -> Trackers] /\ \A u \in Urls : Honest(tracker[u])
  BY DEF Types
<1>3. CASE t.stale
  BY <1>2, <1>3 DEF With
<1>4. CASE ~t.stale
  <2>1. With(t, b) = [tracker EXCEPT ![t.url] = b]
    BY <1>4 DEF With
  <2>2. QED
    BY <1>1, <1>2, <1>4, <2>1
<1>5. QED
  BY <1>3, <1>4

----------------------------------------------------------------------------
(***************************************************************************)
(* Most steps of a request leave slots, settings and table alone.          *)
(***************************************************************************)

(* Probes in flight afterwards have an owner, if they had one before. *)
Owned(r, n) ==
    ~applying /\ config.cb => \A u \in Urls : tracker'[u].sent =>
        lost[u] > 0 \/ u \in n.probes \/ (tracker[u].sent /\ u \notin req[r].probes)

Keeps(r, n) ==
    /\ req' = [req EXCEPT ![r] = n] /\ n \in Reqs /\ Shape(n, lost, config, applying)
    /\ n.pc # "idle" /\ req[r].pc # "idle"
    /\ n.pc \in Choosing => req[r].pc \in Choosing \/ \A u \in Urls : lost[u] < MaxLost
    /\ n.picked = req[r].picked
    /\ n.retries = req[r].retries \/ \A o \in Requests : req[o].retries = 0
    /\ UNCHANGED <<config, applying, table, active, gauge, lost>>
    /\ cursor' \in [DOMAIN table -> Nat]
    /\ tracker' \in [Urls -> Trackers]
    /\ \A u \in Urls : /\ Honest(tracker'[u])
                       /\ tracker'[u].state = "open" => tracker[u].state = "open"
    /\ gap' \in [Requests -> BOOLEAN] /\ \A o \in Requests : o # r => gap'[o] = gap[o]
    /\ n.refused = "404" => gap'[r]
    /\ n.pc \in {"select", "unmatched"} /\ table = << >> => gap'[r]
    /\ Owned(r, n)

Holding(u) == {r \in Running : req[r].picked # None /\ req[r].picked.url = u}

\* Such a step keeps the invariant.
LEMMA KeepsInv ==
  ASSUME IInv, NEW r \in Requests, NEW n, Keeps(r, n)
  PROVE  IInv'
<1>1. /\ req' = [req EXCEPT ![r] = n] /\ n \in Reqs /\ Shape(n, lost, config, applying)
      /\ n.pc # "idle" /\ req[r].pc # "idle"
      /\ n.picked = req[r].picked
      /\ config' = config /\ applying' = applying /\ table' = table
      /\ active' = active /\ gauge' = gauge /\ lost' = lost
  BY DEF Keeps
<1>2. /\ Types /\ Shapes /\ OneRetry /\ GapsKnown
      /\ SlotsAccounted /\ ProbesHaveOwners /\ StatusTellsWhy
  BY DEF IInv
<1>3. req \in [Requests -> Reqs]
  BY <1>2 DEF Types
<1>4. req'[r] = n /\ \A o \in Requests : o # r => req'[o] = req[o]
  BY <1>1, <1>3
<1>5. Types'
  <2>1. req' \in [Requests -> Reqs]
    BY <1>1, <1>3
  <2>2. QED
    BY <1>1, <1>2, <2>1 DEF Keeps, Types, Honest
<1>6. Shapes'
  <2>1. \A o \in Requests : Shape(req'[o], lost, config, applying)
    BY <1>1, <1>2, <1>4 DEF Shapes
  <2>2. QED
    BY <1>1, <2>1 DEF Shapes, Shape, MayOwn
<1>7. OneRetry'
  <2>1. ASSUME NEW o \in Requests, NEW p \in Requests, o # p
        PROVE  req'[o].retries = 0 \/ req'[p].retries = 0
    BY <1>1, <1>2, <1>4, <2>1 DEF OneRetry, Keeps
  <2>2. ASSUME NEW o \in Requests, req'[o].picked # None, req'[o].pc \in Choosing
        PROVE  \A u \in Urls : lost[u] < MaxLost
    BY <1>1, <1>2, <1>4, <2>2 DEF OneRetry, Keeps
  <2>3. QED
    BY <1>1, <2>1, <2>2 DEF OneRetry
<1>8. GapsKnown'
  BY <1>1, <1>2, <1>4 DEF GapsKnown, Keeps
<1>9. SlotsAccounted'
  <2>1. Running' = Running
    BY <1>1, <1>4 DEF Running
  <2>2. \A u \in Urls : Holding(u)' = Holding(u)
    BY <1>1, <1>4, <2>1 DEF Holding, Running
  <2>3. QED
    BY <1>1, <1>2, <2>1, <2>2 DEF SlotsAccounted, Holding
<1>10. ProbesHaveOwners'
  <2>1. SUFFICES ASSUME ~applying, config.cb, NEW u \in Urls, tracker'[u].sent, ~(lost[u] > 0)
                 PROVE  \E o \in Requests : req'[o].pc # "idle" /\ u \in req'[o].probes
    BY <1>1 DEF ProbesHaveOwners, Running
  <2>2. CASE u \in n.probes
    BY <1>1, <1>4, <2>2
  <2>3. CASE u \notin n.probes
    <3>1. tracker[u].sent /\ u \notin req[r].probes
      BY <2>1, <2>3 DEF Keeps, Owned
    <3>2. PICK o \in Requests : req[o].pc # "idle" /\ u \in req[o].probes
      BY <1>2, <2>1, <3>1 DEF ProbesHaveOwners, Running
    <3>3. QED
      BY <1>4, <3>1, <3>2
  <2>4. QED
    BY <2>2, <2>3
<1>11. StatusTellsWhy'
  BY <1>1, <1>2, <1>4 DEF StatusTellsWhy, Keeps
<1>12. QED
  BY <1>5, <1>6, <1>7, <1>8, <1>9, <1>10, <1>11 DEF IInv

\* What is known of a request at the start of a step.
LEMMA AtStart ==
  ASSUME IInv, NEW r \in Requests
  PROVE  /\ Types /\ req[r] \in Reqs /\ Shape(req[r], lost, config, applying)
         /\ req \in [Requests -> Reqs] /\ config \in Configs /\ gap \in [Requests -> BOOLEAN]
         /\ tracker \in [Urls -> Trackers] /\ \A u \in Urls : Honest(tracker[u])
         /\ cursor \in [DOMAIN table -> Nat] /\ lost \in [Urls -> 0 .. MaxLost]
         /\ GapsKnown /\ StatusTellsWhy
  BY DEF IInv, Types, Shapes

LEMMA LookupKeeps ==
  ASSUME IInv, NEW r \in Requests, Lookup(r)
  PROVE  \E n : Keeps(r, n)
<1>1. PICK late \in SUBSET Urls : \E found \in lookup_target(req[r].want, config, late) :
        /\ Step(r, "select",
                [req[r] EXCEPT !.pc = IF found.target = None THEN "unmatched" ELSE "chosen",
                               !.cfg = config,
                               !.target = found.target])
        /\ cursor' = found.cursor
        /\ gap' = [gap EXCEPT ![r] = @ /\ found.target = None]
  BY Zenon DEF Lookup
<1>2. PICK found \in lookup_target(req[r].want, config, late) :
        /\ Step(r, "select",
                [req[r] EXCEPT !.pc = IF found.target = None THEN "unmatched" ELSE "chosen",
                               !.cfg = config,
                               !.target = found.target])
        /\ cursor' = found.cursor
        /\ gap' = [gap EXCEPT ![r] = @ /\ found.target = None]
  BY <1>1
<1>3. /\ Types /\ req[r] \in Reqs /\ Shape(req[r], lost, config, applying)
      /\ config \in Configs /\ gap \in [Requests -> BOOLEAN] /\ GapsKnown
      /\ tracker \in [Urls -> Trackers] /\ \A u \in Urls : Honest(tracker[u])
  BY AtStart
<1>4. /\ found.cursor \in [DOMAIN table -> Nat]
      /\ found.target # None => Suitable(found.target, req[r].want)
      /\ table = << >> => found.target = None
  BY <1>3, FoundByLookup
<1> DEFINE q == req[r]
           n == [req[r] EXCEPT !.pc = IF found.target = None THEN "unmatched" ELSE "chosen",
                               !.cfg = config,
                               !.target = found.target]
<1>5. req' = [req EXCEPT ![r] = n] /\ q.pc = "select"
  BY <1>2, Zenon DEF Step
<1>6. found.target \in HeldTargets \cup {None}
  BY <1>4 DEF Suitable
<1>7. /\ n \in Reqs /\ n.pc = IF found.target = None THEN "unmatched" ELSE "chosen"
      /\ n.cfg = config /\ n.target = found.target /\ n.want = q.want /\ n.picked = q.picked
      /\ n.refused = q.refused /\ n.retries = q.retries /\ n.probes = q.probes
  BY <1>3, <1>6 DEF Reqs, Pcs
<1>8. /\ config' = config /\ applying' = applying /\ table' = table /\ tracker' = tracker
      /\ active' = active /\ gauge' = gauge /\ lost' = lost
  BY DEF Lookup
<1>9. q.target = None /\ q.refused = None
  BY <1>3, <1>5 DEF Shape, Given
<1> HIDE DEF n, q
<1>10. Shape(n, lost, config, applying)
  <2>1. \A u \in n.probes : MayOwn(n, u, lost)
    BY <1>3, <1>5, <1>7 DEF Shape, MayOwn, q
  <2>2. n.target # None => ~n.target.stale /\ n.target.needs \subseteq n.want
    BY <1>4, <1>7 DEF Suitable, q
  <2>3. n.retries = 0 => n.picked = None
    BY <1>3, <1>5, <1>7 DEF Shape, Choosing, q
  <2>4. n.refused = None /\ n.cfg \in Configs
    BY <1>3, <1>7, <1>9
  <2>5. QED
    BY <1>7, <2>1, <2>2, <2>3, <2>4 DEF Shape, Given
<1>11. /\ gap' \in [Requests -> BOOLEAN] /\ \A o \in Requests : o # r => gap'[o] = gap[o]
       /\ gap'[r] = (gap[r] /\ found.target = None)
  BY <1>2, <1>3
<1>12. n.pc \in {"select", "unmatched"} /\ table = << >> => gap'[r]
  <2>1. table = << >> => gap[r]
    BY <1>3, <1>5 DEF GapsKnown, q
  <2>2. QED
    BY <1>4, <1>11, <2>1
<1>13. Owned(r, n)
  BY <1>7, <1>8 DEF Owned, q
<1>14. n.refused # "404"
  BY <1>7, <1>9, RequestAssumption
<1>15. Keeps(r, n)
  BY <1>2, <1>3, <1>4, <1>5, <1>7, <1>8, <1>10, <1>11, <1>12, <1>13, <1>14 DEF Keeps, Choosing, Given, q
<1>16. QED
  BY <1>15

\* An aborted probe is not in flight, and nothing else changes.
LEMMA AbortedProbe ==
  ASSUME IInv, NEW r \in Requests, req[r].pc \in {"allowed", "limited"}
  PROVE  /\ Aborted(r) \in [Urls -> Trackers]
         /\ \A u \in Urls : /\ Honest(Aborted(r)[u])
                            /\ Aborted(r)[u].state = "open" => tracker[u].state = "open"
                            /\ Aborted(r)[u].sent => tracker[u].sent
         /\ req[r].cfg.cb /\ ~req[r].target.stale => ~Aborted(r)[req[r].target.url].sent
<1> DEFINE t == req[r].target
           b == abort_probe(Tracker(t))
<1>1. /\ Types /\ req[r] \in Reqs /\ Shape(req[r], lost, config, applying)
      /\ tracker \in [Urls -> Trackers] /\ \A u \in Urls : Honest(tracker[u])
  BY AtStart
<1>2. t \in HeldTargets /\ t.url \in Urls
  <2>1. t # None /\ t \in HeldTargets \cup {None}
    BY <1>1 DEF Shape, Given, Reqs
  <2>2. QED
    BY <2>1 DEF HeldTargets
<1>3. Tracker(t) \in Trackers /\ Honest(Tracker(t))
  BY <1>1, <1>2 DEF Tracker
<1>4. b \in Trackers /\ ~b.sent /\ (b.state = "open" => Tracker(t).state = "open")
  BY <1>3, BreakerCalls
<1>5. Aborted(r) = IF req[r].cfg.cb THEN With(t, b) ELSE tracker
  BY DEF Aborted
<1> HIDE DEF t, b
<1>6. /\ With(t, b) \in [Urls -> Trackers]
      /\ \A u \in Urls : /\ Honest(With(t, b)[u])
                         /\ With(t, b)[u] = IF ~t.stale /\ u = t.url THEN b ELSE tracker[u]
  <2>1. Honest(b)
    BY <1>4 DEF Honest
  <2>2. QED
    BY <1>1, <1>2, <1>4, <2>1, BreakerReached
<1>7. CASE req[r].cfg.cb
  <2>1. Aborted(r) = With(t, b)
    BY <1>5, <1>7
  <2>2. QED
    BY <1>2, <1>4, <1>6, <2>1 DEF Tracker, t
<1>8. CASE ~req[r].cfg.cb
  <2>1. Aborted(r) = tracker
    BY <1>5, <1>8
  <2>2. QED
    BY <1>1, <1>8, <2>1
<1>9. QED
  BY <1>7, <1>8

\* A request ends before it is proxied, or after; a refusal gives back a probe.
LEMMA EndKeeps ==
  ASSUME IInv, NEW r \in Requests, NEW n \in Reqs,
         req' = [req EXCEPT ![r] = n],
         n.pc = "logging", n.target = None, n.picked = req[r].picked, n.retries = req[r].retries,
         req[r].pc \in Choosing \/ (req[r].pc = "picked" /\ n.refused = req[r].refused),
         n.refused = "404" => req[r].pc = "unmatched" /\ table = << >>,
         UNCHANGED <<config, applying, table, cursor, active, gauge, lost, gap>>,
         \/ /\ req[r].pc \notin {"allowed", "limited"}
            /\ n.probes = req[r].probes /\ tracker' = tracker
         \/ /\ req[r].pc \in {"allowed", "limited"}
            /\ n.probes = req[r].probes \ {req[r].target.url} /\ tracker' = Aborted(r)
  PROVE  Keeps(r, n)
<1> DEFINE q == req[r]
<1>1. /\ Types /\ q \in Reqs /\ Shape(q, lost, config, applying)
      /\ config \in Configs /\ gap \in [Requests -> BOOLEAN] /\ GapsKnown
      /\ tracker \in [Urls -> Trackers] /\ \A u \in Urls : Honest(tracker[u])
      /\ cursor \in [DOMAIN table -> Nat]
  BY AtStart
<1>2. q.refused = None
  BY <1>1 DEF Shape, Choosing, Given
<1>3. Shape(n, lost, config, applying)
  <2>1. \A u \in n.probes : MayOwn(n, u, lost)
    BY <1>1 DEF Shape, MayOwn
  <2>2. n.refused # None => (n.retries = 0 => n.picked = None)
    BY <1>1, <1>2 DEF Shape
  <2>3. QED
    BY <2>1, <2>2 DEF Shape, Given, Choosing
<1>4. /\ tracker' \in [Urls -> Trackers]
      /\ \A u \in Urls : /\ Honest(tracker'[u])
                         /\ tracker'[u].state = "open" => tracker[u].state = "open"
  BY <1>1, AbortedProbe
<1>5. Owned(r, n)
  <2>1. SUFFICES ASSUME ~applying, config.cb, NEW u \in Urls, tracker'[u].sent, u \notin n.probes
                 PROVE  tracker[u].sent /\ u \notin q.probes
    BY DEF Owned
  <2>2. CASE q.pc \notin {"allowed", "limited"}
    BY <2>1, <2>2
  <2>3. CASE q.pc \in {"allowed", "limited"}
    <3>1. tracker[u].sent
      BY <2>1, <2>3, AbortedProbe
    <3>2. q.target # None /\ (q.target.stale => q.probes = {}) /\ (~q.target.stale => q.cfg.cb)
      BY <1>1, <2>1, <2>3 DEF Shape, Given
    <3>3. ~q.target.stale => u # q.target.url
      BY <2>1, <2>3, <3>2, AbortedProbe
    <3>4. QED
      BY <2>1, <2>3, <3>1, <3>2, <3>3
  <2>4. QED
    BY <2>2, <2>3
<1>6. n.refused = "404" => gap'[r]
  BY <1>1 DEF GapsKnown
<1>7. QED
  BY <1>1, <1>3, <1>4, <1>5, <1>6 DEF Keeps, Choosing, Given

\* The request as it ends, without refusal and with one.
LEMMA OverFields ==
  ASSUME IInv, NEW r \in Requests, NEW status, NEW error, NEW n, n = Over(r, status, error)
  PROVE  /\ n \in Reqs /\ n.pc = "logging" /\ n.target = None /\ n.picked = req[r].picked
         /\ n.retries = req[r].retries /\ n.refused = req[r].refused /\ n.probes = req[r].probes
<1>1. req[r] \in Reqs
  BY AtStart
<1>2. should_record_target_error(status, error) \in BOOLEAN
  BY DEF should_record_target_error
<1>3. QED
  BY <1>1, <1>2 DEF Over, Reqs, Pcs

LEMMA RefusedFields ==
  ASSUME IInv, NEW r \in Requests, NEW code \in {"404", "429", "503"}, NEW n, n = Refused(r, code)
  PROVE  /\ n \in Reqs /\ n.pc = "logging" /\ n.target = None /\ n.picked = req[r].picked
         /\ n.retries = req[r].retries /\ n.refused = code /\ n.probes = req[r].probes
<1> DEFINE o == Over(r, 0, code)
<1>1. /\ o \in Reqs /\ o.pc = "logging" /\ o.target = None /\ o.picked = req[r].picked
      /\ o.retries = req[r].retries /\ o.refused = req[r].refused /\ o.probes = req[r].probes
  BY OverFields
<1>2. n = [o EXCEPT !.refused = code]
  BY DEF Refused
<1> HIDE DEF o
<1>3. QED
  BY <1>1, <1>2 DEF Reqs

\* A request without target, one whose address is not found, one answered.
LEMMA EndsKeep ==
  ASSUME IInv, NEW r \in Requests, NoTarget(r) \/ ResolveFails(r) \/ Respond(r)
  PROVE  \E n : Keeps(r, n)
<1>1. CASE NoTarget(r)
  <2> DEFINE code == IF table # << >> THEN "503" ELSE "404"
             n == Refused(r, code)
  <2>1. req' = [req EXCEPT ![r] = n] /\ req[r].pc = "unmatched"
    BY <1>1, Zenon DEF NoTarget, Step
  <2>2. code \in {"404", "429", "503"} /\ (code = "404" => table = << >>)
    OBVIOUS
  <2>3. UNCHANGED <<config, applying, table, cursor, active, gauge, lost, gap>> /\ tracker' = tracker
    BY <1>1 DEF NoTarget
  <2> HIDE DEF code
  <2>4. /\ n \in Reqs /\ n.pc = "logging" /\ n.target = None /\ n.picked = req[r].picked
        /\ n.retries = req[r].retries /\ n.refused = code /\ n.probes = req[r].probes
    BY <2>2, RefusedFields
  <2> HIDE DEF n
  <2>5. req[r].pc \in Choosing /\ req[r].pc \notin {"allowed", "limited"}
    BY <2>1 DEF Choosing
  <2>6. n.refused = "404" => req[r].pc = "unmatched" /\ table = << >>
    BY <2>1, <2>2, <2>4
  <2>7. Keeps(r, n)
    BY <2>1, <2>3, <2>4, <2>5, <2>6, EndKeeps
  <2>8. QED
    BY <2>7
<1>2. CASE ResolveFails(r) \/ Respond(r)
  <2>1. PICK s, e : Step(r, "picked", Over(r, s, e))
    BY <1>2, Zenon DEF ResolveFails, Respond
  <2> DEFINE n == Over(r, s, e)
  <2>2. req' = [req EXCEPT ![r] = n] /\ req[r].pc = "picked"
    BY <2>1, Zenon DEF Step
  <2>3. UNCHANGED <<config, applying, table, cursor, active, gauge, lost, gap>> /\ tracker' = tracker
    BY <1>2 DEF ResolveFails, Respond
  <2>4. /\ n \in Reqs /\ n.pc = "logging" /\ n.target = None /\ n.picked = req[r].picked
        /\ n.retries = req[r].retries /\ n.refused = req[r].refused /\ n.probes = req[r].probes
    BY OverFields
  <2> HIDE DEF n
  <2>5. req[r].pc \notin {"allowed", "limited"}
    BY <2>2
  <2>6. n.refused # "404"
    <3>1. Shape(req[r], lost, config, applying)
      BY AtStart
    <3>2. n.refused = None
      BY <2>2, <2>4, <3>1 DEF Shape
    <3>3. QED
      BY <3>2, RequestAssumption
  <2>7. Keeps(r, n)
    BY <2>2, <2>3, <2>4, <2>5, <2>6, EndKeeps
  <2>8. QED
    BY <2>7
<1>3. QED
  BY <1>1, <1>2

\* The limits: a request goes on, or is refused and its probe given back.
LEMMA LimitsKeep ==
  ASSUME IInv, NEW r \in Requests, RateLimit(r) \/ (Slot(r) /\ Full(r))
  PROVE  \E n : Keeps(r, n)
<1>1. /\ req[r].pc \in {"allowed", "limited"}
      /\ UNCHANGED <<config, applying, table, cursor, active, gauge, lost, gap>>
  BY DEF RateLimit, Slot, Step
<1>2. CASE /\ Step(r, "allowed", [req[r] EXCEPT !.pc = "limited"])
           /\ UNCHANGED tracker
  <2> DEFINE q == req[r]
             n == [req[r] EXCEPT !.pc = "limited"]
  <2>1. req' = [req EXCEPT ![r] = n] /\ q.pc = "allowed"
    BY <1>2, Zenon DEF Step
  <2>2. /\ Types /\ q \in Reqs /\ Shape(q, lost, config, applying)
        /\ gap \in [Requests -> BOOLEAN] /\ cursor \in [DOMAIN table -> Nat]
        /\ tracker \in [Urls -> Trackers] /\ \A u \in Urls : Honest(tracker[u])
    BY AtStart
  <2>3. /\ n \in Reqs /\ n.pc = "limited" /\ n.cfg = q.cfg /\ n.target = q.target
        /\ n.want = q.want /\ n.picked = q.picked /\ n.refused = q.refused
        /\ n.retries = q.retries /\ n.probes = q.probes
    BY <2>2 DEF Reqs, Pcs
  <2> HIDE DEF n, q
  <2>4. Shape(n, lost, config, applying) /\ n.refused # "404"
    BY <2>1, <2>2, <2>3, RequestAssumption DEF Shape, MayOwn, Given, Choosing
  <2>5. Owned(r, n)
    BY <1>2, <2>3 DEF Owned, q
  <2>6. Keeps(r, n)
    BY <1>1, <1>2, <2>1, <2>2, <2>3, <2>4, <2>5 DEF Keeps, Choosing, Given, q
  <2>7. QED
    BY <2>6
<1>3. ASSUME NEW code \in {"429", "503"}, req[r].pc \in {"allowed", "limited"},
             req' = [req EXCEPT ![r] = [Refused(r, code) EXCEPT !.probes = @ \ {req[r].target.url}]],
             tracker' = Aborted(r)
      PROVE  \E n : Keeps(r, n)
  <2> DEFINE n == [Refused(r, code) EXCEPT !.probes = @ \ {req[r].target.url}]
  <2>1. req' = [req EXCEPT ![r] = n]
    BY <1>3
  <2> HIDE DEF n
  <2>2. /\ n \in Reqs /\ n.pc = "logging" /\ n.target = None /\ n.picked = req[r].picked
        /\ n.retries = req[r].retries /\ n.refused = code
        /\ n.probes = req[r].probes \ {req[r].target.url}
    <3> DEFINE o == Refused(r, code)
    <3>1. /\ o \in Reqs /\ o.pc = "logging" /\ o.target = None /\ o.picked = req[r].picked
          /\ o.retries = req[r].retries /\ o.refused = code /\ o.probes = req[r].probes
      BY RefusedFields
    <3> HIDE DEF o
    <3>2. n = [o EXCEPT !.probes = @ \ {req[r].target.url}]
      BY DEF n, o
    <3>3. QED
      BY <3>1, <3>2 DEF Reqs
  <2>3. req[r].pc \in Choosing /\ n.refused # "404"
    BY <1>3, <2>2 DEF Choosing, Given
  <2>4. Keeps(r, n)
    BY <1>1, <1>3, <2>1, <2>2, <2>3, EndKeeps
  <2>5. QED
    BY <2>4
<1>4. \/ /\ Step(r, "allowed", [req[r] EXCEPT !.pc = "limited"])
         /\ UNCHANGED tracker
      \/ /\ Step(r, "allowed", [Refused(r, "429") EXCEPT !.probes = @ \ {req[r].target.url}])
         /\ tracker' = Aborted(r)
      \/ /\ Step(r, "limited", [Refused(r, "503") EXCEPT !.probes = @ \ {req[r].target.url}])
         /\ tracker' = Aborted(r)
  BY Zenon DEF RateLimit, Slot
<1>5. CASE /\ Step(r, "allowed", [Refused(r, "429") EXCEPT !.probes = @ \ {req[r].target.url}])
           /\ tracker' = Aborted(r)
  BY <1>1, <1>3, <1>5, Zenon DEF Step
<1>6. CASE /\ Step(r, "limited", [Refused(r, "503") EXCEPT !.probes = @ \ {req[r].target.url}])
           /\ tracker' = Aborted(r)
  BY <1>1, <1>3, <1>6, Zenon DEF Step
<1>7. QED
  BY <1>2, <1>4, <1>5, <1>6

\* A request is let in to a target.
LEMMA TakeKeeps ==
  ASSUME IInv, NEW r \in Requests, NEW x \in HeldTargets,
         req[r].pc = "chosen", req[r].cfg.cb, x.needs \subseteq req[r].want,
         x.stale => req[r].probes = {},
         req' = [req EXCEPT ![r] = [req[r] EXCEPT !.pc = "allowed", !.target = x,
             !.probes = IF x.stale \/ Tracker(x).state = "closed" THEN @ ELSE @ \cup {x.url}]],
         tracker' = With(x, allow_request(Tracker(x))),
         UNCHANGED <<config, applying, table, cursor, active, gauge, lost, gap>>
  PROVE  \E n : Keeps(r, n)
<1> DEFINE q == req[r]
           counts == ~(x.stale \/ Tracker(x).state = "closed")
           n == [req[r] EXCEPT !.pc = "allowed", !.target = x,
                    !.probes = IF x.stale \/ Tracker(x).state = "closed" THEN @ ELSE @ \cup {x.url}]
           b == allow_request(Tracker(x))
<1>1. /\ Types /\ q \in Reqs /\ Shape(q, lost, config, applying)
      /\ gap \in [Requests -> BOOLEAN] /\ cursor \in [DOMAIN table -> Nat]
      /\ tracker \in [Urls -> Trackers] /\ \A u \in Urls : Honest(tracker[u])
  BY AtStart
<1>2. x.url \in Urls /\ x.stale \in BOOLEAN /\ x # None
  BY RequestAssumption DEF HeldTargets
<1>3. Tracker(x) = tracker[x.url] /\ Tracker(x) \in Trackers /\ Honest(Tracker(x))
  BY <1>1, <1>2 DEF Tracker
<1>4. /\ b \in Trackers /\ Honest(b) /\ (b.state = "open" => Tracker(x).state = "open")
      /\ Tracker(x).state = "closed" => b = Tracker(x)
  BY <1>3, BreakerCalls
<1>5. req' = [req EXCEPT ![r] = n] /\ tracker' = With(x, b)
  OBVIOUS
<1> HIDE DEF b
<1>6. /\ tracker' \in [Urls -> Trackers]
      /\ \A u \in Urls : /\ Honest(tracker'[u])
                         /\ tracker'[u] = IF ~x.stale /\ u = x.url THEN b ELSE tracker[u]
  BY <1>1, <1>4, <1>5, BreakerReached
<1>7. /\ n \in Reqs /\ n.pc = "allowed" /\ n.cfg = q.cfg /\ n.target = x
      /\ n.want = q.want /\ n.picked = q.picked /\ n.refused = q.refused /\ n.retries = q.retries
      /\ n.probes = IF counts THEN q.probes \cup {x.url} ELSE q.probes
  BY <1>1, <1>2 DEF Reqs, Pcs
<1>8. counts => ~x.stale
  OBVIOUS
<1> HIDE DEF n
<1>9. Shape(n, lost, config, applying) /\ n.refused # "404"
  <2> HIDE DEF counts
  <2>1. \A u \in n.probes : MayOwn(n, u, lost)
    BY <1>1, <1>7, <1>8 DEF Shape, MayOwn
  <2>2. n.target.stale => n.probes = {}
    BY <1>7, <1>8
  <2>3. n.refused = None /\ n.cfg \in Configs /\ (n.retries = 0 => n.picked = None)
    BY <1>1, <1>7 DEF Shape, Given, Choosing
  <2>4. QED
    BY <1>2, <1>7, <2>1, <2>2, <2>3, RequestAssumption DEF Shape, Given
<1>10. Owned(r, n)
  <2>1. CASE counts
    BY <1>6, <1>7, <2>1 DEF Owned
  <2>2. CASE ~counts
    <3>1. \A u \in Urls : tracker'[u] = tracker[u]
      BY <1>3, <1>4, <1>6, <2>2
    <3>2. QED
      BY <1>7, <2>2, <3>1 DEF Owned
  <2>3. QED
    BY <2>1, <2>2
<1>11. \A u \in Urls : tracker'[u].state = "open" => tracker[u].state = "open"
  BY <1>3, <1>4, <1>6
<1> HIDE DEF counts
<1>12. Keeps(r, n)
  BY <1>1, <1>5, <1>6, <1>7, <1>9, <1>10, <1>11 DEF Keeps, Choosing, Given
<1>13. QED
  BY <1>12

\* The inline fallback finds targets that fit.
LEMMA FallbackFits ==
  ASSUME Types, NEW r \in Requests, NEW late, NEW p \in Fallbacks(r, late)
  PROVE  /\ Held(At(p)) \in HeldTargets /\ ~Held(At(p)).stale
         /\ Held(At(p)).needs \subseteq req[r].want
<1>1. p \in Places /\ Fits(table[p[1]], At(p), req[r].want)
  BY DEF Fallbacks
<1>2. PICK i \in DOMAIN table : \E j \in DOMAIN table[i].targets : p = <<i, j>>
  BY <1>1 DEF Places
<1>3. PICK j \in DOMAIN table[i].targets : p = <<i, j>>
  BY <1>2
<1>4. At(p) = table[i].targets[j] /\ Fits(table[i], At(p), req[r].want)
  BY <1>1, <1>3 DEF At
<1>5. IsRoute(table[i])
  <2>1. table \in Tables
    BY DEF Types
  <2>2. table[i] \in Range(table)
    BY DEF Range
  <2>3. QED
    BY <2>1, <2>2, RequestAssumption
<1>6. At(p) \in Range(table[i].targets)
  BY <1>4 DEF Range
<1>7. At(p) \in Targets
  BY <1>4, <1>5 DEF IsRoute
<1>8. At(p).needs \subseteq req[r].want
  BY <1>4, <1>5, <1>6, FitsMeansMatches DEF matches_headers
<1>9. QED
  BY <1>7, <1>8 DEF Targets, HeldTargets, Held

LEMMA AllowKeeps ==
  ASSUME IInv, NEW r \in Requests, NEW late, Allow(r, late)
  PROVE  \E n : Keeps(r, n)
<1> DEFINE q == req[r]
           t == req[r].target
           Takes(x) ==
              /\ req' = [req EXCEPT ![r] = [req[r] EXCEPT !.pc = "allowed", !.target = x,
                    !.probes = IF x.stale \/ Tracker(x).state = "closed" THEN @ ELSE @ \cup {x.url}]]
              /\ tracker' = With(x, allow_request(Tracker(x)))
<1>1. /\ Types /\ q \in Reqs /\ Shape(q, lost, config, applying)
      /\ gap \in [Requests -> BOOLEAN] /\ cursor \in [DOMAIN table -> Nat]
      /\ tracker \in [Urls -> Trackers] /\ \A u \in Urls : Honest(tracker[u])
  BY AtStart
<1>2. q.pc = "chosen" /\ UNCHANGED <<config, applying, table, cursor, active, gauge, lost, gap>>
  BY DEF Allow
<1>3. /\ t \in HeldTargets /\ t.needs \subseteq q.want /\ (t.stale => q.probes = {})
  <2>1. t # None /\ t \in HeldTargets \cup {None}
    BY <1>1, <1>2 DEF Shape, Given, Reqs
  <2>2. QED
    BY <1>1, <2>1 DEF Shape
<1>4. \/ ~q.cfg.cb /\ Step(r, "chosen", [req[r] EXCEPT !.pc = "allowed"]) /\ UNCHANGED tracker
      \/ q.cfg.cb /\ Takes(t)
      \/ q.cfg.cb /\ \E p \in Fallbacks(r, late) : Takes(Held(At(p)))
      \/ Step(r, "chosen", Refused(r, "503")) /\ UNCHANGED tracker
  BY Zenon DEF Allow, Step
<1>5. CASE ~q.cfg.cb /\ Step(r, "chosen", [req[r] EXCEPT !.pc = "allowed"]) /\ UNCHANGED tracker
  <2> DEFINE n == [req[r] EXCEPT !.pc = "allowed"]
  <2>1. req' = [req EXCEPT ![r] = n]
    BY <1>5, Zenon DEF Step
  <2>2. /\ n \in Reqs /\ n.pc = "allowed" /\ n.cfg = q.cfg /\ n.target = q.target
        /\ n.want = q.want /\ n.picked = q.picked /\ n.refused = q.refused
        /\ n.retries = q.retries /\ n.probes = q.probes
    BY <1>1 DEF Reqs, Pcs
  <2> HIDE DEF n
  <2>3. Shape(n, lost, config, applying) /\ n.refused # "404"
    BY <1>1, <1>2, <2>2, RequestAssumption DEF Shape, MayOwn, Given, Choosing
  <2>4. Owned(r, n)
    BY <1>5, <2>2 DEF Owned
  <2>5. Keeps(r, n)
    BY <1>1, <1>2, <1>5, <2>1, <2>2, <2>3, <2>4 DEF Keeps, Choosing, Given
  <2>6. QED
    BY <2>5
<1>6. CASE q.cfg.cb /\ Takes(t)
  BY <1>2, <1>3, <1>6, TakeKeeps
<1>7. CASE q.cfg.cb /\ \E p \in Fallbacks(r, late) : Takes(Held(At(p)))
  <2>1. PICK p \in Fallbacks(r, late) : Takes(Held(At(p)))
    BY <1>7
  <2> DEFINE x == Held(At(p))
  <2>2. x \in HeldTargets /\ ~x.stale /\ x.needs \subseteq q.want
    BY <1>1, <2>1, FallbackFits
  <2>3. Takes(x)
    BY <2>1
  <2> HIDE DEF x
  <2>4. QED
    BY <1>2, <1>7, <2>2, <2>3, TakeKeeps
<1>8. CASE Step(r, "chosen", Refused(r, "503")) /\ UNCHANGED tracker
  <2> DEFINE n == Refused(r, "503")
  <2>1. req' = [req EXCEPT ![r] = n]
    BY <1>8, Zenon DEF Step
  <2>2. /\ n \in Reqs /\ n.pc = "logging" /\ n.target = None /\ n.picked = req[r].picked
        /\ n.retries = req[r].retries /\ n.refused = "503" /\ n.probes = req[r].probes
    BY RefusedFields
  <2> HIDE DEF n
  <2>3. req[r].pc \in Choosing /\ req[r].pc \notin {"allowed", "limited"} /\ n.refused # "404"
    BY <1>2, <2>2 DEF Choosing, Given
  <2>4. Keeps(r, n)
    BY <1>2, <1>8, <2>1, <2>2, <2>3, EndKeeps
  <2>5. QED
    BY <2>4
<1>9. QED
  BY <1>4, <1>5, <1>6, <1>7, <1>8

LEMMA RetryKeeps ==
  ASSUME IInv, NEW r \in Requests, Retry(r)
  PROVE  \E n : Keeps(r, n)
<1> DEFINE q == req[r]
           n == [req[r] EXCEPT !.pc = "select", !.retries = @ + 1]
<1>1. /\ Types /\ q \in Reqs /\ Shape(q, lost, config, applying)
      /\ gap \in [Requests -> BOOLEAN] /\ cursor \in [DOMAIN table -> Nat]
      /\ tracker \in [Urls -> Trackers] /\ \A u \in Urls : Honest(tracker[u])
  BY AtStart
<1>2. /\ q.pc = "picked" /\ q.retries = 0
      /\ \A u \in Urls : lost[u] < MaxLost
      /\ \A o \in Requests : req[o].retries = 0
      /\ gap' = [gap EXCEPT ![r] = (table = << >>)]
      /\ UNCHANGED <<config, applying, table, cursor, tracker, active, gauge, lost>>
  BY DEF Retry
<1>3. req' = [req EXCEPT ![r] = n]
  BY Zenon DEF Retry, Step
<1>4. /\ n \in Reqs /\ n.pc = "select" /\ n.cfg = q.cfg /\ n.target = q.target
      /\ n.want = q.want /\ n.picked = q.picked /\ n.refused = q.refused
      /\ n.retries = 1 /\ n.probes = q.probes
  <2>1. n = [q EXCEPT !.pc = "select", !.retries = 1]
    BY <1>2
  <2> HIDE DEF n, q
  <2>2. QED
    BY <1>1, <2>1 DEF Reqs, Pcs
<1> HIDE DEF n
<1>5. Shape(n, lost, config, applying) /\ n.refused # "404"
  BY <1>1, <1>2, <1>4, RequestAssumption DEF Shape, MayOwn, Given, Choosing
<1>6. Owned(r, n)
  BY <1>2, <1>4 DEF Owned
<1>7. /\ gap' \in [Requests -> BOOLEAN] /\ \A o \in Requests : o # r => gap'[o] = gap[o]
      /\ table = << >> => gap'[r]
  BY <1>1, <1>2
<1>8. Keeps(r, n)
  BY <1>1, <1>2, <1>3, <1>4, <1>5, <1>6, <1>7 DEF Keeps
<1>9. QED
  BY <1>8

----------------------------------------------------------------------------
(***************************************************************************)
(* The steps that take or return something: arrival, the slot, the log.    *)
(***************************************************************************)

LEMMA RunningFinite ==
  /\ IsFiniteSet(Running) /\ Cardinality(Running) \in Nat
  /\ \A u : IsFiniteSet(Holding(u)) /\ Cardinality(Holding(u)) \in Nat
<1>1. IsFiniteSet(Running)
  BY RequestAssumption, FS_Subset DEF Running
<1>2. \A u : IsFiniteSet(Holding(u))
  BY <1>1, FS_Subset DEF Holding
<1>3. QED
  BY <1>1, <1>2, FS_CardinalityType

\* The parts of the invariant that need no more than the request's own fields.
LEMMA OthersKept ==
  ASSUME IInv, NEW r \in Requests, NEW n \in Reqs, req' = [req EXCEPT ![r] = n],
         UNCHANGED <<config, applying, table>>, lost' \in [Urls -> 0 .. MaxLost],
         \A u \in Urls : lost'[u] >= lost[u],
         lost' = lost \/ req[r].retries # 0,
         Shape(n, lost', config, applying), n.pc \in Choosing => n.picked = None,
         n.retries = req[r].retries \/ n.retries = 0,
         gap' \in [Requests -> BOOLEAN], \A o \in Requests : o # r => gap'[o] = gap[o],
         n.refused = "404" => gap'[r],
         n.pc \in {"select", "unmatched"} /\ table = << >> => gap'[r]
  PROVE  Shapes' /\ OneRetry' /\ GapsKnown' /\ StatusTellsWhy'
<1>1. /\ Types /\ Shapes /\ OneRetry /\ GapsKnown /\ StatusTellsWhy
      /\ req \in [Requests -> Reqs] /\ lost \in [Urls -> 0 .. MaxLost]
  BY DEF IInv, Types
<1>2. req'[r] = n /\ \A o \in Requests : o # r => req'[o] = req[o]
  BY <1>1
<1>3. Shapes'
  <2>1. ASSUME NEW o \in Requests PROVE Shape(req'[o], lost', config, applying)
    <3>1. CASE o = r
      BY <1>2, <3>1
    <3>2. CASE o # r
      <4>1. Shape(req[o], lost, config, applying) /\ req'[o] = req[o] /\ req[o].probes \subseteq Urls
        BY <1>1, <1>2, <3>2 DEF Shapes, Reqs
      <4>2. ASSUME NEW u \in req[o].probes PROVE MayOwn(req[o], u, lost')
        <5>1. MayOwn(req[o], u, lost) /\ u \in Urls
          BY <4>1 DEF Shape
        <5>2. lost[u] > 0 => lost'[u] > 0
          BY <1>1, <5>1
        <5>3. QED
          BY <5>1, <5>2 DEF MayOwn
      <4>3. QED
        BY <4>1, <4>2 DEF Shape
    <3>3. QED
      BY <3>1, <3>2
  <2>2. QED
    BY <2>1 DEF Shapes, Shape, MayOwn
<1>4. OneRetry'
  <2>1. ASSUME NEW o \in Requests, NEW p \in Requests, o # p
        PROVE  req'[o].retries = 0 \/ req'[p].retries = 0
    BY <1>1, <1>2, <2>1 DEF OneRetry
  <2>2. ASSUME NEW o \in Requests, req'[o].picked # None, req'[o].pc \in Choosing
        PROVE  \A u \in Urls : lost'[u] < MaxLost
    <3>1. o # r /\ req'[o] = req[o] /\ Shape(req[o], lost, config, applying)
      BY <1>1, <1>2, <2>2 DEF Shapes
    <3>2. req[o].retries # 0
      BY <2>2, <3>1 DEF Shape
    <3>3. lost' = lost
      BY <1>1, <3>1, <3>2 DEF OneRetry
    <3>4. QED
      BY <1>1, <2>2, <3>1, <3>3 DEF OneRetry
  <2>3. QED
    BY <2>1, <2>2 DEF OneRetry
<1>5. GapsKnown' /\ StatusTellsWhy'
  BY <1>1, <1>2 DEF GapsKnown, StatusTellsWhy
<1>6. QED
  BY <1>3, <1>4, <1>5

LEMMA ArriveInv ==
  ASSUME IInv, NEW r \in Requests, Arrive(r)
  PROVE  IInv'
<1>1. PICK n : /\ req' = [req EXCEPT ![r] = n] /\ req[r].pc = "idle"
               /\ \/ \E want \in SUBSET Headers : n = [Idle EXCEPT !.pc = "select", !.want = want]
                  \/ n = [Idle EXCEPT !.pc = "logging"]
  BY Zenon DEF Arrive, Step
<1>2. /\ n \in Reqs /\ n.pc \in {"select", "logging"} /\ n.target = None /\ n.picked = None
      /\ n.refused = None /\ n.retries = 0 /\ n.probes = {}
  BY <1>1 DEF Idle, Reqs, Pcs
<1>3. /\ gauge' = gauge + 1 /\ gap' = [gap EXCEPT ![r] = (table = << >>)]
      /\ config' = config /\ applying' = applying /\ table' = table /\ cursor' = cursor
      /\ tracker' = tracker /\ active' = active /\ lost' = lost
  BY DEF Arrive
<1>4. /\ Types /\ SlotsAccounted /\ ProbesHaveOwners /\ req \in [Requests -> Reqs]
      /\ lost \in [Urls -> 0 .. MaxLost] /\ gap \in [Requests -> BOOLEAN] /\ gauge \in Nat
  BY DEF IInv, Types
<1>5. req'[r] = n /\ \A o \in Requests : o # r => req'[o] = req[o]
  BY <1>1, <1>4
<1>6. /\ gap' \in [Requests -> BOOLEAN] /\ \A o \in Requests : o # r => gap'[o] = gap[o]
      /\ table = << >> => gap'[r]
  BY <1>3, <1>4
<1>7. Types'
  <2>1. req' \in [Requests -> Reqs]
    BY <1>1, <1>2, <1>4
  <2>2. gauge' \in Nat
    BY <1>3, <1>4
  <2>3. QED
    BY <1>3, <1>4, <1>6, <2>1, <2>2 DEF Types
<1>8. Shapes' /\ OneRetry' /\ GapsKnown' /\ StatusTellsWhy'
  <2>1. Shape(n, lost', config, applying) /\ n.refused # "404"
    BY <1>2, RequestAssumption DEF Shape, Given, Choosing
  <2>2. \A u \in Urls : lost'[u] >= lost[u]
    BY <1>3, <1>4
  <2>3. QED
    BY <1>1, <1>2, <1>3, <1>4, <1>6, <2>1, <2>2, OthersKept
<1>9. SlotsAccounted'
  <2>1. r \notin Running /\ Running' = Running \cup {r}
    BY <1>1, <1>2, <1>5 DEF Running
  <2>2. Cardinality(Running') = Cardinality(Running) + 1
    BY <2>1, RunningFinite, FS_AddElement
  <2>3. \A u \in Urls : Holding(u)' = Holding(u)
    <3>1. Running \subseteq Requests
      BY DEF Running
    <3>2. QED
      BY <1>1, <1>2, <1>5, <2>1, <3>1 DEF Holding
  <2>4. QED
    BY <1>3, <1>4, <2>2, <2>3 DEF SlotsAccounted, Holding
<1>10. ProbesHaveOwners'
  <2>1. SUFFICES ASSUME ~applying, config.cb, NEW u \in Urls, tracker[u].sent, ~(lost[u] > 0)
                 PROVE  \E o \in Requests : req'[o].pc # "idle" /\ u \in req'[o].probes
    BY <1>3 DEF ProbesHaveOwners, Running
  <2>2. PICK o \in Requests : req[o].pc # "idle" /\ u \in req[o].probes
    BY <1>4, <2>1 DEF ProbesHaveOwners, Running
  <2>3. QED
    BY <1>1, <1>5, <2>2
<1>11. QED
  BY <1>7, <1>8, <1>9, <1>10 DEF IInv

\* A request takes a slot; the slot of an overwritten pick is lost.
LEMMA SlotInv ==
  ASSUME IInv, NEW r \in Requests, Slot(r), ~Full(r)
  PROVE  IInv'
<1> DEFINE q == req[r]
           v == req[r].target.url
           n == Picked(r)
<1>1. req' = [req EXCEPT ![r] = n] /\ q.pc = "limited"
  BY Zenon DEF Slot, Step
<1>2. /\ active' = [active EXCEPT ![v] = @ + 1]
      /\ lost' = IF q.picked = None THEN lost ELSE [lost EXCEPT ![q.picked.url] = @ + 1]
      /\ gauge' = gauge /\ gap' = gap /\ config' = config /\ applying' = applying
      /\ table' = table /\ cursor' = cursor /\ tracker' = tracker
  BY DEF Slot
<1>3. /\ Types /\ Shapes /\ OneRetry /\ SlotsAccounted /\ ProbesHaveOwners /\ req \in [Requests -> Reqs]
      /\ q \in Reqs /\ Shape(q, lost, config, applying) /\ active \in [Urls -> Nat]
      /\ lost \in [Urls -> 0 .. MaxLost] /\ gap \in [Requests -> BOOLEAN] /\ gauge \in Nat
      /\ MaxLost \in Nat
  BY RequestAssumption DEF IInv, Types, Shapes
<1>4. /\ q.target # None /\ q.target \in HeldTargets /\ v \in Urls
      /\ q.picked # None => q.picked \in HeldTargets /\ q.picked.url \in Urls
      /\ q.refused = None /\ (q.picked # None => q.retries # 0)
  <2>1. /\ q.target # None /\ q.refused = None /\ (q.picked # None => q.retries # 0)
    BY <1>1, <1>3 DEF Shape, Given, Choosing
  <2>2. q.target \in HeldTargets \cup {None} /\ q.picked \in HeldTargets \cup {None}
    BY <1>3 DEF Reqs
  <2>3. QED
    BY <2>1, <2>2 DEF HeldTargets
<1>5. /\ n \in Reqs /\ n.pc = "picked" /\ n.target = None /\ n.picked = q.target
      /\ n.refused = q.refused /\ n.retries = q.retries /\ n.probes = q.probes
  BY <1>3, <1>4 DEF Picked, Reqs, Pcs
<1> HIDE DEF n, q
<1>6. req'[r] = n /\ \A o \in Requests : o # r => req'[o] = req[o]
  BY <1>1, <1>3
<1>7. /\ lost' \in [Urls -> 0 .. MaxLost] /\ \A u \in Urls : lost'[u] >= lost[u]
      /\ q.picked # None => lost'[q.picked.url] > 0
      /\ lost' = lost \/ q.retries # 0
  <2>1. CASE q.picked = None
    <3>1. lost' = lost
      BY <1>2, <2>1
    <3>2. QED
      BY <1>3, <2>1, <3>1
  <2>2. CASE q.picked # None
    <3>1. lost' = [lost EXCEPT ![q.picked.url] = @ + 1] /\ q.picked.url \in Urls
      BY <1>2, <1>4, <2>2
    <3>2. lost[q.picked.url] < MaxLost
      BY <1>1, <1>3, <2>2, <3>1 DEF OneRetry, Choosing, Given, q
    <3>3. QED
      BY <1>3, <1>4, <2>2, <3>1, <3>2
  <2>3. QED
    BY <2>1, <2>2
<1>8. Types'
  <2>1. req' \in [Requests -> Reqs]
    BY <1>1, <1>3, <1>5
  <2>2. active' \in [Urls -> Nat]
    BY <1>2, <1>3, <1>4
  <2>3. QED
    BY <1>2, <1>3, <1>7, <2>1, <2>2 DEF Types
<1>9. Shapes' /\ OneRetry' /\ GapsKnown' /\ StatusTellsWhy'
  <2>1. ASSUME NEW u \in n.probes PROVE MayOwn(n, u, lost')
    <3>1. MayOwn(q, u, lost) /\ u \in Urls
      BY <1>3, <1>5 DEF Shape, Reqs
    <3>2. CASE lost[u] > 0
      BY <1>3, <1>7, <3>1, <3>2 DEF MayOwn
    <3>3. CASE q.picked # None /\ q.picked.url = u
      BY <1>7, <3>3 DEF MayOwn
    <3>4. CASE ~q.target.stale /\ q.target.url = u
      BY <1>4, <1>5, <3>4 DEF MayOwn
    <3>5. QED
      BY <3>1, <3>2, <3>3, <3>4 DEF MayOwn
  <2>2. Shape(n, lost', config, applying) /\ n.refused # "404"
    BY <1>4, <1>5, <2>1, RequestAssumption DEF Shape, Given, Choosing
  <2>3. n.pc \notin Choosing /\ n.pc \notin {"select", "unmatched"}
    BY <1>5 DEF Choosing, Given
  <2>4. QED
    BY <1>1, <1>2, <1>3, <1>5, <1>7, <2>2, <2>3, OthersKept DEF q
<1>10. SlotsAccounted'
  <2>1. r \in Running /\ Running' = Running /\ Running \subseteq Requests
    BY <1>1, <1>5, <1>6 DEF Running, q
  <2>2. ASSUME NEW u \in Urls
        PROVE  active'[u] = lost'[u] + Cardinality(Holding(u)')
    <3> DEFINE H == Holding(u)
               c == Cardinality(H)
               had == q.picked # None /\ q.picked.url = u
    <3>1. active[u] = lost[u] + c /\ IsFiniteSet(H) /\ c \in Nat /\ lost[u] \in Nat /\ active[u] \in Nat
      <4>1. active[u] = lost[u] + c
        BY <1>3 DEF SlotsAccounted, Holding
      <4>2. IsFiniteSet(H) /\ c \in Nat
        BY RunningFinite
      <4>3. QED
        BY <1>3, <4>1, <4>2
    <3>2. r \in H <=> had
      BY <2>1 DEF Holding, q
    <3>3. Holding(u)' = IF u = v THEN H \cup {r} ELSE H \ {r}
      BY <1>4, <1>5, <1>6, <2>1 DEF Holding, q
    <3>4. /\ active'[u] = IF u = v THEN active[u] + 1 ELSE active[u]
          /\ lost'[u] = IF had THEN lost[u] + 1 ELSE lost[u]
      BY <1>2, <1>3, <1>4
    <3> HIDE DEF H, had
    <3>5. CASE u = v /\ had
      <4>1. Holding(u)' = H
        BY <3>2, <3>3, <3>5
      <4>2. QED
        BY <3>1, <3>4, <3>5, <4>1
    <3>6. CASE u = v /\ ~had
      <4>1. Cardinality(Holding(u)') = c + 1
        BY <3>1, <3>2, <3>3, <3>6, FS_AddElement
      <4> HIDE DEF c
      <4>2. QED
        BY <3>1, <3>4, <3>6, <4>1
    <3>7. CASE u # v /\ had
      <4>1. Cardinality(Holding(u)') = c - 1
        BY <3>1, <3>2, <3>3, <3>7, FS_RemoveElement
      <4> HIDE DEF c
      <4>2. QED
        BY <3>1, <3>4, <3>7, <4>1
    <3>8. CASE u # v /\ ~had
      <4>1. Holding(u)' = H
        BY <3>2, <3>3, <3>8
      <4>2. QED
        BY <3>1, <3>4, <3>8, <4>1
    <3>9. QED
      BY <3>5, <3>6, <3>7, <3>8
  <2>3. QED
    BY <1>2, <1>3, <2>1, <2>2 DEF SlotsAccounted, Holding
<1>11. ProbesHaveOwners'
  <2>1. SUFFICES ASSUME ~applying, config.cb, NEW u \in Urls, tracker[u].sent, ~(lost'[u] > 0)
                 PROVE  \E o \in Requests : req'[o].pc # "idle" /\ u \in req'[o].probes
    BY <1>2 DEF ProbesHaveOwners, Running
  <2>2. ~(lost[u] > 0)
    BY <1>3, <1>7, <2>1
  <2>3. PICK o \in Requests : req[o].pc # "idle" /\ u \in req[o].probes
    BY <1>3, <2>1, <2>2 DEF ProbesHaveOwners, Running
  <2>4. QED
    BY <1>5, <1>6, <2>3 DEF q
<1>12. QED
  BY <1>8, <1>9, <1>10, <1>11 DEF IInv

\* What the log makes of the breakers: no probe is added, that of the pick is over.
LEMMA LoggedBreakers ==
  ASSUME IInv, NEW r \in Requests, Log(r)
  PROVE  /\ tracker' \in [Urls -> Trackers] /\ \A u \in Urls : Honest(tracker'[u])
         /\ \A u \in Urls : tracker'[u].sent => tracker[u].sent
         /\ config.cb /\ req[r].picked # None /\ ~req[r].picked.stale =>
                ~tracker'[req[r].picked.url].sent
         /\ req[r].picked = None => tracker' = tracker
<1> DEFINE t == req[r].picked
<1>1. /\ Types /\ req[r] \in Reqs
      /\ tracker \in [Urls -> Trackers] /\ \A u \in Urls : Honest(tracker[u])
  BY AtStart
<1>2. t = None \/ t \in HeldTargets
  BY <1>1 DEF Reqs
<1>3. CASE t = None
  <2>1. tracker' = tracker
    BY <1>3 DEF Log
  <2>2. QED
    BY <1>1, <1>3, <2>1
<1>4. CASE t # None /\ ~config.cb
  <2>1. tracker' = tracker
    BY <1>4 DEF Log
  <2>2. QED
    BY <1>1, <1>4, <2>1
<1>5. CASE t # None /\ config.cb
  <2>1. PICK b : /\ b \in record_error(Tracker(t)) \/ b = record_success(Tracker(t))
                 /\ tracker' = With(t, b)
    <3>1. \E b \in IF req[r].bad THEN record_error(Tracker(t)) ELSE {record_success(Tracker(t))} :
                tracker' = With(t, b)
      BY <1>5, Zenon DEF Log
    <3>2. QED
      BY <3>1
  <2>2. t \in HeldTargets /\ t.url \in Urls
    BY <1>2, <1>5 DEF HeldTargets
  <2>3. Tracker(t) \in Trackers /\ Honest(Tracker(t))
    BY <1>1, <2>2 DEF Tracker
  <2>4. b \in Trackers /\ ~b.sent /\ Honest(b)
    BY <2>1, <2>3, BreakerCalls DEF Honest
  <2> HIDE DEF t
  <2>5. /\ tracker' \in [Urls -> Trackers]
        /\ \A u \in Urls : /\ Honest(tracker'[u])
                           /\ tracker'[u] = IF ~t.stale /\ u = t.url THEN b ELSE tracker[u]
    BY <1>1, <2>1, <2>2, <2>4, BreakerReached
  <2>6. QED
    BY <1>5, <2>2, <2>4, <2>5 DEF t
<1>6. QED
  BY <1>3, <1>4, <1>5

\* A request is logged and gives back what it holds.
LEMMA LogInv ==
  ASSUME IInv, NEW r \in Requests, Log(r)
  PROVE  IInv'
<1> DEFINE q == req[r]
           n == Idle
<1>1. req' = [req EXCEPT ![r] = n] /\ q.pc = "logging"
  BY Zenon DEF Log, Step
<1>2. /\ gauge' = gauge - 1 /\ gap' = [gap EXCEPT ![r] = FALSE]
      /\ active' = IF q.picked = None THEN active ELSE [active EXCEPT ![q.picked.url] = @ - 1]
      /\ config' = config /\ applying' = applying /\ table' = table /\ cursor' = cursor
      /\ lost' = lost
  BY DEF Log
<1>3. /\ Types /\ Shapes /\ SlotsAccounted /\ ProbesHaveOwners /\ req \in [Requests -> Reqs]
      /\ q \in Reqs /\ Shape(q, lost, config, applying) /\ active \in [Urls -> Nat]
      /\ lost \in [Urls -> 0 .. MaxLost] /\ gap \in [Requests -> BOOLEAN] /\ gauge \in Nat
      /\ MaxLost \in Nat
  BY RequestAssumption DEF IInv, Types, Shapes
<1>4. q.picked # None => q.picked \in HeldTargets /\ q.picked.url \in Urls
  BY <1>3 DEF Reqs, HeldTargets
<1>5. /\ n \in Reqs /\ n.pc = "idle" /\ n.target = None /\ n.picked = None
      /\ n.refused = None /\ n.retries = 0 /\ n.probes = {}
  BY DEF Idle, Reqs, Pcs
<1>6. Shape(n, lost, config, applying) /\ n.refused # "404"
  BY <1>5, RequestAssumption DEF Shape, Given, Choosing
<1> HIDE DEF n, q
<1>7. req'[r] = n /\ \A o \in Requests : o # r => req'[o] = req[o]
  BY <1>1, <1>3
<1>8. r \in Running /\ Running' = Running \ {r} /\ Running \subseteq Requests
  BY <1>1, <1>5, <1>7 DEF Running, q
<1>9. gauge' = Cardinality(Running') /\ gauge' \in Nat
  <2>1. gauge = Cardinality(Running)
    BY <1>3 DEF SlotsAccounted
  <2>2. Cardinality(Running') = Cardinality(Running) - 1 /\ IsFiniteSet(Running')
    BY <1>8, RunningFinite, FS_RemoveElement
  <2>3. Cardinality(Running') \in Nat
    BY <2>2, FS_CardinalityType
  <2>4. QED
    BY <1>2, <2>1, <2>2, <2>3
<1>10. ASSUME NEW u \in Urls
       PROVE  active'[u] = lost'[u] + Cardinality(Holding(u)') /\ active'[u] \in Nat
  <2> DEFINE H == Holding(u)
             c == Cardinality(H)
             had == q.picked # None /\ q.picked.url = u
  <2>1. active[u] = lost[u] + c /\ IsFiniteSet(H) /\ c \in Nat /\ lost[u] \in Nat
    <3>1. active[u] = lost[u] + c
      BY <1>3 DEF SlotsAccounted, Holding
    <3>2. IsFiniteSet(H) /\ c \in Nat
      BY RunningFinite
    <3>3. QED
      BY <1>3, <3>1, <3>2
  <2>2. r \in H <=> had
    BY <1>8 DEF Holding, q
  <2>3. Holding(u)' = H \ {r}
    BY <1>5, <1>7, <1>8 DEF Holding, q
  <2>4. active'[u] = IF had THEN active[u] - 1 ELSE active[u]
    BY <1>2, <1>3, <1>4
  <2> HIDE DEF H, had
  <2>5. CASE had
    <3>1. Cardinality(Holding(u)') = c - 1 /\ IsFiniteSet(Holding(u)')
      BY <2>1, <2>2, <2>3, <2>5, FS_RemoveElement
    <3>2. Cardinality(Holding(u)') \in Nat
      BY <3>1, FS_CardinalityType
    <3> HIDE DEF c
    <3>3. QED
      BY <1>2, <2>1, <2>4, <2>5, <3>1, <3>2
  <2>6. CASE ~had
    <3>1. Holding(u)' = H
      BY <2>2, <2>3, <2>6
    <3>2. QED
      BY <1>2, <2>1, <2>4, <2>6, <3>1
  <2>7. QED
    BY <2>5, <2>6
<1>11. gap' \in [Requests -> BOOLEAN] /\ \A o \in Requests : o # r => gap'[o] = gap[o]
  BY <1>2, <1>3
<1>12. Types'
  <2>1. req' \in [Requests -> Reqs]
    BY <1>1, <1>3, <1>5
  <2>2. active' \in [Urls -> Nat]
    <3>1. DOMAIN active' = Urls /\ active' = [u \in DOMAIN active' |-> active'[u]]
      BY <1>2, <1>3
    <3>2. QED
      BY <1>10, <3>1
  <2>3. tracker' \in [Urls -> Trackers] /\ \A u \in Urls : Honest(tracker'[u])
    BY LoggedBreakers
  <2>4. QED
    BY <1>2, <1>3, <1>9, <1>11, <2>1, <2>2, <2>3 DEF Types, Honest
<1>13. Shapes' /\ OneRetry' /\ GapsKnown' /\ StatusTellsWhy'
  <2>1. \A u \in Urls : lost'[u] >= lost[u]
    BY <1>2, <1>3
  <2>2. n.pc \notin Choosing /\ n.pc \notin {"select", "unmatched"}
    BY <1>5 DEF Choosing, Given
  <2>3. QED
    BY <1>1, <1>2, <1>3, <1>5, <1>6, <1>11, <2>1, <2>2, OthersKept
<1>14. SlotsAccounted'
  BY <1>9, <1>10 DEF SlotsAccounted, Holding
<1>15. ProbesHaveOwners'
  <2>1. SUFFICES ASSUME ~applying, config.cb, NEW u \in Urls, tracker'[u].sent, ~(lost[u] > 0)
                 PROVE  \E o \in Requests : req'[o].pc # "idle" /\ u \in req'[o].probes
    BY <1>2 DEF ProbesHaveOwners, Running
  <2>2. tracker[u].sent
    BY <2>1, LoggedBreakers
  <2>3. PICK o \in Requests : req[o].pc # "idle" /\ u \in req[o].probes
    BY <1>3, <2>1, <2>2 DEF ProbesHaveOwners, Running
  <2>4. o # r
    <3>1. SUFFICES ASSUME u \in q.probes PROVE FALSE
      BY <2>3 DEF q
    <3>2. MayOwn(q, u, lost)
      BY <1>3, <3>1 DEF Shape
    <3>3. q.picked # None /\ ~q.picked.stale /\ q.picked.url = u
      BY <1>1, <2>1, <3>2 DEF MayOwn
    <3>4. QED
      BY <2>1, <3>3, LoggedBreakers DEF q
  <2>5. QED
    BY <1>7, <2>3, <2>4
<1>16. QED
  BY <1>12, <1>13, <1>14, <1>15 DEF IInv

----------------------------------------------------------------------------
(***************************************************************************)
(* The surroundings.                                                       *)
(***************************************************************************)

LEMMA SwapInv ==
  ASSUME IInv, NEW routes \in Tables, Swap(routes)
  PROVE  IInv'
<1>1. /\ table' = routes /\ cursor' = [i \in DOMAIN routes |-> 0]
      /\ gap' = [r \in Requests |->
                    gap[r] \/ (req[r].pc \in {"select", "unmatched"} /\ routes = << >>)]
      /\ config' = config /\ applying' = applying /\ tracker' = tracker /\ active' = active
      /\ gauge' = gauge /\ req' = req /\ lost' = lost
  BY DEF Swap
<1>2. Types'
  BY <1>1 DEF IInv, Types, Honest
<1>3. Shapes' /\ OneRetry'
  BY <1>1 DEF IInv, Shapes, Shape, MayOwn, OneRetry
<1>4. GapsKnown' /\ StatusTellsWhy'
  BY <1>1 DEF IInv, GapsKnown, StatusTellsWhy
<1>5. SlotsAccounted' /\ ProbesHaveOwners'
  BY <1>1 DEF IInv, SlotsAccounted, ProbesHaveOwners, Running
<1>6. QED
  BY <1>2, <1>3, <1>4, <1>5 DEF IInv

LEMMA ConfigureInv ==
  ASSUME IInv, NEW c \in Configs, Configure(c)
  PROVE  IInv'
<1>1. /\ ~applying /\ config' = c /\ applying' = (c.cb # config.cb)
      /\ table' = table /\ cursor' = cursor /\ gap' = gap /\ tracker' = tracker
      /\ active' = active /\ gauge' = gauge /\ req' = req /\ lost' = lost
  BY DEF Configure
<1>2. ~applying' /\ config'.cb => config.cb
  BY <1>1
<1>3. Types'
  BY <1>1 DEF IInv, Types, Honest
<1>4. Shapes'
  <2>1. \A r \in Requests : Shape(req[r], lost, config, applying)
    BY DEF IInv, Shapes
  <2>2. \A r \in Requests : Shape(req'[r], lost', config', applying')
    BY <1>1, <1>2, <2>1 DEF Shape
  <2>3. QED
    BY <2>2 DEF Shapes, Shape, MayOwn
<1>5. OneRetry' /\ GapsKnown' /\ StatusTellsWhy'
  BY <1>1 DEF IInv, OneRetry, GapsKnown, StatusTellsWhy
<1>6. SlotsAccounted' /\ ProbesHaveOwners'
  BY <1>1, <1>2 DEF IInv, SlotsAccounted, ProbesHaveOwners, Running
<1>7. QED
  BY <1>3, <1>4, <1>5, <1>6 DEF IInv

LEMMA ReconfigureInv ==
  ASSUME IInv, Reconfigure
  PROVE  IInv'
<1> DEFINE n(r) == [req[r] EXCEPT !.target = Stale(@), !.picked = Stale(@), !.probes = {}]
<1>1. /\ applying /\ applying' = FALSE
      /\ tracker' = [u \in Urls |-> NewTracker]
      /\ req' = [r \in Requests |-> n(r)]
      /\ cursor' = [i \in DOMAIN cursor |-> 0]
      /\ config' = config /\ table' = table /\ active' = active /\ gauge' = gauge
      /\ lost' = lost /\ gap' = gap
  BY Zenon DEF Reconfigure
<1>2. /\ Types /\ Shapes /\ OneRetry /\ GapsKnown /\ SlotsAccounted /\ StatusTellsWhy
      /\ req \in [Requests -> Reqs] /\ cursor \in [DOMAIN table -> Nat]
  BY DEF IInv, Types
<1>3. NewTracker \in Trackers /\ ~NewTracker.sent
  BY RequestAssumption DEF NewTracker, Trackers, States
<1>4. ASSUME NEW t \in HeldTargets \cup {None}
      PROVE  /\ Stale(t) \in HeldTargets \cup {None} /\ (Stale(t) = None <=> t = None)
             /\ t # None => Stale(t).stale /\ Stale(t).url = t.url /\ Stale(t).needs = t.needs
  <2>1. CASE t = None
    BY <2>1 DEF Stale
  <2>2. CASE t # None
    <3>1. Stale(t) = [t EXCEPT !.stale = TRUE] /\ t \in HeldTargets
      BY <2>2 DEF Stale
    <3>2. /\ Stale(t) \in HeldTargets /\ Stale(t).stale /\ Stale(t).url = t.url
          /\ Stale(t).needs = t.needs
      BY <3>1 DEF HeldTargets
    <3>3. QED
      BY <2>2, <3>2, RequestAssumption
  <2>3. QED
    BY <2>1, <2>2
<1>5. ASSUME NEW r \in Requests
      PROVE  /\ n(r) \in Reqs /\ n(r).pc = req[r].pc /\ n(r).want = req[r].want
             /\ n(r).cfg = req[r].cfg /\ n(r).target = Stale(req[r].target)
             /\ n(r).picked = Stale(req[r].picked) /\ n(r).refused = req[r].refused
             /\ n(r).bad = req[r].bad /\ n(r).retries = req[r].retries /\ n(r).probes = {}
  <2>1. /\ req[r] \in Reqs /\ req[r].target \in HeldTargets \cup {None}
        /\ req[r].picked \in HeldTargets \cup {None}
    BY <1>2 DEF Reqs
  <2>2. /\ Stale(req[r].target) \in HeldTargets \cup {None}
        /\ Stale(req[r].picked) \in HeldTargets \cup {None}
    BY <1>4, <2>1
  <2>3. QED
    BY <2>1, <2>2 DEF Reqs
<1>6. \A r \in Requests : n(r).pc = "idle" => n(r) = Idle
  <2>1. SUFFICES ASSUME NEW r \in Requests, req[r].pc = "idle" PROVE n(r) = Idle
    BY <1>5
  <2>2. req[r] = Idle
    BY <1>2, <2>1 DEF Shapes, Shape
  <2>3. Idle.target = None /\ Idle.picked = None /\ Stale(None) = None
    BY DEF Idle, Stale
  <2>4. /\ n(r).pc = "idle" /\ n(r).want = {} /\ n(r).cfg = None /\ n(r).target = None
        /\ n(r).picked = None /\ n(r).refused = None /\ n(r).bad = FALSE /\ n(r).retries = 0
        /\ n(r).probes = {} /\ n(r) \in Reqs
    <3>1. /\ req[r].pc = "idle" /\ req[r].want = {} /\ req[r].cfg = None /\ req[r].refused = None
          /\ req[r].bad = FALSE /\ req[r].retries = 0
      BY <2>2 DEF Idle
    <3>2. QED
      BY <1>5, <2>2, <2>3, <3>1
  <2> HIDE DEF n
  <2>5. n(r) = [pc |-> n(r).pc, want |-> n(r).want, cfg |-> n(r).cfg, target |-> n(r).target,
                picked |-> n(r).picked, refused |-> n(r).refused, bad |-> n(r).bad,
                retries |-> n(r).retries, probes |-> n(r).probes]
    BY <2>4 DEF Reqs
  <2>6. QED
    BY <2>4, <2>5 DEF Idle
<1> HIDE DEF n
<1>7. \A r \in Requests : req'[r] = n(r)
  BY <1>1
<1>8. \A r \in Requests :
        /\ req'[r].pc = req[r].pc /\ req'[r].refused = req[r].refused
        /\ req'[r].retries = req[r].retries
        /\ req'[r].picked = None <=> req[r].picked = None
        /\ req[r].picked # None => req'[r].picked.url = req[r].picked.url
  <2>1. \A r \in Requests : req[r].picked \in HeldTargets \cup {None}
    BY <1>2 DEF Reqs
  <2>2. ASSUME NEW r \in Requests
        PROVE  /\ req'[r].picked = None <=> req[r].picked = None
               /\ req[r].picked # None => req'[r].picked.url = req[r].picked.url
    <3>1. req'[r].picked = Stale(req[r].picked)
      BY <1>5, <1>7
    <3>2. QED
      BY <1>4, <2>1, <3>1
  <2>3. QED
    BY <1>5, <1>7, <2>2
<1>9. Types'
  <2>1. req' \in [Requests -> Reqs]
    BY <1>1, <1>5
  <2>2. tracker' \in [Urls -> Trackers] /\ \A u \in Urls : Honest(tracker'[u])
    BY <1>1, <1>3 DEF Honest
  <2>3. cursor' \in [DOMAIN table' -> Nat]
    BY <1>1, <1>2
  <2>4. QED
    BY <1>1, <1>2, <2>1, <2>2, <2>3 DEF Types, Honest
<1>10. Shapes'
  <2>1. ASSUME NEW r \in Requests PROVE Shape(n(r), lost, config, FALSE)
    <3>1. /\ Shape(req[r], lost, config, applying) /\ req[r].target \in HeldTargets \cup {None}
          /\ req[r].picked \in HeldTargets \cup {None}
      BY <1>2 DEF Shapes, Reqs
    <3>2. QED
      BY <1>4, <1>5, <1>6, <3>1 DEF Shape
  <2>2. QED
    BY <1>1, <1>7, <2>1 DEF Shapes, Shape, MayOwn
<1>11. OneRetry' /\ GapsKnown' /\ StatusTellsWhy'
  BY <1>1, <1>2, <1>8 DEF OneRetry, GapsKnown, StatusTellsWhy
<1>12. SlotsAccounted'
  <2>1. Running' = Running /\ Running \subseteq Requests
    BY <1>8 DEF Running
  <2>2. \A u \in Urls : Holding(u)' = Holding(u)
    BY <1>8, <2>1 DEF Holding
  <2>3. QED
    BY <1>1, <1>2, <2>1, <2>2 DEF SlotsAccounted, Holding
<1>13. ProbesHaveOwners'
  BY <1>1, <1>3 DEF ProbesHaveOwners
<1>14. QED
  BY <1>9, <1>10, <1>11, <1>12, <1>13 DEF IInv

LEMMA ProbeInv ==
  ASSUME IInv, NEW v \in Urls, Probe(v)
  PROVE  IInv'
<1>1. /\ tracker' = [tracker EXCEPT ![v].up = ~@]
      /\ config' = config /\ applying' = applying /\ table' = table /\ cursor' = cursor
      /\ active' = active /\ gauge' = gauge /\ req' = req /\ lost' = lost /\ gap' = gap
  BY DEF Probe
<1>2. tracker \in [Urls -> Trackers] /\ \A u \in Urls : Honest(tracker[u])
  BY DEF IInv, Types
<1> DEFINE b == [tracker[v] EXCEPT !.up = ~@]
<1>3. tracker' = [tracker EXCEPT ![v] = b]
  BY <1>1
<1>4. b \in Trackers /\ b.state = tracker[v].state /\ b.sent = tracker[v].sent
  BY <1>2 DEF Trackers
<1> HIDE DEF b
<1>5. /\ tracker' \in [Urls -> Trackers]
      /\ \A u \in Urls : Honest(tracker'[u]) /\ tracker'[u].sent = tracker[u].sent
  BY <1>2, <1>3, <1>4 DEF Honest
<1>6. Types'
  BY <1>1, <1>5 DEF IInv, Types, Honest
<1>7. Shapes' /\ OneRetry'
  BY <1>1 DEF IInv, Shapes, Shape, MayOwn, OneRetry
<1>8. GapsKnown' /\ StatusTellsWhy'
  BY <1>1 DEF IInv, GapsKnown, StatusTellsWhy
<1>9. SlotsAccounted' /\ ProbesHaveOwners'
  BY <1>1, <1>5 DEF IInv, SlotsAccounted, ProbesHaveOwners, Running
<1>10. QED
  BY <1>6, <1>7, <1>8, <1>9 DEF IInv

----------------------------------------------------------------------------
(***************************************************************************)
(* The theorems.                                                           *)
(***************************************************************************)

(* The steps that Keeps sums up. *)
KeepingStep(r) ==
    \/ Lookup(r) \/ NoTarget(r) \/ (\E late \in SUBSET Urls : Allow(r, late)) \/ RateLimit(r)
    \/ (Slot(r) /\ Full(r)) \/ ResolveFails(r) \/ Respond(r) \/ Retry(r)

LEMMA KeepingSteps ==
  ASSUME IInv, NEW r \in Requests, KeepingStep(r)
  PROVE  \E n : Keeps(r, n)
<1>1. CASE \E late \in SUBSET Urls : Allow(r, late)
  BY <1>1, AllowKeeps
<1>2. CASE RateLimit(r) \/ (Slot(r) /\ Full(r))
  BY <1>2, LimitsKeep
<1>3. CASE NoTarget(r) \/ ResolveFails(r) \/ Respond(r)
  BY <1>3, EndsKeep
<1>4. QED
  BY <1>1, <1>2, <1>3, LookupKeeps, RetryKeeps DEF KeepingStep

LEMMA NextCases ==
  ASSUME Next
  PROVE  \/ \E r \in Requests : \/ KeepingStep(r) \/ Arrive(r) \/ Log(r)
                                \/ (Slot(r) /\ ~Full(r))
         \/ \E routes \in Tables : Swap(routes)
         \/ \E c \in Configs : Configure(c)
         \/ Reconfigure
         \/ \E u \in Urls : Probe(u)
<1>1. Flaky \subseteq Urls
  BY RequestAssumption
<1>2. QED
  BY <1>1, Zenon DEF Next, RequestStep, KeepingStep

LEMMA InitInv == Init => IInv
<1> SUFFICES ASSUME Init PROVE IInv
  OBVIOUS
<1>1. /\ config \in Configs /\ applying = FALSE /\ table \in Tables
      /\ cursor = [i \in DOMAIN table |-> 0] /\ tracker = [u \in Urls |-> NewTracker]
      /\ active = [u \in Urls |-> 0] /\ gauge = 0 /\ req = [r \in Requests |-> Idle]
      /\ lost = [u \in Urls |-> 0] /\ gap = [r \in Requests |-> FALSE]
  BY DEF Init
<1>2. NewTracker \in Trackers /\ ~NewTracker.sent /\ MaxLost \in Nat
  BY RequestAssumption DEF NewTracker, Trackers, States
<1>3. /\ Idle \in Reqs /\ Idle.pc = "idle" /\ Idle.target = None /\ Idle.picked = None
      /\ Idle.refused = None /\ Idle.retries = 0 /\ Idle.probes = {}
  BY DEF Idle, Reqs, Pcs
<1>4. Types
  <2>1. req \in [Requests -> Reqs] /\ tracker \in [Urls -> Trackers]
    BY <1>1, <1>2, <1>3
  <2>2. /\ cursor \in [DOMAIN table -> Nat] /\ active \in [Urls -> Nat]
        /\ lost \in [Urls -> 0 .. MaxLost] /\ gauge \in Nat
    BY <1>1, <1>2
  <2>3. gap \in [Requests -> BOOLEAN] /\ applying \in BOOLEAN
    BY <1>1
  <2>4. \A u \in Urls : Honest(tracker[u])
    BY <1>1, <1>2 DEF Honest
  <2>5. QED
    BY <1>1, <2>1, <2>2, <2>3, <2>4 DEF Types
<1>5. Shapes
  BY <1>1, <1>3 DEF Shapes, Shape, Given, Choosing
<1>6. OneRetry /\ GapsKnown
  BY <1>1, <1>3 DEF OneRetry, GapsKnown
<1>7. StatusTellsWhy
  BY <1>1, <1>3, RequestAssumption DEF StatusTellsWhy
<1>8. SlotsAccounted
  <2>1. Running = {}
    BY <1>1, <1>3 DEF Running
  <2>2. \A u \in Urls : Holding(u) = {}
    BY <2>1 DEF Holding
  <2>3. Cardinality({}) = 0
    BY FS_EmptySet
  <2>4. QED
    BY <1>1, <2>1, <2>2, <2>3 DEF SlotsAccounted, Holding
<1>9. ProbesHaveOwners
  BY <1>1, <1>2 DEF ProbesHaveOwners
<1>10. QED
  BY <1>4, <1>5, <1>6, <1>7, <1>8, <1>9 DEF IInv

LEMMA StepInv ==
  ASSUME IInv, [Next]_vars
  PROVE  IInv'
<1>1. ASSUME NEW r \in Requests, KeepingStep(r) PROVE IInv'
  BY <1>1, KeepingSteps, KeepsInv
<1>2. CASE UNCHANGED vars
  <2>1. /\ config' = config /\ applying' = applying /\ table' = table /\ cursor' = cursor
        /\ tracker' = tracker /\ active' = active /\ gauge' = gauge /\ req' = req
        /\ lost' = lost /\ gap' = gap
    BY <1>2 DEF vars
  <2>2. Types' /\ OneRetry' /\ GapsKnown' /\ StatusTellsWhy'
    BY <2>1 DEF IInv, Types, Honest, OneRetry, GapsKnown, StatusTellsWhy
  <2>3. Shapes'
    BY <2>1 DEF IInv, Shapes, Shape, MayOwn
  <2>4. SlotsAccounted' /\ ProbesHaveOwners'
    BY <2>1 DEF IInv, SlotsAccounted, ProbesHaveOwners, Running
  <2>5. QED
    BY <2>2, <2>3, <2>4 DEF IInv
<1>3. CASE Next
  BY <1>1, <1>3, NextCases, ArriveInv, LogInv, SlotInv, SwapInv, ConfigureInv, ReconfigureInv, ProbeInv
<1>4. QED
  BY <1>2, <1>3

(* The inductive invariant holds in every state. *)
THEOREM Invariance == Spec => []IInv
<1>1. QED
  BY InitInv, StepInv, PTL DEF Spec

LEMMA InvTypes ==
  ASSUME IInv
  PROVE  TypeOK
<1>1. config \in Configs /\ applying \in BOOLEAN
  BY Zenon DEF IInv, Types
<1>2. table \in Tables /\ cursor \in [DOMAIN table -> Nat]
  BY Zenon DEF IInv, Types
<1>3. \A u \in Urls : IsBreaker(tracker[u])
  BY DEF IInv, Types, Trackers, Honest, IsBreaker
<1>4. active \in [Urls -> Nat] /\ lost \in [Urls -> 0 .. MaxLost] /\ gauge \in Nat
  BY Zenon DEF IInv, Types
<1>5. DOMAIN req = Requests
  BY DEF IInv, Types
<1>6. gap \in [Requests -> BOOLEAN]
  BY Zenon DEF IInv, Types
<1>7. QED
  BY <1>1, <1>2, <1>3, <1>4, <1>5, <1>6 DEF TypeOK

(***************************************************************************)
(* try_acquire_connection_slot, allow_request and record_access_log: what  *)
(* a request takes it gives back on every way out, for any number of       *)
(* clients and targets.  The connection counts are those of the requests   *)
(* under way (and of the picks a library retry overwrote), the gauge       *)
(* counts the requests, and no half-open probe is left in flight without a *)
(* request that will end it.                                               *)
(***************************************************************************)
THEOREM HoldingsReturned == Spec => []HoldingsAreReturned
<1>1. IInv => TypeOK
  BY InvTypes
<1>2. IInv => HoldingsAreReturned
  BY <1>1 DEF IInv, HoldingsAreReturned
<1>3. QED
  BY <1>2, Invariance, PTL

(***************************************************************************)
(* lookup_target, the inline fallback and the second read of the table:    *)
(* whatever tables are published meanwhile, a request only holds a target  *)
(* whose header constraint it satisfies, and no_route_status is only       *)
(* answered if at some moment of the lookup no route matched.              *)
(***************************************************************************)
THEOREM SelectionsRight == Spec => []SelectionsAreRight
<1>1. IInv => HeaderConstraintsHold
  BY DEF IInv, Shapes, Shape, HeaderConstraintsHold, matches_headers
<1>2. IInv => SelectionsAreRight
  BY <1>1 DEF IInv, SelectionsAreRight
<1>3. QED
  BY <1>2, Invariance, PTL

\* Only a lookup ends the search of a request.
LEMMA SearchEnds ==
  ASSUME IInv, Next, NEW r \in Requests, req[r].pc = "select", req'[r].pc # "select"
  PROVE  Lookup(r)
<1>1. req \in [Requests -> Reqs]
  BY DEF IInv, Types
<1>2. ASSUME NEW o \in Requests, NEW from, NEW new, Step(o, from, new), from # "select"
      PROVE  FALSE
  BY <1>1, <1>2 DEF Step
<1>3. ASSUME NEW o \in Requests, o # r, NEW from, NEW new, Step(o, from, new)
      PROVE  FALSE
  BY <1>1, <1>3 DEF Step
<1>4. ASSUME req' = req PROVE FALSE
  BY <1>4
<1>5. ASSUME Reconfigure PROVE FALSE
  BY <1>1, <1>5 DEF Reconfigure, Reqs
<1>6. ASSUME NEW o \in Requests, ~Lookup(o), KeepingStep(o) \/ Arrive(o) \/ Log(o) \/ Slot(o)
      PROVE  \E from, new : Step(o, from, new) /\ from # "select"
  <2>1. CASE Arrive(o) \/ Log(o) \/ Slot(o)
    <3>1. \/ \E new : Step(o, "idle", new)
          \/ \E new : Step(o, "logging", new)
          \/ \E new : Step(o, "limited", new)
      BY <2>1, Zenon DEF Arrive, Log, Slot
    <3>2. QED
      BY <3>1
  <2>2. CASE NoTarget(o) \/ RateLimit(o)
    <3>1. (\E new : Step(o, "unmatched", new)) \/ \E new : Step(o, "allowed", new)
      BY <2>2, Zenon DEF NoTarget, RateLimit
    <3>2. QED
      BY <3>1
  <2>3. CASE ResolveFails(o) \/ Respond(o) \/ Retry(o)
    <3>1. \E new : Step(o, "picked", new)
      BY <2>3, Zenon DEF ResolveFails, Respond, Retry
    <3>2. QED
      BY <3>1
  <2>4. CASE \E late \in SUBSET Urls : Allow(o, late)
    <3>1. \E new : Step(o, "chosen", new)
      BY <2>4, Zenon DEF Allow
    <3>2. QED
      BY <3>1
  <2>5. QED
    BY <1>6, <2>1, <2>2, <2>3, <2>4 DEF KeepingStep
<1>7. ASSUME NEW o \in Requests, Lookup(o) PROVE o = r
  <2>1. \E from, new : Step(o, from, new)
    BY <1>7, Zenon DEF Lookup
  <2>2. QED
    BY <1>3, <2>1
<1>8. /\ \A routes \in Tables : Swap(routes) => req' = req
      /\ \A c \in Configs : Configure(c) => req' = req
      /\ \A u \in Urls : Probe(u) => req' = req
  BY DEF Swap, Configure, Probe
<1>9. QED
  BY <1>2, <1>4, <1>5, <1>6, <1>7, <1>8, NextCases

(***************************************************************************)
(* lookup_target: a request is left without target only if no route that   *)
(* matches has one that fits its headers, is up and whose breaker would    *)
(* accept, for any table, strategy and counter; one that is given is up.   *)
(***************************************************************************)
THEOREM NothingMissed == Spec => NoTargetMissed
<1> DEFINE Found(r) ==
            LET Within(t) == /\ tracker[t.url].up
                             /\ can_accept_request(tracker[t.url], FALSE)
                             /\ matches_headers(t, req[r].want)
            IN /\ req'[r].target = None =>
                    \A i \in DOMAIN table : \A t \in Range(table[i].targets) : ~Within(t)
               /\ req'[r].target # None => tracker[req'[r].target.url].up
<1>1. ASSUME IInv, Next, NEW r \in Requests, req[r].pc = "select", req'[r].pc # "select"
      PROVE  Found(r)
  <2>1. Lookup(r)
    BY <1>1, SearchEnds
  <2>2. PICK late \in SUBSET Urls : \E found \in lookup_target(req[r].want, config, late) :
            Step(r, "select",
                 [req[r] EXCEPT !.pc = IF found.target = None THEN "unmatched" ELSE "chosen",
                                !.cfg = config,
                                !.target = found.target])
    BY <2>1, Zenon DEF Lookup
  <2>3. PICK found \in lookup_target(req[r].want, config, late) :
            Step(r, "select",
                 [req[r] EXCEPT !.pc = IF found.target = None THEN "unmatched" ELSE "chosen",
                                !.cfg = config,
                                !.target = found.target])
    BY <2>2
  <2>4. Types /\ req \in [Requests -> Reqs] /\ req[r] \in Reqs
    BY <1>1, AtStart
  <2>5. req'[r].target = found.target
    BY <2>3, <2>4 DEF Step, Reqs
  <2>6. /\ found.target # None => Suitable(found.target, req[r].want)
        /\ found.target = None =>
                \A i \in DOMAIN table : \A t \in Range(table[i].targets) : ~Reachable(t, req[r].want)
    BY <2>4, FoundByLookup
  <2>7. QED
    BY <2>5, <2>6 DEF Suitable, Reachable
<1>2. IInv /\ [Next]_vars =>
        [\A r \in Requests : req[r].pc = "select" /\ req'[r].pc # "select" => Found(r)]_vars
  BY <1>1
<1>3. QED
  BY <1>2, Invariance, PTL DEF Spec, NoTargetMissed

(***************************************************************************)
(* select_upstream_peer and record_access_log: the steps that refuse a     *)
(* request for the lack of a target, its rate or the connection limit, and *)
(* log it, neither open a breaker nor change a connection count.           *)
(***************************************************************************)
THEOREM RefusalsIsolated == Spec => RefusalsDoNotFeedBack
<1> DEFINE Harmless == /\ \A u \in Urls : tracker'[u].state = "open" => tracker[u].state = "open"
                       /\ UNCHANGED active
<1>1. ASSUME IInv, Next, NEW r \in Requests, req'[r] # req[r], req[r].retries = 0,
             req[r].refused # None \/ req'[r].refused # None
      PROVE  Harmless
  <2>1. req \in [Requests -> Reqs] /\ Shape(req[r], lost, config, applying)
    BY <1>1, AtStart
  <2>2. ASSUME NEW o \in Requests, KeepingStep(o) PROVE Harmless
    BY <1>1, <2>2, KeepingSteps DEF Keeps
  <2>3. ASSUME NEW o \in Requests, Arrive(o) PROVE Harmless
    BY <2>3 DEF Arrive
  <2>4. ASSUME NEW o \in Requests, Log(o) PROVE Harmless
    <3>1. req' = [req EXCEPT ![o] = Idle] /\ Idle.refused = None
      BY <2>4, Zenon DEF Log, Step, Idle
    <3>2. o = r /\ req[r].refused # None
      BY <1>1, <2>1, <3>1
    <3>3. req[r].picked = None
      BY <1>1, <2>1, <3>2 DEF Shape
    <3>4. tracker' = tracker /\ active' = active
      BY <2>4, <3>2, <3>3 DEF Log
    <3>5. QED
      BY <3>4
  <2>5. ASSUME NEW o \in Requests, Slot(o), ~Full(o) PROVE Harmless
    <3>1. req' = [req EXCEPT ![o] = Picked(o)] /\ req[o].pc = "limited"
      BY <2>5, Zenon DEF Slot, Step
    <3>2. o = r
      BY <1>1, <2>1, <3>1
    <3>3. Picked(r).refused = req[r].refused
      BY <2>1 DEF Picked, Reqs
    <3>4. req'[r].refused = req[r].refused
      BY <2>1, <3>1, <3>2, <3>3
    <3>5. QED
      BY <1>1, <2>1, <3>1, <3>2, <3>4 DEF Shape
  <2>6. ASSUME Reconfigure PROVE Harmless
    BY <2>6 DEF Reconfigure, NewTracker
  <2>7. /\ \A routes \in Tables : Swap(routes) => req' = req
        /\ \A c \in Configs : Configure(c) => req' = req
        /\ \A u \in Urls : Probe(u) => req' = req
    BY DEF Swap, Configure, Probe
  <2> HIDE DEF Harmless
  <2>8. QED
    BY <1>1, <2>2, <2>3, <2>4, <2>5, <2>6, <2>7, NextCases
<1>2. IInv /\ [Next]_vars =>
        [\A r \in Requests :
            /\ req'[r] # req[r] /\ req[r].retries = 0
            /\ req[r].refused # None \/ req'[r].refused # None
            => Harmless]_vars
  BY <1>1
<1>3. QED
  BY <1>2, Invariance, PTL DEF Spec, RefusalsDoNotFeedBack
=============================================================================
