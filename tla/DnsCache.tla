------------------------------ MODULE DnsCache ------------------------------
(***************************************************************************)
(* The DNS cache of src/route/dns_cache.rs and its use by                  *)
(* Target::resolve_upstream_addr (src/route/target.rs).                    *)
(*                                                                         *)
(* The cache is one map shared by all targets, without a lock around it:   *)
(* a lookup, a store with the eviction after it, and a change of the TTLs  *)
(* are each several steps, and other threads run between them.  Nothing    *)
(* stops two requests from asking for one name at the same time.           *)
(***************************************************************************)
EXTENDS Integers, Sequences, FiniteSets, SequencesExt

CONSTANTS
    Resolvers,   \* requests that resolve a target
    Targets,     \* [key, safe, skip, private]: its host:port, is_host_safe,
                 \*   ssrf_skip_verify, source_allows_private_upstreams
    Answers,     \* sequences of addresses the name service may give
    Private,     \* addresses of is_ip_rfc1918
    Blocked,     \* addresses of is_ip_always_blocked
    Ttls,        \* pairs of TTLs set_ttl may be called with, in ticks
    Capacity,    \* DNS_CACHE_MAX_ENTRIES
    MaxTime,     \* bound on the clock
    NoEntry

Keys == {t.key : t \in Targets}

ASSUME CacheAssumption ==
    /\ IsFiniteSet(Resolvers) /\ IsFiniteSet(Targets)
    /\ Capacity \in Nat /\ MaxTime \in Nat
    /\ Ttls \subseteq Nat \X Nat

VARIABLES
    now,       \* monotonic_elapsed_ms
    cache,     \* key |-> [addrs, expires, negative], and the TTL and time it
               \*   was stored with (history fields), or NoEntry
    ttl,       \* <<default_ttl_secs, negative_ttl_secs>>
    setting,   \* where set_ttl is: "no", "changed" or "same" (after the
               \*   first swap, by what it found), "clear"
    next_ttl,  \* its arguments
    res,       \* the resolvers
    overlap,   \* keys stored by calls that overlapped a set_ttl (history variable)
    missed     \* victims of evictions that were gone already (history variable)

vars == <<now, cache, ttl, setting, next_ttl, res, overlap, missed>>

Idle == [pc |-> "idle", target |-> NoEntry, result |-> << >>, answer |-> << >>,
         negative |-> FALSE, ttl |-> 0, at |-> 0, seen |-> << >>]

Cached == {k \in Keys : cache[k] # NoEntry}
Expired(k, at) == at >= cache[k].expires
Without(keys) == [k \in Keys |-> IF k \in keys THEN NoEntry ELSE cache[k]]

(* Whether a target may be connected to an address. *)
permits(t, addr) == t.skip \/ (addr \notin Blocked /\ (t.private \/ addr \notin Private))

----------------------------------------------------------------------------
Init ==
    /\ now = 0
    /\ cache = [k \in Keys |-> NoEntry]
    /\ ttl \in Ttls
    /\ setting = "no"
    /\ next_ttl = ttl
    /\ res = [r \in Resolvers |-> Idle]
    /\ overlap = {}
    /\ missed = 0

Tick ==
    /\ now < MaxTime
    /\ now' = now + 1
    /\ UNCHANGED <<cache, ttl, setting, next_ttl, res, overlap, missed>>

Step(r, from, new) == res[r].pc = from /\ res' = [res EXCEPT ![r] = new]
Go(r, to) == [res[r] EXCEPT !.pc = to]
(* The call returns an address, or fails. *)
Done(r, result) ==
    IF result = << >> THEN Idle
    ELSE [Idle EXCEPT !.pc = "done", !.target = res[r].target, !.result = result]

(* resolve_upstream_addr is called; a host that is not safe is refused. *)
Begin(r, t) ==
    /\ Step(r, "idle", IF t.safe \/ t.skip THEN [Idle EXCEPT !.pc = "lookup", !.target = t]
                       ELSE Idle)
    /\ UNCHANGED <<now, cache, ttl, setting, next_ttl, overlap, missed>>

(* lookup_status reads the clock, and first removes an entry that has expired. *)
RemoveExpired(r) ==
    LET k == res[r].target.key
    IN /\ res[r].pc = "lookup"
       /\ IF k \in Cached /\ Expired(k, now)
          THEN Step(r, "lookup", Go(r, "ask")) /\ cache' = Without({k})
          ELSE Step(r, "lookup", [Go(r, "get") EXCEPT !.at = now]) /\ UNCHANGED cache
       /\ UNCHANGED <<now, ttl, setting, next_ttl, overlap, missed>>

(* Mutant: what another target may use is good enough. *)
Get_AnyHit(r) ==
    LET k == res[r].target.key
    IN /\ res[r].pc = "get"
       /\ Step(r, "get", IF k \notin Cached THEN [Go(r, "ask") EXCEPT !.at = 0]
                         ELSE Done(r, IF cache[k].negative THEN << >> ELSE <<cache[k].addrs[1]>>))
       /\ UNCHANGED <<now, cache, ttl, setting, next_ttl, overlap, missed>>

(* Then the entry: a hit, unless the target may not use its first address, *)
(* which takes the entry out in a step of its own; a negative hit; a miss. *)
Get(r) ==
    LET k == res[r].target.key
    IN /\ res[r].pc = "get"
       /\ Step(r, "get",
            IF k \notin Cached THEN [Go(r, "ask") EXCEPT !.at = 0]
            ELSE IF cache[k].negative THEN Done(r, << >>)
            ELSE IF permits(res[r].target, cache[k].addrs[1]) THEN Done(r, <<cache[k].addrs[1]>>)
            ELSE [Go(r, "remove") EXCEPT !.at = 0])
       /\ UNCHANGED <<now, cache, ttl, setting, next_ttl, overlap, missed>>

remove(r) ==
    /\ Step(r, "remove", Go(r, "ask"))
    /\ cache' = Without({res[r].target.key})
    /\ UNCHANGED <<now, ttl, setting, next_ttl, overlap, missed>>

(* The name service answers: an error, no such name, or addresses.  The    *)
(* first must be permitted; the others are filtered and kept behind it, but *)
(* no lookup ever looks at them and they are left out here.                *)
Answer(r) ==
    LET t == res[r].target
        Keep(answer, negative) == [res[r] EXCEPT !.pc = "load", !.answer = answer,
                                                 !.negative = negative]
    IN /\ \/ Step(r, "ask", Done(r, << >>))
          \/ Step(r, "ask", Keep(<< >>, TRUE))
          \/ \E addrs \in Answers :
                Step(r, "ask", IF addrs = << >> \/ ~permits(t, addrs[1]) THEN Done(r, << >>)
                               ELSE Keep(<<addrs[1]>>, FALSE))
       /\ UNCHANGED <<now, cache, ttl, setting, next_ttl, overlap, missed>>

----------------------------------------------------------------------------
(* store and store_negative: the TTL and the clock are read, then the entry *)
(* is put into the map, then the cache is cut down.                         *)

Result(q) == IF q.negative THEN << >> ELSE <<q.answer[1]>>

LoadTtl(r) ==
    LET secs == ttl[IF res[r].negative THEN 2 ELSE 1]
    IN /\ Step(r, "load", IF secs = 0 THEN Done(r, Result(res[r]))
                          ELSE [res[r] EXCEPT !.pc = "insert", !.ttl = secs, !.at = now])
       /\ UNCHANGED <<now, cache, ttl, setting, next_ttl, overlap, missed>>

Insert(r) ==
    LET k == res[r].target.key
    IN /\ Step(r, "insert", [Go(r, "full") EXCEPT !.ttl = 0])
       /\ cache' = [cache EXCEPT ![k] = [addrs |-> res[r].answer,
                                         expires |-> res[r].at + res[r].ttl,
                                         negative |-> res[r].negative,
                                         ttl |-> res[r].ttl, stored |-> now]]
       /\ UNCHANGED <<now, ttl, setting, next_ttl, overlap, missed>>

(* evict_if_over_capacity: is it full, and which entries have expired? *)
CollectExpired(r) ==
    /\ res[r].pc = "full"
    /\ Step(r, "full",
            IF Cardinality(Cached) <= Capacity THEN Done(r, Result(res[r]))
            ELSE [res[r] EXCEPT !.pc = "expired", !.at = 0,
                    !.seen = <<{k \in Cached : Expired(k, res[r].at)}>>])
    /\ missed' = IF Cardinality(Cached) <= Capacity THEN 0 ELSE missed
    /\ UNCHANGED <<now, cache, ttl, setting, next_ttl, overlap>>

RemoveCollected(r) ==
    /\ res[r].pc = "expired"
    /\ Step(r, "expired", [res[r] EXCEPT !.pc = "still_full", !.seen = << >>])
    /\ cache' = Without(res[r].seen[1])
    /\ UNCHANGED <<now, ttl, setting, next_ttl, overlap, missed>>

(* If that was not enough, all entries with the times they expire ... *)
Snapshot(r) ==
    /\ res[r].pc = "still_full"
    /\ Step(r, "still_full",
            IF Cardinality(Cached) <= Capacity THEN Done(r, Result(res[r]))
            ELSE [res[r] EXCEPT !.pc = "evict",
                    !.seen = <<[k \in Cached |-> cache[k].expires]>>])
    /\ missed' = IF Cardinality(Cached) <= Capacity THEN 0 ELSE missed
    /\ UNCHANGED <<now, cache, ttl, setting, next_ttl, overlap>>

(* Mutant: one entry fewer than needed is taken. *)
TakeSoonest_OneShort(r) ==
    LET surplus == Cardinality(Cached) - Capacity
    IN /\ res[r].pc = "evict"
       /\ \E victims \in SUBSET DOMAIN res[r].seen[1] :
            /\ Cardinality(victims) = IF surplus > 0 THEN surplus - 1 ELSE 0
            /\ cache' = Without(victims)
            /\ missed' = Cardinality(victims \ Cached)
       /\ Step(r, "evict", Done(r, Result(res[r])))
       /\ UNCHANGED <<now, ttl, setting, next_ttl, overlap>>

(* The victims that others have taken out since they were listed. *)
Gone(victims) == Cardinality(victims \ Cached)

(* ... and as many of them as there are too many by now, soonest first.  If *)
(* others have made room since, the unsigned difference wraps around and    *)
(* all of them are taken.                                                   *)
TakeSoonest(r) ==
    LET times == res[r].seen[1]
        surplus == Cardinality(Cached) - Capacity
        n == IF surplus \in 0 .. Cardinality(DOMAIN times) THEN surplus ELSE Cardinality(DOMAIN times)
    IN /\ res[r].pc = "evict"
       /\ \E victims \in SUBSET DOMAIN times :
            /\ Cardinality(victims) = n
            /\ \A k \in victims, o \in DOMAIN times \ victims : times[k] <= times[o]
            /\ cache' = Without(victims)
            /\ missed' = CASE surplus < 0 -> 0
                           [] surplus > Cardinality(DOMAIN times) -> missed + Gone(victims)
                           [] OTHER -> Gone(victims)
       /\ Step(r, "evict", Done(r, Result(res[r])))
       /\ UNCHANGED <<now, ttl, setting, next_ttl, overlap>>

Return(r) ==
    /\ Step(r, "done", Idle)
    /\ UNCHANGED <<now, cache, ttl, setting, next_ttl, overlap, missed>>

----------------------------------------------------------------------------
(* set_ttl, called under the lock of the configuration: the swaps, then    *)
(* the clearing if they changed something.                                 *)

(* The default TTL is swapped. *)
SetTtl(pair) ==
    /\ setting = "no"
    /\ next_ttl' = pair
    /\ ttl' = <<pair[1], ttl[2]>>
    /\ setting' = IF ttl[1] # pair[1] THEN "changed" ELSE "same"
    /\ UNCHANGED <<now, cache, res, overlap, missed>>

(* Then the negative one. *)
SwapNegative ==
    /\ setting \in {"changed", "same"}
    /\ ttl' = <<ttl[1], next_ttl[2]>>
    /\ setting' = IF setting = "changed" \/ ttl[2] # next_ttl[2] THEN "clear" ELSE "no"
    /\ UNCHANGED <<now, cache, next_ttl, res, overlap, missed>>

(* Mutant: the entries are left. *)
Clear_Not ==
    /\ setting = "clear"
    /\ setting' = "no"
    /\ UNCHANGED <<now, cache, ttl, next_ttl, res, overlap, missed>>

Clear ==
    /\ setting = "clear"
    /\ setting' = "no"
    /\ cache' = Without(Keys)
    /\ overlap' = overlap \cup {res[r].target.key : r \in {x \in Resolvers : res[x].pc = "insert"}}
    /\ UNCHANGED <<now, ttl, next_ttl, res, missed>>

Next ==
    \/ Tick
    \/ \E r \in Resolvers :
        \/ \E t \in Targets : Begin(r, t)
        \/ RemoveExpired(r) \/ Get(r) \/ remove(r) \/ Answer(r)
        \/ LoadTtl(r) \/ Insert(r) \/ CollectExpired(r) \/ RemoveCollected(r)
        \/ Snapshot(r) \/ TakeSoonest(r) \/ Return(r)
    \/ \E pair \in Ttls : SetTtl(pair)
    \/ SwapNegative \/ Clear

Spec == Init /\ [][Next]_vars

----------------------------------------------------------------------------
(* Properties. *)

(* Every variable has its type; positive entries hold an address. *)
TypeOK ==
    /\ now \in 0 .. MaxTime
    /\ ttl \in Nat \X Nat /\ next_ttl \in Ttls
    /\ setting \in {"no", "changed", "same", "clear"}
    /\ \A k \in Cached :
            /\ cache[k].ttl > 0
            /\ cache[k].negative <=> cache[k].addrs = << >>
    /\ overlap \subseteq Keys /\ missed \in Nat /\ DOMAIN res = Resolvers

(***************************************************************************)
(* No target gets an address it may not use (resolve_upstream_addr): the   *)
(* entries are shared by targets with other permissions under the same     *)
(* host:port, and may be replaced between the steps of a lookup, but the   *)
(* address a resolution returns is one its own target permits.             *)
(***************************************************************************)
AnswersPermitted ==
    \A r \in Resolvers : res[r].result # << >> => permits(res[r].target, res[r].result[1])

(***************************************************************************)
(* The cache stays within its limit (evict_if_over_capacity): it holds at  *)
(* most one entry too many for each store that is not done evicting, and   *)
(* one for each entry that the last eviction chose and found gone, because *)
(* other stores and lookups ran between the listing and the removal.  The  *)
(* latter stay until a later store finds the cache too full.               *)
(***************************************************************************)
Storing == {r \in Resolvers : res[r].pc \in {"full", "expired", "still_full", "evict"}}
SizeBounded == Cardinality(Cached) <= Capacity + Cardinality(Storing) + missed

(***************************************************************************)
(* Changed TTLs take effect (set_ttl): once set_ttl is done, an entry was  *)
(* stored with the TTL in force, or by a call that had read the old one    *)
(* before and stored after the clearing.                                   *)
(***************************************************************************)
TtlInForce ==
    setting = "no" =>
        \A k \in Cached \ overlap : cache[k].ttl = ttl[IF cache[k].negative THEN 2 ELSE 1]

(***************************************************************************)
(* No entry is served late (lookup_status): the removal of an expired entry*)
(* and the reading of the entry are two steps, the clock and other threads *)
(* run in between, and yet an answer taken from the cache had not expired  *)
(* when the lookup read the clock, unless it was stored only after that by *)
(* a thread that had read the clock before.                                *)
(***************************************************************************)
NoLateAnswers ==
    [][ \A r \in Resolvers :
            res[r].pc = "get" /\ res'[r].pc \in {"done", "idle"} =>
                LET entry == cache[res[r].target.key]
                IN entry.expires > res[r].at \/ entry.stored >= res[r].at ]_vars

(* The address a lookup returns is permitted to its target and not late,   *)
(* whatever other lookups do to the shared entry between its steps.        *)
AnswersAreGood == [](TypeOK /\ AnswersPermitted) /\ NoLateAnswers
=============================================================================
