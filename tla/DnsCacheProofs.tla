--------------------------- MODULE DnsCacheProofs ---------------------------
(***************************************************************************)
(* The DNS cache for any number of requests, targets, TTLs and any         *)
(* capacity.  The steps of a resolution are first summed up (LocalStep):   *)
(* all but Insert only take entries out of the map.  Each part of the      *)
(* invariant is then a short argument about such a step, Insert, the three *)
(* steps of set_ttl and the clock.                                         *)
(***************************************************************************)
EXTENDS DnsCache, FiniteSetTheorems, TLAPS

Pcs == {"idle", "lookup", "get", "remove", "ask", "load", "insert", "full", "expired",
        "still_full", "evict", "done"}
Holding == {"load", "insert", "full", "expired", "still_full", "evict"}
Evicting == {"full", "expired", "still_full", "evict"}

(* The first address of an answer, if there is one. *)
Firsts == {<< >>} \cup {<<a[1]>> : a \in Answers}
Seens == {<< >>} \cup {<<S>> : S \in SUBSET Keys}
             \cup {<<f>> : f \in UNION {[S -> Nat] : S \in SUBSET Keys}}
Calls == [pc : Pcs, target : Targets \cup {NoEntry}, result : Firsts, answer : Firsts,
          negative : BOOLEAN, ttl : Nat, at : Nat, seen : Seens]
Entries == [addrs : Firsts, expires : Nat, negative : BOOLEAN, ttl : Nat \ {0}, stored : Nat]

(***************************************************************************)
(* What a resolution knows at each step: its target, an answer its target  *)
(* permits, a TTL that is not zero, a list of entries to evict that is not *)
(* empty.                                                                  *)
(***************************************************************************)
GoodCall(q) ==
    /\ q.pc # "idle" => q.target \in Targets
    /\ q.pc \in Holding => IF q.negative THEN q.answer = << >>
                           ELSE q.answer # << >> /\ permits(q.target, q.answer[1])
    /\ q.pc = "insert" => q.ttl > 0
    /\ q.pc = "evict" => DOMAIN q.seen[1] \subseteq Keys /\ DOMAIN q.seen[1] # {}
    /\ q.result # << >> => permits(q.target, q.result[1])

Types ==
    /\ now \in 0 .. MaxTime
    /\ cache \in [Keys -> Entries \cup {NoEntry}]
    /\ ttl \in Nat \X Nat /\ next_ttl \in Ttls
    /\ setting \in {"no", "changed", "same", "clear"}
    /\ res \in [Resolvers -> Calls]
    /\ overlap \subseteq Keys /\ missed \in Nat
    /\ \A r \in Resolvers : GoodCall(res[r]) /\ res[r].at <= now
    /\ \A k \in Cached : cache[k].negative <=> cache[k].addrs = << >>

(***************************************************************************)
(* The entry a lookup is about to read, if there is one by then, had not   *)
(* expired when it read the clock, or was stored since.                    *)
(***************************************************************************)
Fresh(q) ==
    q.pc = "get" /\ q.target.key \in Cached =>
        LET entry == cache[q.target.key]
        IN entry.expires > q.at \/ entry.stored >= q.at

(***************************************************************************)
(* While no change of the TTLs has taken effect, entries and the stores    *)
(* about to make one have the TTLs in force, but for those that overlapped *)
(* an earlier change.                                                      *)
(***************************************************************************)
InForce(negative) == ttl[IF negative THEN 2 ELSE 1]
TtlsFollow ==
    setting \in {"no", "same"} =>
        /\ \A k \in Cached \ overlap : cache[k].ttl = InForce(cache[k].negative)
        /\ \A r \in Resolvers : res[r].pc = "insert" /\ res[r].target.key \notin overlap =>
                res[r].ttl = InForce(res[r].negative)
        /\ setting = "same" => ttl[1] = next_ttl[1]

IInv == Types /\ (\A r \in Resolvers : Fresh(res[r])) /\ TtlsFollow /\ SizeBounded

----------------------------------------------------------------------------
(***************************************************************************)
(* Sets of keys and of requests are finite.                                *)
(***************************************************************************)

LEMMA KeysFinite == IsFiniteSet(Keys)
<1>1. IsFiniteSet({t.key : t \in Targets})
  <2> DEFINE f == [t \in Targets |-> t.key]
  <2>1. f \in Surjection(Targets, {t.key : t \in Targets})
    BY DEF Surjection
  <2>2. QED
    BY <2>1, FS_Surjection, CacheAssumption
<1>2. QED
  BY <1>1 DEF Keys

LEMMA Finite ==
  /\ IsFiniteSet(Cached) /\ Cardinality(Cached) \in Nat
  /\ IsFiniteSet(Storing) /\ Cardinality(Storing) \in Nat
<1>1. Cached \in SUBSET Keys /\ Storing \in SUBSET Resolvers
  BY DEF Cached, Storing
<1>2. QED
  BY <1>1, KeysFinite, CacheAssumption, FS_Subset, FS_CardinalityType

----------------------------------------------------------------------------
(***************************************************************************)
(* The ends of a resolution.                                               *)
(***************************************************************************)

LEMMA IdleIsGood ==
  Idle \in Calls /\ Idle.pc = "idle" /\ Idle.at = 0 /\ GoodCall(Idle)
<1>1. /\ Idle \in Calls /\ Idle.pc = "idle" /\ Idle.at = 0 /\ Idle.result = << >>
  BY DEF Idle, Calls, Firsts, Seens, Pcs
<1>2. QED
  BY <1>1 DEF GoodCall, Holding

\* A call returns nothing, or an address its target permits.
LEMMA DoneIsGood ==
  ASSUME Types, NEW r \in Resolvers, NEW result \in Firsts, res[r].target \in Targets,
         result # << >> => permits(res[r].target, result[1])
  PROVE  LET n == Done(r, result)
         IN n \in Calls /\ n.pc \in {"idle", "done"} /\ n.at = 0 /\ GoodCall(n)
<1>1. CASE result = << >>
  BY <1>1, IdleIsGood DEF Done
<1>2. CASE result # << >>
  <2> DEFINE n == [Idle EXCEPT !.pc = "done", !.target = res[r].target, !.result = result]
  <2>1. Done(r, result) = n
    BY <1>2 DEF Done
  <2>2. /\ n \in Calls /\ n.pc = "done" /\ n.at = 0
        /\ n.target = res[r].target /\ n.result = result
    BY DEF Types, Calls, Idle, Firsts, Seens, Pcs
  <2> HIDE DEF n
  <2>3. GoodCall(n)
    BY <2>2 DEF GoodCall, Holding
  <2>4. QED
    BY <2>1, <2>2, <2>3
<1>3. QED
  BY <1>1, <1>2

\* What a store hands back is what the name service said.
LEMMA ResultIsGood ==
  ASSUME Types, NEW r \in Resolvers, res[r].pc \in Holding
  PROVE  /\ res[r].target \in Targets
         /\ Result(res[r]) \in Firsts
         /\ Result(res[r]) # << >> => permits(res[r].target, Result(res[r])[1])
<1>1. GoodCall(res[r]) /\ res[r] \in Calls
  BY DEF Types
<1>2. res[r].target \in Targets
  BY <1>1 DEF GoodCall, Holding
<1>3. CASE res[r].negative
  BY <1>2, <1>3 DEF Result, Firsts
<1>4. CASE ~res[r].negative
  <2>1. res[r].answer # << >> /\ permits(res[r].target, res[r].answer[1])
    BY <1>1, <1>4 DEF GoodCall
  <2>2. PICK a \in Answers : res[r].answer = <<a[1]>>
    BY <1>1, <2>1 DEF Calls, Firsts
  <2>3. Result(res[r]) = <<a[1]>> /\ res[r].answer[1] = a[1]
    BY <1>4, <2>2 DEF Result
  <2>4. QED
    BY <1>2, <2>1, <2>3 DEF Firsts
<1>5. QED
  BY <1>3, <1>4

LEMMA ResultDone ==
  ASSUME Types, NEW r \in Resolvers, res[r].pc \in Holding
  PROVE  LET n == Done(r, Result(res[r]))
         IN n \in Calls /\ n.pc \in {"idle", "done"} /\ n.at = 0 /\ GoodCall(n)
  BY ResultIsGood, DoneIsGood

----------------------------------------------------------------------------
(***************************************************************************)
(* The steps of a resolution.                                              *)
(***************************************************************************)

(* r goes on as n; the time, the TTLs and the history of set_ttl stay.     *)
CallStep(r, n) ==
    /\ res' = [res EXCEPT ![r] = n]
    /\ n \in Calls /\ GoodCall(n) /\ n.at <= now
    /\ UNCHANGED <<now, ttl, setting, next_ttl, overlap>>

(* How a step that is not Insert may change who is storing and what is missed. *)
Accounted(r, n) ==
    \/ res[r].pc \notin Evicting /\ n.pc \notin Evicting /\ missed' = missed
    \/ res[r].pc \in Evicting /\ n.pc \in Evicting /\ missed' = missed
    \/ n.pc \notin Evicting /\ Cardinality(Cached) <= Capacity /\ missed' = 0
    \/ n.pc \notin Evicting /\ TakeSoonest(r)

(* A step that is not Insert: entries of S are gone, the others untouched. *)
LocalStep(r, n, S) ==
    /\ CallStep(r, n)
    /\ cache' = Without(S) /\ missed' \in Nat
    /\ n.pc = "insert" => n.ttl = InForce(n.negative)
    /\ n.pc = "get" => /\ n.at = now
                       /\ n.target.key \in Cached => cache[n.target.key].expires > now
    /\ res[r].pc = "get" /\ n.pc \in {"done", "idle"} => res[r].target.key \in Cached
    /\ Accounted(r, n)

\* Taking nothing out is no change.
LEMMA WithoutNothing == Types => cache = Without({})
  BY DEF Types, Without

LEMMA BeginStep ==
  ASSUME Types, NEW r \in Resolvers, NEW t \in Targets, Begin(r, t)
  PROVE  \E n, S : LocalStep(r, n, S)
<1> DEFINE n == [Idle EXCEPT !.pc = "lookup", !.target = t]
<1>1. /\ res[r].pc = "idle" /\ now \in Nat /\ missed \in Nat
      /\ UNCHANGED <<now, cache, ttl, setting, next_ttl, overlap, missed>>
      /\ cache' = Without({})
  BY WithoutNothing DEF Begin, Step, Types
<1>2. CASE t.safe \/ t.skip
  <2>1. res' = [res EXCEPT ![r] = n]
    BY <1>2 DEF Begin, Step
  <2>2. n \in Calls /\ n.pc = "lookup" /\ n.target = t /\ n.at = 0 /\ n.result = << >>
    BY DEF Calls, Idle, Pcs, Firsts, Seens
  <2> HIDE DEF n
  <2>3. GoodCall(n)
    BY <2>2 DEF GoodCall, Holding
  <2>4. LocalStep(r, n, {})
    BY <1>1, <2>1, <2>2, <2>3 DEF LocalStep, CallStep, Accounted, Evicting
  <2>5. QED
    BY <2>4
<1>3. CASE ~(t.safe \/ t.skip)
  <2>1. res' = [res EXCEPT ![r] = Idle]
    BY <1>3 DEF Begin, Step
  <2>2. LocalStep(r, Idle, {})
    BY <1>1, <2>1, IdleIsGood DEF LocalStep, CallStep, Accounted, Evicting
  <2>3. QED
    BY <2>2
<1>4. QED
  BY <1>2, <1>3

LEMMA RemoveExpiredStep ==
  ASSUME Types, NEW r \in Resolvers, RemoveExpired(r)
  PROVE  \E n, S : LocalStep(r, n, S)
<1> DEFINE k == res[r].target.key
<1>1. /\ res[r].pc = "lookup" /\ now \in Nat /\ missed \in Nat /\ res[r] \in Calls
      /\ GoodCall(res[r]) /\ res[r].at <= now
      /\ UNCHANGED <<now, ttl, setting, next_ttl, overlap, missed>>
  BY DEF RemoveExpired, Types
<1>2. CASE k \in Cached /\ Expired(k, now)
  <2> DEFINE n == Go(r, "ask")
  <2>1. res' = [res EXCEPT ![r] = n] /\ cache' = Without({k})
    BY <1>2 DEF RemoveExpired, Step
  <2>2. /\ n \in Calls /\ n.pc = "ask" /\ n.target = res[r].target /\ n.at = res[r].at
        /\ n.result = res[r].result
    BY <1>1 DEF Go, Calls, Pcs
  <2> HIDE DEF n
  <2>3. GoodCall(n)
    BY <1>1, <2>2 DEF GoodCall, Holding
  <2>4. LocalStep(r, n, {k})
    BY <1>1, <2>1, <2>2, <2>3 DEF LocalStep, CallStep, Accounted, Evicting
  <2>5. QED
    BY <2>4
<1>3. CASE ~(k \in Cached /\ Expired(k, now))
  <2> DEFINE n == [Go(r, "get") EXCEPT !.at = now]
  <2>1. res' = [res EXCEPT ![r] = n] /\ cache' = Without({})
    BY <1>3, WithoutNothing DEF RemoveExpired, Step
  <2>2. /\ n \in Calls /\ n.pc = "get" /\ n.target = res[r].target /\ n.at = now
        /\ n.result = res[r].result
    BY <1>1 DEF Go, Calls, Pcs
  <2> HIDE DEF n
  <2>3. GoodCall(n)
    BY <1>1, <2>2 DEF GoodCall, Holding
  <2>4. n.target.key \in Cached => cache[n.target.key].expires > now
    <3>1. SUFFICES ASSUME k \in Cached PROVE cache[k].expires > now
      BY <2>2
    <3>2. cache[k] \in Entries
      BY <3>1 DEF Types, Cached
    <3>3. QED
      BY <1>1, <1>3, <3>1, <3>2 DEF Expired, Entries
  <2>5. LocalStep(r, n, {})
    BY <1>1, <2>1, <2>2, <2>3, <2>4 DEF LocalStep, CallStep, Accounted, Evicting
  <2>6. QED
    BY <2>5
<1>4. QED
  BY <1>2, <1>3

LEMMA GetStep ==
  ASSUME Types, NEW r \in Resolvers, Get(r)
  PROVE  \E n, S : LocalStep(r, n, S)
<1> DEFINE k == res[r].target.key
<1>1. /\ res[r].pc = "get" /\ now \in Nat /\ missed \in Nat /\ res[r] \in Calls
      /\ GoodCall(res[r]) /\ cache' = Without({}) /\ res[r].target \in Targets
      /\ UNCHANGED <<now, ttl, setting, next_ttl, overlap, missed>>
  BY WithoutNothing DEF Get, Types, GoodCall
<1>a. ASSUME NEW n, res' = [res EXCEPT ![r] = n], n \in Calls, GoodCall(n), n.at = 0,
             n.pc \in {"ask", "remove", "idle", "done"},
             n.pc \in {"idle", "done"} => k \in Cached
      PROVE  LocalStep(r, n, {})
  BY <1>1, <1>a DEF LocalStep, CallStep, Accounted, Evicting
<1>b. ASSUME NEW p \in {"ask", "remove"}
      PROVE  LET n == [Go(r, p) EXCEPT !.at = 0]
             IN n \in Calls /\ n.at = 0 /\ n.pc = p /\ GoodCall(n)
  <2> DEFINE n == [Go(r, p) EXCEPT !.at = 0]
  <2>1. /\ n \in Calls /\ n.pc = p /\ n.target = res[r].target /\ n.at = 0
        /\ n.result = res[r].result
    BY <1>1, <1>b DEF Go, Calls, Pcs
  <2> HIDE DEF n
  <2>2. GoodCall(n)
    BY <1>1, <1>b, <2>1 DEF GoodCall, Holding
  <2>3. QED
    BY <2>1, <2>2 DEF n
<1>2. CASE k \notin Cached
  <2>1. res' = [res EXCEPT ![r] = [Go(r, "ask") EXCEPT !.at = 0]]
    BY <1>2, Zenon DEF Get, Step
  <2>2. QED
    BY <2>1, <1>a, <1>b
<1>3. CASE k \in Cached /\ cache[k].negative
  <2>1. res' = [res EXCEPT ![r] = Done(r, << >>)]
    BY <1>3, Zenon DEF Get, Step
  <2>2. << >> \in Firsts
    BY DEF Firsts
  <2>3. QED
    BY <1>1, <1>3, <2>1, <2>2, <1>a, DoneIsGood
<1>4. CASE k \in Cached /\ ~cache[k].negative /\ permits(res[r].target, cache[k].addrs[1])
  <2> DEFINE result == <<cache[k].addrs[1]>>
  <2>1. res' = [res EXCEPT ![r] = Done(r, result)]
    BY <1>4, Zenon DEF Get, Step
  <2>2. cache[k] \in Entries /\ cache[k].addrs # << >>
    BY <1>4 DEF Types, Cached
  <2>3. PICK a \in Answers : cache[k].addrs = <<a[1]>>
    BY <2>2 DEF Entries, Firsts
  <2>4. result \in Firsts /\ result[1] = cache[k].addrs[1]
    BY <2>3 DEF Firsts
  <2> HIDE DEF result
  <2>5. QED
    BY <1>1, <1>4, <2>1, <2>4, <1>a, DoneIsGood
<1>5. CASE k \in Cached /\ ~cache[k].negative /\ ~permits(res[r].target, cache[k].addrs[1])
  <2>1. res' = [res EXCEPT ![r] = [Go(r, "remove") EXCEPT !.at = 0]]
    BY <1>5, Zenon DEF Get, Step
  <2>2. QED
    BY <2>1, <1>a, <1>b
<1>6. QED
  BY <1>2, <1>3, <1>4, <1>5

LEMMA RemoveStep ==
  ASSUME Types, NEW r \in Resolvers, remove(r)
  PROVE  \E n, S : LocalStep(r, n, S)
<1> DEFINE n == Go(r, "ask")
           S == {res[r].target.key}
<1>1. /\ res[r].pc = "remove" /\ now \in Nat /\ missed \in Nat /\ res[r] \in Calls
      /\ GoodCall(res[r]) /\ res[r].at <= now /\ cache' = Without(S)
      /\ res' = [res EXCEPT ![r] = n]
      /\ UNCHANGED <<now, ttl, setting, next_ttl, overlap, missed>>
  BY DEF remove, Step, Types
<1>2. /\ n \in Calls /\ n.pc = "ask" /\ n.target = res[r].target /\ n.at = res[r].at
      /\ n.result = res[r].result
  BY <1>1 DEF Go, Calls, Pcs
<1> HIDE DEF n, S
<1>3. GoodCall(n)
  BY <1>1, <1>2 DEF GoodCall, Holding
<1>4. LocalStep(r, n, S)
  BY <1>1, <1>2, <1>3 DEF LocalStep, CallStep, Accounted, Evicting
<1>5. QED
  BY <1>4

LEMMA AnswerStep ==
  ASSUME Types, NEW r \in Resolvers, Answer(r)
  PROVE  \E n, S : LocalStep(r, n, S)
<1> DEFINE t == res[r].target
           Keep(answer, negative) == [res[r] EXCEPT !.pc = "load", !.answer = answer,
                                                    !.negative = negative]
<1>1. /\ res[r].pc = "ask" /\ now \in Nat /\ missed \in Nat /\ res[r] \in Calls
      /\ GoodCall(res[r]) /\ res[r].at <= now /\ cache' = Without({}) /\ t \in Targets
      /\ UNCHANGED <<now, ttl, setting, next_ttl, overlap, missed>>
  <2>1. /\ res[r].pc = "ask"
        /\ UNCHANGED <<now, cache, ttl, setting, next_ttl, overlap, missed>>
    BY Zenon DEF Answer, Step
  <2>2. QED
    BY <2>1, WithoutNothing DEF Types, GoodCall
<1>2. << >> \in Firsts
  BY DEF Firsts
<1>a. ASSUME NEW n, res' = [res EXCEPT ![r] = n], n \in Calls, GoodCall(n), n.at <= now,
             n.pc \in {"idle", "done", "load"}
      PROVE  LocalStep(r, n, {})
  BY <1>1, <1>a DEF LocalStep, CallStep, Accounted, Evicting
<1>b. ASSUME NEW answer \in Firsts, NEW negative \in BOOLEAN,
             IF negative THEN answer = << >> ELSE answer # << >> /\ permits(t, answer[1])
      PROVE  LET n == Keep(answer, negative)
             IN n \in Calls /\ GoodCall(n) /\ n.at <= now /\ n.pc = "load"
  <2> DEFINE n == Keep(answer, negative)
  <2>1. /\ n \in Calls /\ n.pc = "load" /\ n.target = t /\ n.at = res[r].at
        /\ n.result = res[r].result /\ n.answer = answer /\ n.negative = negative
    BY <1>1, <1>b DEF Calls, Pcs
  <2> HIDE DEF n
  <2>2. GoodCall(n)
    BY <1>1, <1>b, <2>1 DEF GoodCall, Holding
  <2>3. QED
    BY <1>1, <2>1, <2>2 DEF n
<1>3. CASE res' = [res EXCEPT ![r] = Done(r, << >>)]
  <2> DEFINE n == Done(r, << >>)
  <2>1. n \in Calls /\ n.pc \in {"idle", "done"} /\ n.at = 0 /\ GoodCall(n)
    BY <1>1, <1>2, DoneIsGood
  <2>2. n.at <= now /\ n.pc \in {"idle", "done", "load"}
    BY <1>1, <2>1
  <2> HIDE DEF n
  <2>3. res' = [res EXCEPT ![r] = n]
    BY <1>3 DEF n
  <2>4. LocalStep(r, n, {})
    BY <1>a, <2>1, <2>2, <2>3
  <2>5. QED
    BY <2>4
<1>4. CASE res' = [res EXCEPT ![r] = Keep(<< >>, TRUE)]
  <2> DEFINE n == Keep(<< >>, TRUE)
  <2>1. n \in Calls /\ GoodCall(n) /\ n.at <= now /\ n.pc = "load"
    BY <1>2, <1>b
  <2> HIDE DEF n
  <2>2. res' = [res EXCEPT ![r] = n]
    BY <1>4, Zenon DEF n
  <2>3. LocalStep(r, n, {})
    BY <1>a, <2>1, <2>2
  <2>4. QED
    BY <2>3
<1>5. ASSUME NEW addrs \in Answers, permits(t, addrs[1]),
             res' = [res EXCEPT ![r] = Keep(<<addrs[1]>>, FALSE)]
      PROVE  \E n, S : LocalStep(r, n, S)
  <2> DEFINE answer == <<addrs[1]>>
  <2>1. answer \in Firsts /\ answer # << >> /\ permits(t, answer[1])
    BY <1>5 DEF Firsts
  <2> HIDE DEF answer
  <2> DEFINE n == Keep(answer, FALSE)
  <2>2. n \in Calls /\ GoodCall(n) /\ n.at <= now /\ n.pc = "load"
    BY <2>1, <1>b
  <2> HIDE DEF n
  <2>3. res' = [res EXCEPT ![r] = n]
    BY <1>5, Zenon DEF n, answer
  <2>4. LocalStep(r, n, {})
    BY <1>a, <2>2, <2>3
  <2>5. QED
    BY <2>4
<1>6. \/ res' = [res EXCEPT ![r] = Done(r, << >>)]
      \/ res' = [res EXCEPT ![r] = Keep(<< >>, TRUE)]
      \/ \E addrs \in Answers :
            permits(t, addrs[1]) /\ res' = [res EXCEPT ![r] = Keep(<<addrs[1]>>, FALSE)]
  BY Zenon DEF Answer, Step
<1>7. QED
  BY <1>3, <1>4, <1>5, <1>6

LEMMA LoadTtlStep ==
  ASSUME Types, NEW r \in Resolvers, LoadTtl(r)
  PROVE  \E n, S : LocalStep(r, n, S)
<1> DEFINE secs == InForce(res[r].negative)
           m == Done(r, Result(res[r]))
           n == [res[r] EXCEPT !.pc = "insert", !.ttl = secs, !.at = now]
<1>1. /\ res[r].pc = "load" /\ now \in Nat /\ missed \in Nat /\ res[r] \in Calls
      /\ GoodCall(res[r]) /\ res[r].at <= now /\ cache' = Without({}) /\ secs \in Nat
      /\ UNCHANGED <<now, ttl, setting, next_ttl, overlap, missed>>
  BY WithoutNothing DEF LoadTtl, Step, Types, InForce
<1>2. CASE secs = 0
  <2>1. res' = [res EXCEPT ![r] = m]
    BY <1>2, Zenon DEF LoadTtl, Step, InForce
  <2>2. m \in Calls /\ m.pc \in {"idle", "done"} /\ m.at = 0 /\ GoodCall(m)
    BY <1>1, ResultDone DEF Holding
  <2> HIDE DEF m
  <2>3. LocalStep(r, m, {})
    BY <1>1, <2>1, <2>2 DEF LocalStep, CallStep, Accounted, Evicting
  <2>4. QED
    BY <2>3
<1>3. CASE secs # 0
  <2>1. res' = [res EXCEPT ![r] = n]
    BY <1>3, Zenon DEF LoadTtl, Step, InForce
  <2> HIDE DEF secs
  <2>2. /\ n \in Calls /\ n.pc = "insert" /\ n.target = res[r].target /\ n.at = now
        /\ n.result = res[r].result /\ n.answer = res[r].answer /\ n.ttl = secs
        /\ n.negative = res[r].negative
    BY <1>1 DEF Calls, Pcs
  <2> HIDE DEF n
  <2>3. GoodCall(n)
    BY <1>1, <1>3, <2>2 DEF GoodCall, Holding
  <2>4. LocalStep(r, n, {})
    BY <1>1, <2>1, <2>2, <2>3 DEF LocalStep, CallStep, Accounted, Evicting, secs
  <2>5. QED
    BY <2>4
<1>4. QED
  BY <1>2, <1>3

LEMMA CollectExpiredStep ==
  ASSUME Types, NEW r \in Resolvers, CollectExpired(r)
  PROVE  \E n, S : LocalStep(r, n, S)
<1> DEFINE X == {k \in Cached : Expired(k, res[r].at)}
           m == Done(r, Result(res[r]))
           n == [res[r] EXCEPT !.pc = "expired", !.at = 0, !.seen = <<X>>]
<1>1. /\ res[r].pc = "full" /\ now \in Nat /\ missed \in Nat /\ res[r] \in Calls
      /\ GoodCall(res[r]) /\ res[r].at <= now /\ cache' = Without({})
      /\ missed' = IF Cardinality(Cached) <= Capacity THEN 0 ELSE missed
      /\ UNCHANGED <<now, ttl, setting, next_ttl, overlap>>
  BY WithoutNothing DEF CollectExpired, Step, Types
<1>2. CASE Cardinality(Cached) <= Capacity
  <2>1. res' = [res EXCEPT ![r] = m]
    BY <1>2, Zenon DEF CollectExpired, Step
  <2>2. m \in Calls /\ m.pc \in {"idle", "done"} /\ m.at = 0 /\ GoodCall(m)
    BY <1>1, ResultDone DEF Holding
  <2> HIDE DEF m
  <2>3. LocalStep(r, m, {})
    BY <1>1, <1>2, <2>1, <2>2 DEF LocalStep, CallStep, Accounted, Evicting
  <2>4. QED
    BY <2>3
<1>3. CASE ~(Cardinality(Cached) <= Capacity)
  <2>1. res' = [res EXCEPT ![r] = n]
    BY <1>3, Zenon DEF CollectExpired, Step
  <2>2. X \in SUBSET Keys
    BY DEF Cached
  <2> HIDE DEF X
  <2>3. /\ n \in Calls /\ n.pc = "expired" /\ n.target = res[r].target /\ n.at = 0
        /\ n.result = res[r].result /\ n.answer = res[r].answer
        /\ n.negative = res[r].negative
    BY <1>1, <2>2 DEF Calls, Pcs, Seens
  <2> HIDE DEF n
  <2>4. GoodCall(n)
    BY <1>1, <2>3 DEF GoodCall, Holding
  <2>5. LocalStep(r, n, {})
    BY <1>1, <1>3, <2>1, <2>3, <2>4 DEF LocalStep, CallStep, Accounted, Evicting
  <2>6. QED
    BY <2>5
<1>4. QED
  BY <1>2, <1>3

LEMMA RemoveCollectedStep ==
  ASSUME Types, NEW r \in Resolvers, RemoveCollected(r)
  PROVE  \E n, S : LocalStep(r, n, S)
<1> DEFINE S == res[r].seen[1]
           n == [res[r] EXCEPT !.pc = "still_full", !.seen = << >>]
<1>1. /\ res[r].pc = "expired" /\ now \in Nat /\ missed \in Nat /\ res[r] \in Calls
      /\ GoodCall(res[r]) /\ res[r].at <= now /\ cache' = Without(S)
      /\ res' = [res EXCEPT ![r] = n]
      /\ UNCHANGED <<now, ttl, setting, next_ttl, overlap, missed>>
  BY DEF RemoveCollected, Step, Types
<1> HIDE DEF S
<1>2. /\ n \in Calls /\ n.pc = "still_full" /\ n.target = res[r].target
      /\ n.at = res[r].at /\ n.result = res[r].result /\ n.answer = res[r].answer
      /\ n.negative = res[r].negative
  BY <1>1 DEF Calls, Pcs, Seens
<1> HIDE DEF n
<1>3. GoodCall(n)
  BY <1>1, <1>2 DEF GoodCall, Holding
<1>4. LocalStep(r, n, S)
  BY <1>1, <1>2, <1>3 DEF LocalStep, CallStep, Accounted, Evicting
<1>5. QED
  BY <1>4

LEMMA SnapshotStep ==
  ASSUME Types, NEW r \in Resolvers, Snapshot(r)
  PROVE  \E n, S : LocalStep(r, n, S)
<1> DEFINE f == [k \in Cached |-> cache[k].expires]
           m == Done(r, Result(res[r]))
           n == [res[r] EXCEPT !.pc = "evict", !.seen = <<f>>]
<1>1. /\ res[r].pc = "still_full" /\ now \in Nat /\ missed \in Nat /\ res[r] \in Calls
      /\ GoodCall(res[r]) /\ res[r].at <= now /\ cache' = Without({})
      /\ missed' = IF Cardinality(Cached) <= Capacity THEN 0 ELSE missed
      /\ UNCHANGED <<now, ttl, setting, next_ttl, overlap>>
  BY WithoutNothing DEF Snapshot, Step, Types
<1>2. CASE Cardinality(Cached) <= Capacity
  <2>1. res' = [res EXCEPT ![r] = m]
    BY <1>2, Zenon DEF Snapshot, Step
  <2>2. m \in Calls /\ m.pc \in {"idle", "done"} /\ m.at = 0 /\ GoodCall(m)
    BY <1>1, ResultDone DEF Holding
  <2> HIDE DEF m
  <2>3. LocalStep(r, m, {})
    BY <1>1, <1>2, <2>1, <2>2 DEF LocalStep, CallStep, Accounted, Evicting
  <2>4. QED
    BY <2>3
<1>3. CASE ~(Cardinality(Cached) <= Capacity)
  <2>1. res' = [res EXCEPT ![r] = n]
    BY <1>3, Zenon DEF Snapshot, Step
  <2>2. Cached \in SUBSET Keys /\ Cached # {}
    <3>1. Cached # {}
      BY <1>3, FS_EmptySet, CacheAssumption
    <3>2. QED
      BY <3>1 DEF Cached
  <2>3. f \in [Cached -> Nat]
    <3>1. \A k \in Cached : cache[k] \in Entries
      BY DEF Cached, Types
    <3>2. QED
      BY <3>1 DEF Entries
  <2>4. <<f>> \in Seens /\ DOMAIN f = Cached
    BY <2>2, <2>3 DEF Seens
  <2> HIDE DEF f
  <2>5. /\ n \in Calls /\ n.pc = "evict" /\ n.target = res[r].target /\ n.at = res[r].at
        /\ n.result = res[r].result /\ n.answer = res[r].answer
        /\ n.negative = res[r].negative /\ n.seen = <<f>>
    BY <1>1, <2>4 DEF Calls, Pcs
  <2> HIDE DEF n
  <2>6. DOMAIN n.seen[1] = Cached
    BY <2>4, <2>5
  <2>7. GoodCall(n)
    BY <1>1, <2>2, <2>5, <2>6 DEF GoodCall, Holding
  <2>8. LocalStep(r, n, {})
    BY <1>1, <1>3, <2>1, <2>5, <2>7 DEF LocalStep, CallStep, Accounted, Evicting
  <2>9. QED
    BY <2>8
<1>4. QED
  BY <1>2, <1>3

\* The victims of an eviction, and how many of them were gone.
LEMMA Victims ==
  ASSUME Types, NEW r \in Resolvers, TakeSoonest(r)
  PROVE  LET D == DOMAIN res[r].seen[1]
             surplus == Cardinality(Cached) - Capacity
         IN \E V \in SUBSET Keys :
              /\ cache' = Without(V) /\ IsFiniteSet(V) /\ Gone(V) \in Nat
              /\ Cardinality(D) \in Nat /\ Cardinality(D) > 0
              /\ Cardinality(V) = IF surplus \in 0 .. Cardinality(D) THEN surplus
                                  ELSE Cardinality(D)
              /\ missed' = CASE surplus < 0 -> 0
                             [] surplus > Cardinality(D) -> missed + Gone(V)
                             [] OTHER -> Gone(V)
<1> DEFINE D == DOMAIN res[r].seen[1]
           surplus == Cardinality(Cached) - Capacity
<1>1. D \subseteq Keys /\ D # {}
  BY DEF Types, GoodCall, TakeSoonest
<1>2. Cardinality(D) \in Nat /\ Cardinality(D) > 0
  <2>1. IsFiniteSet(D) /\ Cardinality(D) \in Nat
    BY <1>1, KeysFinite, FS_Subset, FS_CardinalityType
  <2>2. Cardinality(D) # 0
    BY <1>1, <2>1, FS_EmptySet
  <2>3. QED
    BY <2>1, <2>2
<1>3. PICK V \in SUBSET D :
        /\ Cardinality(V) = IF surplus \in 0 .. Cardinality(D) THEN surplus
                            ELSE Cardinality(D)
        /\ cache' = Without(V)
        /\ missed' = CASE surplus < 0 -> 0
                       [] surplus > Cardinality(D) -> missed + Gone(V)
                       [] OTHER -> Gone(V)
  BY Zenon DEF TakeSoonest
<1>4. V \in SUBSET Keys /\ IsFiniteSet(V)
  BY <1>1, <1>3, KeysFinite, FS_Subset
<1>5. Gone(V) \in Nat
  BY <1>4, FS_Difference, FS_CardinalityType DEF Gone
<1>6. QED
  BY <1>2, <1>3, <1>4, <1>5

LEMMA TakeSoonestStep ==
  ASSUME Types, NEW r \in Resolvers, TakeSoonest(r)
  PROVE  \E n, S : LocalStep(r, n, S)
<1> DEFINE n == Done(r, Result(res[r]))
<1>1. /\ res[r].pc = "evict" /\ now \in Nat /\ res' = [res EXCEPT ![r] = n]
      /\ UNCHANGED <<now, ttl, setting, next_ttl, overlap>>
  BY DEF TakeSoonest, Step, Types
<1>2. n \in Calls /\ n.pc \in {"idle", "done"} /\ n.at = 0 /\ GoodCall(n)
  BY <1>1, ResultDone DEF Holding
<1>3. PICK V : cache' = Without(V) /\ missed' \in Nat
  <2> DEFINE D == DOMAIN res[r].seen[1]
             surplus == Cardinality(Cached) - Capacity
  <2>1. PICK V \in SUBSET Keys :
          /\ cache' = Without(V) /\ Gone(V) \in Nat /\ Cardinality(D) \in Nat
          /\ missed' = CASE surplus < 0 -> 0
                         [] surplus > Cardinality(D) -> missed + Gone(V)
                         [] OTHER -> Gone(V)
    BY Victims
  <2>2. surplus \in Int /\ missed \in Nat
    BY Finite, CacheAssumption DEF Types
  <2> HIDE DEF D, surplus
  <2>3. missed' \in Nat
    BY <2>1, <2>2
  <2>4. QED
    BY <2>1, <2>3
<1> HIDE DEF n
<1>4. LocalStep(r, n, V)
  BY <1>1, <1>2, <1>3 DEF LocalStep, CallStep, Accounted, Evicting
<1>5. QED
  BY <1>4

LEMMA ReturnStep ==
  ASSUME Types, NEW r \in Resolvers, Return(r)
  PROVE  \E n, S : LocalStep(r, n, S)
<1>1. /\ res[r].pc = "done" /\ now \in Nat /\ missed \in Nat /\ cache' = Without({})
      /\ res' = [res EXCEPT ![r] = Idle]
      /\ UNCHANGED <<now, ttl, setting, next_ttl, overlap, missed>>
  BY WithoutNothing DEF Return, Step, Types
<1>2. LocalStep(r, Idle, {})
  BY <1>1, IdleIsGood DEF LocalStep, CallStep, Accounted, Evicting
<1>3. QED
  BY <1>2

(* The steps of a request that take entries out of the map, or leave it. *)
Removing(r) ==
    \/ \E t \in Targets : Begin(r, t)
    \/ RemoveExpired(r) \/ Get(r) \/ remove(r) \/ Answer(r)
    \/ LoadTtl(r) \/ CollectExpired(r) \/ RemoveCollected(r)
    \/ Snapshot(r) \/ TakeSoonest(r) \/ Return(r)

LEMMA RemovingIsLocal ==
  ASSUME Types, NEW r \in Resolvers, Removing(r)
  PROVE  \E n, S : LocalStep(r, n, S)
  BY BeginStep, RemoveExpiredStep, GetStep, RemoveStep, AnswerStep, LoadTtlStep,
     CollectExpiredStep, RemoveCollectedStep, SnapshotStep, TakeSoonestStep, ReturnStep
     DEF Removing

(* The entry a store makes. *)
Stored(r) == [addrs |-> res[r].answer, expires |-> res[r].at + res[r].ttl,
              negative |-> res[r].negative, ttl |-> res[r].ttl, stored |-> now]

LEMMA InsertStep ==
  ASSUME Types, NEW r \in Resolvers, Insert(r)
  PROVE  LET k == res[r].target.key
             e == Stored(r)
         IN \E n : /\ CallStep(r, n) /\ n.pc = "full"
                   /\ res[r].pc = "insert" /\ k \in Keys /\ missed' = missed
                   /\ cache' = [cache EXCEPT ![k] = e]
                   /\ e \in Entries /\ (e.negative <=> e.addrs = << >>)
                   /\ e.ttl = res[r].ttl /\ e.stored = now
                   /\ e.negative = res[r].negative
<1> DEFINE k == res[r].target.key
           e == Stored(r)
           n == [Go(r, "full") EXCEPT !.ttl = 0]
<1>1. /\ res[r].pc = "insert" /\ now \in Nat /\ missed \in Nat /\ res[r] \in Calls
      /\ GoodCall(res[r]) /\ res[r].at <= now
  BY DEF Insert, Step, Types
<1>2. /\ res' = [res EXCEPT ![r] = n]
      /\ UNCHANGED <<now, ttl, setting, next_ttl, overlap, missed>>
      /\ cache' = [cache EXCEPT ![k] = e]
  BY Zenon DEF Insert, Step, Stored
<1>3. /\ n \in Calls /\ n.pc = "full" /\ n.target = res[r].target /\ n.at = res[r].at
      /\ n.result = res[r].result /\ n.answer = res[r].answer
      /\ n.negative = res[r].negative
  BY <1>1 DEF Go, Calls, Pcs
<1>4. /\ e \in Entries /\ e.ttl = res[r].ttl /\ e.stored = now
      /\ e.negative = res[r].negative /\ e.addrs = res[r].answer
  BY <1>1 DEF Stored, Calls, Entries, GoodCall
<1> HIDE DEF n, e
<1>5. GoodCall(n)
  BY <1>1, <1>3 DEF GoodCall, Holding
<1>6. e.negative <=> e.addrs = << >>
  BY <1>1, <1>4 DEF GoodCall, Holding
<1>7. k \in Keys
  BY <1>1 DEF GoodCall, Keys
<1>8. QED
  BY <1>1, <1>2, <1>3, <1>4, <1>5, <1>6, <1>7 DEF CallStep, e

----------------------------------------------------------------------------
(***************************************************************************)
(* What the changes of the map and of a call amount to.                    *)
(***************************************************************************)

LEMMA WithoutEffect ==
  ASSUME Types, NEW S, cache' = Without(S)
  PROVE  /\ cache' \in [Keys -> Entries \cup {NoEntry}]
         /\ Cached' = Cached \ S
         /\ \A k \in Cached' : cache'[k] = cache[k]
<1>1. cache \in [Keys -> Entries \cup {NoEntry}]
  BY DEF Types
<1>2. QED
  BY <1>1 DEF Without, Cached

LEMMA InsertEffect ==
  ASSUME Types, NEW k \in Keys, NEW e \in Entries, cache' = [cache EXCEPT ![k] = e]
  PROVE  /\ cache' \in [Keys -> Entries \cup {NoEntry}]
         /\ Cached' \subseteq Cached \cup {k}
         /\ \A j \in Cached' : j # k => j \in Cached /\ cache'[j] = cache[j]
         /\ cache'[k] = e
<1>1. cache \in [Keys -> Entries \cup {NoEntry}]
  BY DEF Types
<1>2. QED
  BY <1>1 DEF Cached

LEMMA CallEffect ==
  ASSUME Types, NEW r \in Resolvers, NEW n, CallStep(r, n)
  PROVE  /\ res'[r] = n /\ \A o \in Resolvers : o # r => res'[o] = res[o]
         /\ res' \in [Resolvers -> Calls]
         /\ \A o \in Resolvers : GoodCall(res'[o]) /\ res'[o].at <= now'
         /\ r \in Storing <=> res[r].pc \in Evicting
         /\ Storing' = IF n.pc \in Evicting THEN Storing \cup {r} ELSE Storing \ {r}
<1>1. res \in [Resolvers -> Calls] /\ \A o \in Resolvers : GoodCall(res[o]) /\ res[o].at <= now
  BY DEF Types
<1>2. /\ res'[r] = n /\ \A o \in Resolvers : o # r => res'[o] = res[o]
      /\ res' \in [Resolvers -> Calls]
  BY <1>1 DEF CallStep
<1>3. \A o \in Resolvers : GoodCall(res'[o]) /\ res'[o].at <= now'
  BY <1>1, <1>2 DEF CallStep
<1>4. r \in Storing <=> res[r].pc \in Evicting
  BY DEF Storing, Evicting
<1>5. Storing' = IF n.pc \in Evicting THEN Storing \cup {r} ELSE Storing \ {r}
  BY <1>2 DEF Storing, Evicting
<1>6. QED
  BY <1>2, <1>3, <1>4, <1>5

LEMMA TypesLocal ==
  ASSUME Types, NEW r \in Resolvers, NEW n, NEW S, LocalStep(r, n, S)
  PROVE  Types'
<1>1. CallStep(r, n) /\ cache' = Without(S) /\ missed' \in Nat
      /\ UNCHANGED <<now, ttl, setting, next_ttl, overlap>>
  BY DEF LocalStep, CallStep
<1>2. /\ cache' \in [Keys -> Entries \cup {NoEntry}]
      /\ \A k \in Cached' : k \in Cached /\ cache'[k] = cache[k]
  BY <1>1, WithoutEffect
<1>3. /\ res' \in [Resolvers -> Calls]
      /\ \A o \in Resolvers : GoodCall(res'[o]) /\ res'[o].at <= now'
  BY <1>1, CallEffect
<1>4. \A k \in Cached' : cache'[k].negative <=> cache'[k].addrs = << >>
  BY <1>2 DEF Types
<1>5. QED
  BY <1>1, <1>2, <1>3, <1>4 DEF Types

LEMMA TypesInsert ==
  ASSUME Types, NEW r \in Resolvers, Insert(r)
  PROVE  Types'
<1> DEFINE k == res[r].target.key
           e == Stored(r)
<1>1. PICK n : /\ CallStep(r, n) /\ k \in Keys /\ missed' = missed
               /\ cache' = [cache EXCEPT ![k] = e]
               /\ e \in Entries /\ (e.negative <=> e.addrs = << >>)
  BY InsertStep
<1> HIDE DEF k, e
<1>2. UNCHANGED <<now, ttl, setting, next_ttl, overlap>>
  BY <1>1 DEF CallStep
<1>3. /\ cache' \in [Keys -> Entries \cup {NoEntry}]
      /\ \A j \in Cached' : j # k => j \in Cached /\ cache'[j] = cache[j]
      /\ cache'[k] = e
  BY <1>1, InsertEffect
<1>4. /\ res' \in [Resolvers -> Calls]
      /\ \A o \in Resolvers : GoodCall(res'[o]) /\ res'[o].at <= now'
  BY <1>1, CallEffect
<1>5. \A j \in Cached' : cache'[j].negative <=> cache'[j].addrs = << >>
  <2> SUFFICES ASSUME NEW j \in Cached' PROVE cache'[j].negative <=> cache'[j].addrs = << >>
    OBVIOUS
  <2>1. CASE j = k
    BY <1>1, <1>3, <2>1
  <2>2. CASE j # k
    BY <1>3, <2>2 DEF Types
  <2>3. QED
    BY <2>1, <2>2
<1>6. QED
  BY <1>1, <1>2, <1>3, <1>4, <1>5 DEF Types

\* The clock and set_ttl.
LEMMA TypesOther ==
  ASSUME Types, Tick \/ (\E pair \in Ttls : SetTtl(pair)) \/ SwapNegative \/ Clear
                \/ UNCHANGED vars
  PROVE  Types'
<1>0. /\ now \in Nat /\ MaxTime \in Nat /\ ttl \in Nat \X Nat /\ next_ttl \in Nat \X Nat
      /\ \A r \in Resolvers : res[r] \in Calls /\ res[r].at \in Nat /\ res[r].at <= now
  BY CacheAssumption DEF Types, Calls
<1>1. CASE Tick
  <2>1. now' \in 0 .. MaxTime /\ \A r \in Resolvers : res'[r].at <= now'
    BY <1>0, <1>1 DEF Tick
  <2>2. UNCHANGED <<cache, ttl, setting, next_ttl, res, overlap, missed>>
    BY <1>1 DEF Tick
  <2>3. QED
    BY <2>1, <2>2 DEF Types, Cached
<1>2. CASE \E pair \in Ttls : SetTtl(pair)
  <2>1. PICK pair \in Ttls : SetTtl(pair)
    BY <1>2
  <2>2. pair \in Nat \X Nat
    BY CacheAssumption
  <2>3. ttl' \in Nat \X Nat /\ next_ttl' \in Ttls
        /\ setting' \in {"no", "changed", "same", "clear"}
    BY <1>0, <2>1, <2>2 DEF SetTtl
  <2>4. UNCHANGED <<now, cache, res, overlap, missed>>
    BY <2>1 DEF SetTtl
  <2>5. QED
    BY <2>3, <2>4 DEF Types, Cached
<1>3. CASE SwapNegative
  <2>1. ttl' \in Nat \X Nat /\ setting' \in {"no", "changed", "same", "clear"}
    BY <1>0, <1>3 DEF SwapNegative
  <2>2. UNCHANGED <<now, cache, next_ttl, res, overlap, missed>>
    BY <1>3 DEF SwapNegative
  <2>3. QED
    BY <2>1, <2>2 DEF Types, Cached
<1>4. CASE Clear
  <2>1. cache' = Without(Keys) /\ setting' = "no"
        /\ UNCHANGED <<now, ttl, next_ttl, res, missed>>
    BY <1>4 DEF Clear
  <2>2. cache' \in [Keys -> Entries \cup {NoEntry}] /\ Cached' = {}
    BY <2>1, WithoutEffect DEF Cached
  <2>3. overlap' \subseteq Keys
    <3>1. \A r \in Resolvers : res[r].pc = "insert" => res[r].target.key \in Keys
      BY DEF Types, GoodCall, Keys
    <3>2. QED
      BY <1>4, <3>1 DEF Clear, Types
  <2>4. QED
    BY <2>1, <2>2, <2>3 DEF Types
<1>5. CASE UNCHANGED vars
  BY <1>5 DEF vars, Types, Cached
<1>6. QED
  BY <1>1, <1>2, <1>3, <1>4, <1>5

----------------------------------------------------------------------------
(***************************************************************************)
(* No late answers.                                                        *)
(***************************************************************************)
AllFresh == \A r \in Resolvers : Fresh(res[r])

LEMMA FreshLocal ==
  ASSUME Types, AllFresh, NEW r \in Resolvers, NEW n, NEW S, LocalStep(r, n, S)
  PROVE  AllFresh'
<1>1. /\ CallStep(r, n) /\ cache' = Without(S)
      /\ n.pc = "get" => /\ n.at = now
                         /\ n.target.key \in Cached => cache[n.target.key].expires > now
  BY DEF LocalStep
<1>2. \A k \in Cached' : k \in Cached /\ cache'[k] = cache[k]
  BY <1>1, WithoutEffect
<1>3. res'[r] = n /\ \A o \in Resolvers : o # r => res'[o] = res[o]
  BY <1>1, CallEffect
<1>4. ASSUME NEW o \in Resolvers PROVE Fresh(res[o])'
  <2>1. CASE o = r
    <3>1. SUFFICES ASSUME n.pc = "get", n.target.key \in Cached'
                   PROVE  cache'[n.target.key].expires > n.at
      BY <1>3, <2>1 DEF Fresh
    <3>2. n.target.key \in Cached /\ cache'[n.target.key] = cache[n.target.key]
      BY <1>2, <3>1
    <3>3. n.at = now /\ cache[n.target.key].expires > now
      BY <1>1, <3>1, <3>2
    <3>4. QED
      BY <3>2, <3>3
  <2>2. CASE o # r
    BY <1>2, <1>3, <2>2 DEF Fresh, AllFresh
  <2>3. QED
    BY <2>1, <2>2
<1>5. QED
  BY <1>4 DEF AllFresh

\* An entry that is put into the map under a lookup was stored since.
LEMMA FreshInsert ==
  ASSUME Types, AllFresh, NEW r \in Resolvers, Insert(r)
  PROVE  AllFresh'
<1> DEFINE k == res[r].target.key
           e == Stored(r)
<1>1. PICK n : /\ CallStep(r, n) /\ n.pc = "full" /\ k \in Keys
               /\ cache' = [cache EXCEPT ![k] = e]
               /\ e \in Entries /\ e.stored = now
  BY InsertStep
<1> HIDE DEF k, e
<1>2. /\ \A j \in Cached' : j # k => j \in Cached /\ cache'[j] = cache[j]
      /\ cache'[k] = e
  BY <1>1, InsertEffect
<1>3. res'[r] = n /\ \A o \in Resolvers : o # r => res'[o] = res[o]
  BY <1>1, CallEffect
<1>4. ASSUME NEW o \in Resolvers PROVE Fresh(res[o])'
  <2>1. CASE o = r
    BY <1>1, <1>3, <2>1 DEF Fresh
  <2>2. CASE o # r /\ res[o].target.key = k
    <3>1. res[o].at \in Nat /\ res[o].at <= now /\ now \in Nat
      BY DEF Types, Calls
    <3>2. cache'[res'[o].target.key].stored >= res'[o].at
      BY <1>1, <1>2, <1>3, <2>2, <3>1
    <3>3. QED
      BY <3>2 DEF Fresh
  <2>3. CASE o # r /\ res[o].target.key # k
    BY <1>2, <1>3, <2>3 DEF Fresh, AllFresh
  <2>4. QED
    BY <2>1, <2>2, <2>3
<1>5. QED
  BY <1>4 DEF AllFresh

LEMMA FreshOther ==
  ASSUME Types, AllFresh,
         Tick \/ (\E pair \in Ttls : SetTtl(pair)) \/ SwapNegative \/ Clear
             \/ UNCHANGED vars
  PROVE  AllFresh'
<1>1. CASE cache' = cache /\ res' = res
  BY <1>1 DEF AllFresh, Fresh, Cached
<1>2. CASE Clear
  <2>1. Cached' = {}
    BY <1>2, WithoutEffect DEF Clear, Cached
  <2>2. QED
    BY <2>1 DEF AllFresh, Fresh
<1>3. QED
  BY <1>1, <1>2 DEF Tick, SetTtl, SwapNegative, vars

----------------------------------------------------------------------------
(***************************************************************************)
(* Changed TTLs take effect.                                               *)
(***************************************************************************)

LEMMA TtlLocal ==
  ASSUME Types, TtlsFollow, NEW r \in Resolvers, NEW n, NEW S, LocalStep(r, n, S)
  PROVE  TtlsFollow'
<1>1. /\ CallStep(r, n) /\ cache' = Without(S)
      /\ n.pc = "insert" => n.ttl = InForce(n.negative)
      /\ UNCHANGED <<ttl, setting, next_ttl, overlap>>
  BY DEF LocalStep, CallStep
<1>2. \A k \in Cached' : k \in Cached /\ cache'[k] = cache[k]
  BY <1>1, WithoutEffect
<1>3. res'[r] = n /\ \A o \in Resolvers : o # r => res'[o] = res[o]
  BY <1>1, CallEffect
<1> SUFFICES ASSUME setting' \in {"no", "same"}
             PROVE  /\ \A k \in Cached' \ overlap' : cache'[k].ttl = InForce(cache[k].negative)'
                    /\ \A o \in Resolvers :
                          res'[o].pc = "insert" /\ res'[o].target.key \notin overlap' =>
                              res'[o].ttl = InForce(res[o].negative)'
                    /\ setting' = "same" => ttl'[1] = next_ttl'[1]
  BY DEF TtlsFollow
<1>4. setting \in {"no", "same"}
  BY <1>1
<1>5. ASSUME NEW k \in Cached' \ overlap' PROVE cache'[k].ttl = InForce(cache[k].negative)'
  <2>1. cache[k].ttl = InForce(cache[k].negative)
    BY <1>1, <1>2, <1>4, <1>5 DEF TtlsFollow
  <2>2. QED
    BY <1>1, <1>2, <1>5, <2>1 DEF InForce
<1>6. ASSUME NEW o \in Resolvers, res'[o].pc = "insert", res'[o].target.key \notin overlap'
      PROVE  res'[o].ttl = InForce(res[o].negative)'
  <2>1. CASE o = r
    BY <1>1, <1>3, <1>6, <2>1 DEF InForce
  <2>2. CASE o # r
    <3>1. res[o].ttl = InForce(res[o].negative)
      BY <1>1, <1>3, <1>4, <1>6, <2>2 DEF TtlsFollow
    <3>2. QED
      BY <1>1, <1>3, <2>2, <3>1 DEF InForce
  <2>3. QED
    BY <2>1, <2>2
<1>7. QED
  BY <1>1, <1>4, <1>5, <1>6 DEF TtlsFollow

LEMMA TtlInsert ==
  ASSUME Types, TtlsFollow, NEW r \in Resolvers, Insert(r)
  PROVE  TtlsFollow'
<1> DEFINE k == res[r].target.key
           e == Stored(r)
<1>1. PICK n : /\ CallStep(r, n) /\ n.pc = "full" /\ res[r].pc = "insert" /\ k \in Keys
               /\ cache' = [cache EXCEPT ![k] = e] /\ e \in Entries
               /\ e.ttl = res[r].ttl /\ e.negative = res[r].negative
  BY InsertStep
<1>2. UNCHANGED <<ttl, setting, next_ttl, overlap>>
  BY <1>1 DEF CallStep
<1>3. setting \in {"no", "same"} /\ k \notin overlap => e.ttl = InForce(e.negative)
  BY <1>1 DEF TtlsFollow
<1> HIDE DEF k, e
<1>4. /\ \A j \in Cached' : j # k => j \in Cached /\ cache'[j] = cache[j]
      /\ cache'[k] = e
  BY <1>1, InsertEffect
<1>5. res'[r] = n /\ \A o \in Resolvers : o # r => res'[o] = res[o]
  BY <1>1, CallEffect
<1> SUFFICES ASSUME setting' \in {"no", "same"}
             PROVE  /\ \A j \in Cached' \ overlap' : cache'[j].ttl = InForce(cache[j].negative)'
                    /\ \A o \in Resolvers :
                          res'[o].pc = "insert" /\ res'[o].target.key \notin overlap' =>
                              res'[o].ttl = InForce(res[o].negative)'
                    /\ setting' = "same" => ttl'[1] = next_ttl'[1]
  BY DEF TtlsFollow
<1>6. setting \in {"no", "same"}
  BY <1>2
<1>7. ASSUME NEW j \in Cached' \ overlap' PROVE cache'[j].ttl = InForce(cache[j].negative)'
  <2>1. CASE j = k
    BY <1>2, <1>3, <1>4, <1>6, <1>7, <2>1 DEF InForce
  <2>2. CASE j # k
    <3>1. cache[j].ttl = InForce(cache[j].negative)
      BY <1>2, <1>4, <1>6, <1>7, <2>2 DEF TtlsFollow
    <3>2. QED
      BY <1>2, <1>4, <1>7, <2>2, <3>1 DEF InForce
  <2>3. QED
    BY <2>1, <2>2
<1>8. ASSUME NEW o \in Resolvers, res'[o].pc = "insert", res'[o].target.key \notin overlap'
      PROVE  res'[o].ttl = InForce(res[o].negative)'
  <2>1. o # r
    BY <1>1, <1>5, <1>8
  <2>2. res[o].ttl = InForce(res[o].negative)
    BY <1>2, <1>5, <1>6, <1>8, <2>1 DEF TtlsFollow
  <2>3. QED
    BY <1>2, <1>5, <2>1, <2>2 DEF InForce
<1>9. QED
  BY <1>2, <1>6, <1>7, <1>8 DEF TtlsFollow

\* set_ttl: the first swap leaves the TTLs or marks the change, the second
\* completes it, and the clearing takes out all that was stored meanwhile.
LEMMA TtlOther ==
  ASSUME Types, TtlsFollow,
         Tick \/ (\E pair \in Ttls : SetTtl(pair)) \/ SwapNegative \/ Clear
             \/ UNCHANGED vars
  PROVE  TtlsFollow'
<1>0. ttl \in Nat \X Nat /\ next_ttl \in Nat \X Nat
  BY CacheAssumption DEF Types
<1>1. CASE Tick \/ UNCHANGED vars
  BY <1>1 DEF Tick, vars, TtlsFollow, InForce, Cached
<1>2. ASSUME NEW pair \in Ttls, SetTtl(pair) PROVE TtlsFollow'
  <2>0. pair \in Nat \X Nat
    BY CacheAssumption
  <2>1. CASE ttl[1] # pair[1]
    BY <1>2, <2>1 DEF SetTtl, TtlsFollow
  <2>2. CASE ttl[1] = pair[1]
    <3>1. ttl' = ttl /\ setting = "no" /\ next_ttl'[1] = ttl'[1]
          /\ UNCHANGED <<cache, res, overlap>>
      BY <1>0, <1>2, <2>0, <2>2 DEF SetTtl
    <3>2. QED
      BY <3>1 DEF TtlsFollow, InForce, Cached
  <2>3. QED
    BY <2>1, <2>2
<1>3. CASE SwapNegative
  <2>1. CASE setting = "changed" \/ ttl[2] # next_ttl[2]
    BY <1>3, <2>1 DEF SwapNegative, TtlsFollow
  <2>2. CASE ~(setting = "changed" \/ ttl[2] # next_ttl[2])
    <3>1. ttl' = ttl /\ setting = "same" /\ setting' = "no"
          /\ UNCHANGED <<cache, res, overlap>>
      BY <1>0, <1>3, <2>2 DEF SwapNegative
    <3>2. QED
      BY <3>1 DEF TtlsFollow, InForce, Cached
  <2>3. QED
    BY <2>1, <2>2
<1>4. CASE Clear
  <2>1. Cached' = {} /\ setting' = "no" /\ res' = res
    BY <1>4, WithoutEffect DEF Clear, Cached
  <2>2. \A r \in Resolvers : res[r].pc = "insert" => res[r].target.key \in overlap'
    BY <1>4 DEF Clear
  <2>3. QED
    BY <2>1, <2>2 DEF TtlsFollow
<1>5. QED
  BY <1>1, <1>2, <1>3, <1>4

----------------------------------------------------------------------------
(***************************************************************************)
(* The bound on the map.                                                   *)
(***************************************************************************)

\* An eviction leaves what it found gone; if the list was too short for the
\* surplus, it takes out one entry at least or finds all of the list gone.
LEMMA EvictionBound ==
  ASSUME Types, SizeBounded, NEW r \in Resolvers, NEW n, TakeSoonest(r), r \in Storing,
         Storing' = Storing \ {r}
  PROVE  SizeBounded'
<1> DEFINE C == Cardinality(Cached)
           D == Cardinality(DOMAIN res[r].seen[1])
           surplus == C - Capacity
           s == Cardinality(Storing)
<1>1. PICK V \in SUBSET Keys :
        /\ cache' = Without(V) /\ IsFiniteSet(V) /\ Gone(V) \in Nat
        /\ D \in Nat /\ D > 0
        /\ Cardinality(V) = IF surplus \in 0 .. D THEN surplus ELSE D
        /\ missed' = CASE surplus < 0 -> 0
                       [] surplus > D -> missed + Gone(V)
                       [] OTHER -> Gone(V)
  BY Victims
<1>2. C \in Nat /\ s \in Nat /\ Capacity \in Nat /\ missed \in Nat
      /\ C <= Capacity + s + missed
  BY Finite, CacheAssumption DEF Types, SizeBounded
<1>3. Cardinality(Storing') = s - 1
  BY Finite, FS_RemoveElement
<1>4. Cached' = Cached \ V
  BY <1>1, WithoutEffect
<1>5. Cardinality(Cached') = C - (Cardinality(V) - Gone(V))
  <2>1. Cardinality(Cached \ V) = C - Cardinality(Cached \cap V)
    BY Finite, FS_Difference
  <2>2. Cardinality(V \ Cached) = Cardinality(V) - Cardinality(V \cap Cached)
    BY <1>1, FS_Difference
  <2>3. V \cap Cached = Cached \cap V
    OBVIOUS
  <2>4. Cardinality(Cached \cap V) \in Nat /\ Cardinality(V) \in Nat
    BY <1>1, Finite, FS_Intersection, FS_CardinalityType
  <2> DEFINE i == Cardinality(Cached \cap V)
             v == Cardinality(V)
  <2>5. /\ C \in Nat /\ i \in Nat /\ v \in Nat /\ Gone(V) = v - i
        /\ Cardinality(Cached') = C - i
    BY <1>2, <1>4, <2>1, <2>2, <2>3, <2>4 DEF Gone
  <2> HIDE DEF i, C, v
  <2>6. Cardinality(Cached') = C - (v - Gone(V))
    BY <2>5
  <2>7. QED
    BY <2>6 DEF v
<1>6. Cardinality(Cached') <= C
  BY <1>4, Finite, FS_Subset
<1> DEFINE c == Cardinality(Cached')
           g == Gone(V)
           v == Cardinality(V)
           m == missed'
<1>7. /\ c = C - (v - g) /\ c <= C /\ g \in Nat /\ D \in Nat /\ D > 0
      /\ v = IF surplus \in 0 .. D THEN surplus ELSE D
      /\ m = CASE surplus < 0 -> 0
               [] surplus > D -> missed + g
               [] OTHER -> g
  BY <1>1, <1>5, <1>6
<1>8. s > 0
  BY <1>2, Finite, FS_EmptySet
<1> HIDE DEF c, g, v, m, C, D, s
<1>9. c <= Capacity + (s - 1) + m
  <2>1. CASE surplus < 0
    <3>1. m = 0
      BY <1>2, <1>7, <2>1
    <3>2. QED
      BY <1>2, <1>7, <1>8, <2>1, <3>1
  <2>2. CASE surplus \in 0 .. D
    <3>1. m = g /\ v = surplus
      BY <1>2, <1>7, <2>2
    <3>2. QED
      BY <1>2, <1>7, <1>8, <2>2, <3>1
  <2>3. CASE surplus > D
    <3>1. m = missed + g /\ v = D
      BY <1>2, <1>7, <2>3
    <3>2. QED
      BY <1>2, <1>7, <1>8, <2>3, <3>1
  <2>4. QED
    BY <1>2, <1>7, <2>1, <2>2, <2>3
<1>10. QED
  BY <1>3, <1>9 DEF SizeBounded, c, s, m

LEMMA SizeLocal ==
  ASSUME Types, SizeBounded, NEW r \in Resolvers, NEW n, NEW S, LocalStep(r, n, S)
  PROVE  SizeBounded'
<1>1. /\ Cached' \subseteq Cached /\ (r \in Storing <=> res[r].pc \in Evicting)
      /\ Storing' = IF n.pc \in Evicting THEN Storing \cup {r} ELSE Storing \ {r}
      /\ Accounted(r, n) /\ missed' \in Nat
  BY WithoutEffect, CallEffect DEF LocalStep
<1>2. /\ Cardinality(Cached) \in Nat /\ Cardinality(Storing) \in Nat
      /\ Capacity \in Nat /\ missed \in Nat
      /\ Cardinality(Cached) <= Capacity + Cardinality(Storing) + missed
  BY Finite, CacheAssumption DEF Types, SizeBounded
<1>3. /\ Cardinality(Cached') \in Nat /\ Cardinality(Cached') <= Cardinality(Cached)
  BY <1>1, Finite, FS_Subset, FS_CardinalityType
<1>4. CASE \/ res[r].pc \notin Evicting /\ n.pc \notin Evicting /\ missed' = missed
           \/ res[r].pc \in Evicting /\ n.pc \in Evicting /\ missed' = missed
  <2>1. Storing' = Storing /\ missed' = missed
    BY <1>1, <1>4
  <2>2. QED
    BY <1>2, <1>3, <2>1 DEF SizeBounded
<1>5. CASE n.pc \notin Evicting /\ Cardinality(Cached) <= Capacity /\ missed' = 0
  <2>1. Cardinality(Storing') \in Nat
    BY <1>1, <1>5, Finite, FS_Subset, FS_CardinalityType
  <2>2. QED
    BY <1>2, <1>3, <1>5, <2>1 DEF SizeBounded
<1>6. CASE n.pc \notin Evicting /\ TakeSoonest(r)
  <2>1. res[r].pc = "evict"
    BY <1>6 DEF TakeSoonest
  <2>2. r \in Storing /\ Storing' = Storing \ {r}
    BY <1>1, <1>6, <2>1 DEF Evicting
  <2>3. QED
    BY <1>6, <2>2, EvictionBound
<1>7. QED
  BY <1>1, <1>4, <1>5, <1>6 DEF Accounted

LEMMA SizeInsert ==
  ASSUME Types, SizeBounded, NEW r \in Resolvers, Insert(r)
  PROVE  SizeBounded'
<1> DEFINE k == res[r].target.key
           e == Stored(r)
<1>1. PICK n : /\ CallStep(r, n) /\ n.pc = "full" /\ res[r].pc = "insert" /\ k \in Keys
               /\ missed' = missed /\ cache' = [cache EXCEPT ![k] = e] /\ e \in Entries
  BY InsertStep
<1> HIDE DEF k, e
<1>2. Cached' \subseteq Cached \cup {k}
  BY <1>1, InsertEffect
<1>3. r \notin Storing /\ Storing' = Storing \cup {r}
  BY <1>1, CallEffect DEF Evicting
<1>4. /\ Cardinality(Cached) \in Nat /\ Cardinality(Storing) \in Nat
      /\ Capacity \in Nat /\ missed \in Nat
      /\ Cardinality(Cached) <= Capacity + Cardinality(Storing) + missed
  BY Finite, CacheAssumption DEF Types, SizeBounded
<1>5. Cardinality(Storing') = Cardinality(Storing) + 1
  BY <1>3, Finite, FS_AddElement
<1>6. /\ Cardinality(Cached') \in Nat /\ Cardinality(Cached') <= Cardinality(Cached) + 1
  <2>1. IsFiniteSet(Cached \cup {k}) /\ Cardinality(Cached \cup {k}) <= Cardinality(Cached) + 1
    BY <1>4, Finite, FS_AddElement
  <2>2. IsFiniteSet(Cached') /\ Cardinality(Cached') <= Cardinality(Cached \cup {k})
    BY <1>2, <2>1, FS_Subset
  <2>3. QED
    BY <1>4, <2>1, <2>2, FS_CardinalityType
<1>7. QED
  BY <1>1, <1>4, <1>5, <1>6 DEF SizeBounded

LEMMA SizeOther ==
  ASSUME Types, SizeBounded,
         Tick \/ (\E pair \in Ttls : SetTtl(pair)) \/ SwapNegative \/ Clear
             \/ UNCHANGED vars
  PROVE  SizeBounded'
<1>1. CASE cache' = cache /\ res' = res /\ missed' = missed
  BY <1>1 DEF SizeBounded, Cached, Storing
<1>2. CASE Clear
  <2>1. Cached' = {} /\ Storing' = Storing /\ missed' = missed
    BY <1>2, WithoutEffect DEF Clear, Cached, Storing
  <2>2. /\ Cardinality(Storing) \in Nat /\ Capacity \in Nat /\ missed \in Nat
    BY Finite, CacheAssumption DEF Types
  <2>3. QED
    BY <2>1, <2>2, FS_EmptySet DEF SizeBounded
<1>3. QED
  BY <1>1, <1>2 DEF Tick, SetTtl, SwapNegative, vars

----------------------------------------------------------------------------
(***************************************************************************)
(* The invariant, and what it implies.                                     *)
(***************************************************************************)

LEMMA InvInit == Init => IInv
<1> SUFFICES ASSUME Init PROVE IInv
  OBVIOUS
<1>1. Cached = {} /\ Storing = {}
  BY IdleIsGood DEF Init, Cached, Storing
<1>2. \A r \in Resolvers : res[r] = Idle
  BY DEF Init
<1>3. Types
  <2>1. res \in [Resolvers -> Calls] /\ cache \in [Keys -> Entries \cup {NoEntry}]
    BY IdleIsGood DEF Init
  <2>2. \A r \in Resolvers : GoodCall(res[r]) /\ res[r].at <= now
    BY <1>2, IdleIsGood DEF Init
  <2>3. /\ now \in 0 .. MaxTime /\ ttl \in Nat \X Nat /\ next_ttl \in Ttls
        /\ setting = "no" /\ overlap = {} /\ missed = 0
    BY CacheAssumption DEF Init
  <2>4. QED
    BY <1>1, <2>1, <2>2, <2>3 DEF Types
<1>4. \A r \in Resolvers : Fresh(res[r])
  BY <1>1 DEF Fresh
<1>5. TtlsFollow
  BY <1>1, <1>2, IdleIsGood DEF TtlsFollow, Init
<1>6. SizeBounded
  BY <1>1, FS_EmptySet, CacheAssumption DEF SizeBounded, Init
<1>7. QED
  BY <1>3, <1>4, <1>5, <1>6 DEF IInv

\* Every step is one of the three kinds.
LEMMA Steps ==
  [Next]_vars =>
    \/ \E r \in Resolvers : Removing(r) \/ Insert(r)
    \/ Tick \/ (\E pair \in Ttls : SetTtl(pair)) \/ SwapNegative \/ Clear \/ UNCHANGED vars
  BY Zenon DEF Next, Removing

LEMMA InvNext == IInv /\ [Next]_vars => IInv'
<1> SUFFICES ASSUME IInv, [Next]_vars PROVE IInv'
  OBVIOUS
<1>1. Types /\ AllFresh /\ TtlsFollow /\ SizeBounded
  BY DEF IInv, AllFresh
<1>2. ASSUME NEW r \in Resolvers, Removing(r)
      PROVE  Types' /\ AllFresh' /\ TtlsFollow' /\ SizeBounded'
  <2>1. PICK n, S : LocalStep(r, n, S)
    BY <1>1, <1>2, RemovingIsLocal
  <2>2. QED
    BY <1>1, <2>1, TypesLocal, FreshLocal, TtlLocal, SizeLocal
<1>3. ASSUME NEW r \in Resolvers, Insert(r)
      PROVE  Types' /\ AllFresh' /\ TtlsFollow' /\ SizeBounded'
  BY <1>1, <1>3, TypesInsert, FreshInsert, TtlInsert, SizeInsert
<1>4. ASSUME Tick \/ (\E pair \in Ttls : SetTtl(pair)) \/ SwapNegative \/ Clear
                 \/ UNCHANGED vars
      PROVE  Types' /\ AllFresh' /\ TtlsFollow' /\ SizeBounded'
  BY <1>1, <1>4, TypesOther, FreshOther, TtlOther, SizeOther
<1>5. Types' /\ AllFresh' /\ TtlsFollow' /\ SizeBounded'
  BY <1>2, <1>3, <1>4, Steps
<1>6. QED
  BY <1>5 DEF IInv, AllFresh

(***************************************************************************)
(* The inductive invariant holds in every state: what a resolution knows at *)
(* each step, fresh lookups, TTLs in force, and the bound.                 *)
(***************************************************************************)
THEOREM Invariance == Spec => []IInv
  BY InvInit, InvNext, PTL DEF Spec

(***************************************************************************)
(* evict_if_over_capacity: for any number of requests that store at once,  *)
(* the map holds at most one entry too many for each store under way and   *)
(* one for each victim that was gone.                                      *)
(***************************************************************************)
THEOREM CacheBounded == Spec => []SizeBounded
<1>1. IInv => SizeBounded
  BY DEF IInv
<1>2. QED
  BY <1>1, Invariance, PTL

(***************************************************************************)
(* set_ttl: when it is done, the entries in the map were stored with the   *)
(* TTLs in force, but for those of a call that had read the old ones and   *)
(* stored after the clearing.                                              *)
(***************************************************************************)
THEOREM TtlsTakeEffect == Spec => []TtlInForce
<1>1. IInv => TtlInForce
  BY DEF IInv, TtlsFollow, TtlInForce, InForce
<1>2. QED
  BY <1>1, Invariance, PTL

----------------------------------------------------------------------------
LEMMA InvTypes == IInv => TypeOK
<1> SUFFICES ASSUME Types PROVE TypeOK
  BY DEF IInv
<1>1. \A k \in Cached : cache[k].ttl > 0
  <2>1. \A k \in Cached : cache[k] \in Entries
    BY DEF Types, Cached
  <2>2. QED
    BY <2>1 DEF Entries
<1>2. DOMAIN res = Resolvers
  BY DEF Types
<1>3. QED
  BY <1>1, <1>2 DEF Types, TypeOK

LEMMA InvPermitted == IInv => AnswersPermitted
  BY DEF IInv, Types, GoodCall, AnswersPermitted

\* A lookup that ends has found an entry, and it is a fresh one.
LEMMA InvNotLate ==
  ASSUME IInv, [Next]_vars, NEW r \in Resolvers, res[r].pc = "get",
         res'[r].pc \in {"done", "idle"}
  PROVE  LET entry == cache[res[r].target.key]
         IN entry.expires > res[r].at \/ entry.stored >= res[r].at
<1>0. Types /\ Fresh(res[r])
  BY DEF IInv
<1>1. SUFFICES res[r].target.key \in Cached
  BY <1>0 DEF Fresh
<1>2. ASSUME NEW o \in Resolvers, Removing(o) PROVE res[r].target.key \in Cached
  <2>1. PICK n, S : LocalStep(o, n, S)
    BY <1>0, <1>2, RemovingIsLocal
  <2>2. CallStep(o, n)
    BY <2>1 DEF LocalStep
  <2>3. o = r /\ res'[r] = n
    BY <1>0, <2>2, CallEffect
  <2>4. QED
    BY <2>1, <2>3 DEF LocalStep
<1>3. ASSUME NEW o \in Resolvers, Insert(o) PROVE FALSE
  <2>1. PICK n : CallStep(o, n) /\ res[o].pc = "insert"
    BY <1>0, <1>3, InsertStep
  <2>2. o # r /\ res'[r] = res[r]
    BY <1>0, <2>1, CallEffect
  <2>3. QED
    BY <2>2
<1>4. ASSUME Tick \/ (\E pair \in Ttls : SetTtl(pair)) \/ SwapNegative \/ Clear
                 \/ UNCHANGED vars
      PROVE  FALSE
  <2>1. res' = res
    BY <1>4 DEF Tick, SetTtl, SwapNegative, Clear, vars
  <2>2. QED
    BY <2>1
<1>5. QED
  BY <1>2, <1>3, <1>4, Steps

(***************************************************************************)
(* resolve_upstream_addr and lookup_status: whatever other requests do to  *)
(* the shared entry between the steps of a resolution, the address it      *)
(* returns is one its target permits, and one taken from the cache had not *)
(* expired when the lookup read the clock or was stored since.             *)
(***************************************************************************)
THEOREM AnswersSoundness == Spec => AnswersAreGood
<1>1. IInv => TypeOK /\ AnswersPermitted
  BY InvTypes, InvPermitted
<1>2. IInv /\ [Next]_vars =>
        [\A r \in Resolvers :
            res[r].pc = "get" /\ res'[r].pc \in {"done", "idle"} =>
                LET entry == cache[res[r].target.key]
                IN entry.expires > res[r].at \/ entry.stored >= res[r].at]_vars
  BY InvNotLate
<1>3. QED
  BY <1>1, <1>2, Invariance, PTL DEF Spec, AnswersAreGood, NoLateAnswers
=============================================================================
