---------------------------- MODULE TokenBucket ----------------------------
(***************************************************************************)
(* The token bucket of one upstream target (src/proxy/ratelimit.rs) and the*)
(* requests that use it through Target::try_acquire_rate_limit             *)
(* (src/route/target.rs).  rate and burst are atomics that are read and    *)
(* written outside the mutex around tokens and last_refill; each access is *)
(* a step, and so is each critical section.                                *)
(*                                                                         *)
(* A bucket either follows the configuration's rate_limit_per_target and   *)
(* rate_limit_burst, which every request compares with what the bucket has,*)
(* or belongs to a route with its own ratelimit and burst options, which   *)
(* configure it at each rebuild of the table.                              *)
(***************************************************************************)
EXTENDS Integers, FiniteSets

CONSTANTS
    Threads,      \* worker threads, each serving one request at a time
    Builder,      \* the task that rebuilds the route table
    Settings,     \* (rate, burst) pairs the configuration may hold
    Overrides,    \* (rate, burst) pairs of routes' own options, and Global
    Global,       \* "the route has no ratelimit option"
    Scale,        \* SCALE: sub-tokens of a token
    PerSecond,    \* clock units of a second
    MaxRate,      \* bound on rates
    MaxBurst,     \* bound on bursts, at least 1
    MaxTime,      \* bound on the clock
    MaxFills      \* bound on the fills of the bucket; the model stops there

Pairs == [rate : 0 .. MaxRate, burst : 0 .. MaxBurst]

ASSUME BucketAssumption ==
    /\ Builder \notin Threads
    /\ Settings \subseteq Pairs
    /\ Settings # {}
    /\ Global \notin Pairs
    /\ Overrides \subseteq Pairs \cup {Global}
    /\ Overrides # {}
    /\ Scale \in Nat \ {0} /\ PerSecond \in Nat \ {0}
    /\ MaxRate \in Nat /\ MaxBurst \in Nat \ {0} /\ MaxTime \in Nat
    /\ MaxFills \in Nat

VARIABLES
    setting,      \* the configuration's (rate, burst)
    override,     \* the route's own (rate, burst), or Global; never changes
    rate, burst,  \* the bucket's atomics, scaled; rate 0 is UNCONFIGURED
    tokens,       \* available sub-tokens
    last_refill,  \* time of the last refill; 0: never
    now,          \* the monotonic clock
    pc,           \* next access of each process
    want,         \* the (rate, burst) a process configures the bucket for
    read,         \* the rate and burst a process has read
    admitted,     \* requests the bucket has let through (history variable)
    fills         \* times configure filled the bucket (history variable)

bucket == <<rate, burst, tokens, last_refill>>
history == <<admitted, fills>>
bucketVars == <<setting, override, bucket, now, pc, want, read, history>>

Processes == Threads \cup {Builder}
AtLeastOne(n) == IF n < 1 THEN 1 ELSE n
Unread == [rate |-> 0, burst |-> 0]
Unlimited == [rate |-> 0, burst |-> 0]

(***************************************************************************)
(* The table that created the bucket has run pre_parse: a bucket with an   *)
(* override starts configured and full, any other one unconfigured.        *)
(***************************************************************************)
BucketInit ==
    /\ setting \in Settings
    /\ override \in Overrides
    /\ now = 1
    /\ IF override # Global /\ override.rate # 0
         THEN /\ rate = override.rate * Scale
              /\ burst = AtLeastOne(override.burst) * Scale
              /\ tokens = burst
              /\ last_refill = now
              /\ fills = 1
         ELSE rate = 0 /\ burst = 0 /\ tokens = 0 /\ last_refill = 0 /\ fills = 0
    /\ pc = [p \in Processes |-> "idle"]
    /\ want = [p \in Processes |-> Unlimited]
    /\ read = [p \in Processes |-> Unread]
    /\ admitted = 0

Goto(p, from, to) == pc[p] = from /\ pc' = [pc EXCEPT ![p] = to]

----------------------------------------------------------------------------
(***************************************************************************)
(* try_acquire_rate_limit: the request reads the configuration; without an *)
(* override it compares the bucket's rate and burst, in whole tokens, with *)
(* the configured ones and configures the bucket when they differ.         *)
(***************************************************************************)
Request(t) ==
    /\ t \in Threads
    /\ IF override = Global
         THEN /\ Goto(t, "idle", "compare_rate")
              /\ want' = [want EXCEPT ![t] = setting]
         ELSE Goto(t, "idle", "load_rate") /\ UNCHANGED want
    /\ UNCHANGED <<setting, override, bucket, now, read, history>>

CompareRate(t) ==
    /\ Goto(t, "compare_rate", "compare_burst")
    /\ read' = [read EXCEPT ![t] = [rate |-> rate, burst |-> 0]]
    /\ UNCHANGED <<setting, override, bucket, now, want, history>>

configured_rate_burst(t) ==
    IF read[t].rate = 0 THEN Unlimited
    ELSE [rate |-> read[t].rate \div Scale, burst |-> burst \div Scale]

CompareBurst(t) ==
    /\ IF configured_rate_burst(t) = want[t]
         THEN Goto(t, "compare_burst", "load_rate")
         ELSE Goto(t, "compare_burst", "store_rate")
    /\ read' = [read EXCEPT ![t] = Unread]
    /\ UNCHANGED <<setting, override, bucket, now, want, history>>

(***************************************************************************)
(* pre_parse: a rebuild configures the bucket of a route with an override. *)
(***************************************************************************)
PreParse ==
    /\ override # Global
    /\ Goto(Builder, "idle", "store_rate")
    /\ want' = [want EXCEPT ![Builder] = override]
    /\ UNCHANGED <<setting, override, bucket, now, read, history>>

----------------------------------------------------------------------------
(***************************************************************************)
(* configure: store the rate, store the burst, then fill an empty bucket   *)
(* under the mutex.  A request goes on to try_acquire, the rebuild ends.   *)
(***************************************************************************)
Configured(p) == IF p = Builder THEN "idle" ELSE "load_rate"

StoreRate(p) ==
    /\ Goto(p, "store_rate", "store_burst")
    /\ rate' = want[p].rate * Scale
    /\ UNCHANGED <<setting, override, burst, tokens, last_refill, now, want, read,
                   history>>

StoreBurst(p) ==
    /\ IF want[p].rate = 0
         THEN Goto(p, "store_burst", Configured(p)) /\ burst' = 0
         ELSE /\ Goto(p, "store_burst", "fill")
              /\ burst' = AtLeastOne(want[p].burst) * Scale
    /\ UNCHANGED <<setting, override, rate, tokens, last_refill, now, want, read,
                   history>>

Fill(p) ==
    /\ Goto(p, "fill", Configured(p))
    /\ tokens = 0 => fills < MaxFills
    /\ IF tokens = 0
         THEN tokens' = AtLeastOne(want[p].burst) * Scale /\ fills' = fills + 1
         ELSE UNCHANGED <<tokens, fills>>
    /\ last_refill' = IF last_refill = 0 THEN now ELSE last_refill
    /\ UNCHANGED <<setting, override, rate, burst, now, want, read, admitted>>

----------------------------------------------------------------------------
(***************************************************************************)
(* try_acquire: load the rate, load the burst, then refill and consume     *)
(* under the mutex.                                                        *)
(***************************************************************************)
EndCall(t) ==
    /\ want' = [want EXCEPT ![t] = Unlimited]
    /\ read' = [read EXCEPT ![t] = Unread]

LoadRate(t) ==
    /\ IF rate = 0
         THEN Goto(t, "load_rate", "idle") /\ EndCall(t)
         ELSE /\ Goto(t, "load_rate", "load_burst")
              /\ read' = [read EXCEPT ![t] = [rate |-> rate, burst |-> 0]]
              /\ UNCHANGED want
    /\ UNCHANGED <<setting, override, bucket, now, history>>

LoadBurst(t) ==
    /\ Goto(t, "load_burst", "consume")
    /\ read' = [read EXCEPT ![t].burst = burst]
    /\ UNCHANGED <<setting, override, bucket, now, want, history>>

(***************************************************************************)
(* The sub-tokens after a refill: rate times elapsed, rounded down, and no *)
(* more than the burst; untouched when no time has passed.                 *)
(***************************************************************************)
AtMost(n, ceiling) == IF n > ceiling THEN ceiling ELSE n
Refill(r, elapsed) == (r * elapsed) \div PerSecond
Refilled(t) ==
    IF now > last_refill
      THEN AtMost(tokens + Refill(read[t].rate, now - last_refill), read[t].burst)
      ELSE tokens

\* Mutant: the time a refill is for counts again at the next refill.
Consume_KeepsTime(t) ==
    /\ Goto(t, "consume", "idle")
    /\ IF Refilled(t) < Scale
         THEN tokens' = Refilled(t) /\ UNCHANGED admitted
         ELSE tokens' = Refilled(t) - Scale /\ admitted' = admitted + 1
    /\ EndCall(t)
    /\ UNCHANGED <<setting, override, rate, burst, now, last_refill, fills>>

Consume(t) ==
    /\ Goto(t, "consume", "idle")
    /\ IF Refilled(t) < Scale
         THEN tokens' = Refilled(t) /\ UNCHANGED admitted
         ELSE tokens' = Refilled(t) - Scale /\ admitted' = admitted + 1
    /\ last_refill' = now
    /\ EndCall(t)
    /\ UNCHANGED <<setting, override, rate, burst, now, fills>>

----------------------------------------------------------------------------
(***************************************************************************)
(* The clock runs; the admin API changes the configuration.                *)
(***************************************************************************)
Elapse ==
    /\ now < MaxTime
    /\ now' = now + 1
    /\ UNCHANGED <<setting, override, bucket, pc, want, read, history>>

ChangeSettings ==
    /\ \E s \in Settings \ {setting} : setting' = s
    /\ UNCHANGED <<override, bucket, now, pc, want, read, history>>

Configure(p) == StoreRate(p) \/ StoreBurst(p) \/ Fill(p)
TryAcquire(t) ==
    \/ Request(t) \/ CompareRate(t) \/ CompareBurst(t)
    \/ LoadRate(t) \/ LoadBurst(t) \/ Consume(t)

BucketNext ==
    \/ Elapse \/ ChangeSettings \/ PreParse
    \/ \E p \in Processes : Configure(p)
    \/ \E t \in Threads : TryAcquire(t)

BucketSpec == BucketInit /\ [][BucketNext]_bucketVars

----------------------------------------------------------------------------
BurstCeiling == MaxBurst * Scale
RateCeiling == MaxRate * Scale

(***************************************************************************)
(* Every variable stays in its range; tokens never goes below zero.        *)
(***************************************************************************)
Steps == {"idle", "compare_rate", "compare_burst", "store_rate", "store_burst",
          "fill", "load_rate", "load_burst", "consume"}
BucketTypeOK ==
    /\ setting \in Settings /\ override \in Overrides
    /\ rate \in 0 .. RateCeiling /\ burst \in 0 .. BurstCeiling
    /\ tokens \in Nat
    /\ now \in 1 .. AtLeastOne(MaxTime) /\ last_refill \in 0 .. now
    /\ pc \in [Processes -> Steps]
    /\ want \in [Processes -> Pairs]
    /\ read \in [Processes -> [rate : 0 .. RateCeiling, burst : 0 .. BurstCeiling]]
    /\ admitted \in Nat /\ fills \in Nat

(***************************************************************************)
(* Whatever rates and bursts racing requests and rebuilds have read, the   *)
(* bucket never holds more than the largest burst in use.                  *)
(***************************************************************************)
TokensWithinBurst == tokens <= BurstCeiling

(***************************************************************************)
(* A token is only ever made by time or by a fill: the requests let through*)
(* and the tokens left never exceed the largest burst per fill plus the    *)
(* largest rate times the time that has been refilled for.                 *)
(***************************************************************************)
TokensAreEarned ==
    PerSecond * (Scale * admitted + tokens)
        <= PerSecond * BurstCeiling * fills + RateCeiling * last_refill

(* The bucket gives out what it earned, and never more than a burst.       *)
BucketIsSound == BucketTypeOK /\ TokensWithinBurst /\ TokensAreEarned
=============================================================================
