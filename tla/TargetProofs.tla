---------------------------- MODULE TargetProofs ----------------------------
(***************************************************************************)
(* Proofs about what the load balancer keeps for a target: the tokens of   *)
(* its bucket, the verdict of the health checker, and its connection slots.*)
(* They hold for any set of upstreams, any settings, any finite set of     *)
(* requests and any sequence of reconfigurations.                          *)
(***************************************************************************)
EXTENDS TokenBucket, HealthChecker, ConnectionSlots, FiniteSetTheorems, TLAPS

----------------------------------------------------------------------------
(***************************************************************************)
(* The token bucket.  BucketTypeOK holds on its own; TokensWithinBurst and *)
(* TokensAreEarned are inductive relative to it.                           *)
(***************************************************************************)

(***************************************************************************)
(* Arithmetic.  The provers only see linear facts; the products they need  *)
(* are supplied here.                                                      *)
(***************************************************************************)

\* A product of naturals is a natural, and grows with its factors.
LEMMA ProductMonotone ==
  ASSUME NEW a \in Nat, NEW b \in Nat, NEW c \in Nat, a <= b
  PROVE  /\ a * c \in Nat /\ b * c \in Nat /\ a * c <= b * c
         /\ c * a \in Nat /\ c * b \in Nat /\ c * a <= c * b
  BY SMT

\* Rounding down: a whole number of units never exceeds what was divided.
LEMMA FloorIsBelow ==
  ASSUME NEW a \in Nat, NEW d \in Nat \ {0}
  PROVE  a \div d \in Nat /\ d * (a \div d) <= a
  BY SMT

\* The ceilings and the scaled bursts and rates are naturals within range.
LEMMA Ceilings ==
  /\ BurstCeiling \in Nat /\ RateCeiling \in Nat
  /\ Scale \in Nat \ {0} /\ PerSecond \in Nat \ {0}
  /\ \A b \in 0 .. MaxBurst : AtLeastOne(b) * Scale \in 0 .. BurstCeiling
  /\ \A r \in 0 .. MaxRate : r * Scale \in 0 .. RateCeiling
<1>1. Scale \in Nat \ {0} /\ PerSecond \in Nat \ {0} /\ MaxRate \in Nat /\ MaxBurst \in Nat \ {0}
  BY BucketAssumption
<1>2. BurstCeiling \in Nat /\ RateCeiling \in Nat
  BY <1>1, ProductMonotone DEF BurstCeiling, RateCeiling
<1>3. ASSUME NEW b \in 0 .. MaxBurst
      PROVE  AtLeastOne(b) * Scale \in 0 .. BurstCeiling
  <2>1. AtLeastOne(b) \in Nat /\ AtLeastOne(b) <= MaxBurst
    BY <1>1 DEF AtLeastOne
  <2> HIDE DEF AtLeastOne
  <2>2. QED
    BY <1>1, <2>1, ProductMonotone DEF BurstCeiling
<1>4. ASSUME NEW r \in 0 .. MaxRate
      PROVE  r * Scale \in 0 .. RateCeiling
  BY <1>1, ProductMonotone DEF RateCeiling
<1>5. QED
  BY <1>1, <1>2, <1>3, <1>4

\* What a refill adds is within what the largest rate makes in that time.
LEMMA RefillIsEarned ==
  ASSUME NEW r \in 0 .. RateCeiling, NEW e \in Nat
  PROVE  Refill(r, e) \in Nat /\ PerSecond * Refill(r, e) <= RateCeiling * e
<1>1. RateCeiling \in Nat /\ PerSecond \in Nat \ {0} /\ r \in Nat /\ r <= RateCeiling
  BY Ceilings
<1>2. r * e \in Nat /\ r * e <= RateCeiling * e /\ RateCeiling * e \in Nat
  BY <1>1, ProductMonotone
<1>3. Refill(r, e) \in Nat /\ PerSecond * Refill(r, e) <= r * e
  BY <1>1, <1>2, FloorIsBelow DEF Refill
<1>4. PerSecond * Refill(r, e) \in Nat
  BY <1>1, <1>3, ProductMonotone
<1>5. QED
  BY <1>2, <1>3, <1>4

----------------------------------------------------------------------------
(***************************************************************************)
(* Types                                                                   *)
(***************************************************************************)

\* Rates, bursts and overrides come from the configured pairs.
LEMMA PairsInRange ==
  /\ \A s \in Settings : s \in Pairs
  /\ \A o \in Overrides : o # Global => o \in Pairs
  /\ Unlimited \in Pairs
  /\ \A w \in Pairs : w.rate \in 0 .. MaxRate /\ w.burst \in 0 .. MaxBurst
  BY BucketAssumption DEF Pairs, Unlimited

\* A process that leaves forgets what it wanted and what it had read.
LEMMA LeaveTypes ==
  ASSUME BucketTypeOK, NEW t \in Processes, EndCall(t)
  PROVE  /\ want' \in [Processes -> Pairs]
         /\ read' \in [Processes -> [rate : 0 .. RateCeiling, burst : 0 .. BurstCeiling]]
<1>1. Unread \in [rate : 0 .. RateCeiling, burst : 0 .. BurstCeiling]
  BY Ceilings DEF Unread
<1>2. QED
  BY <1>1, PairsInRange DEF BucketTypeOK, EndCall

\* The sub-tokens after a refill: earned, within the burst that was read, and
\* unchanged when no time has passed.
LEMMA RefilledInRange ==
  ASSUME BucketTypeOK, NEW t \in Threads
  PROVE  /\ Refilled(t) \in Nat
         /\ tokens <= BurstCeiling => Refilled(t) <= BurstCeiling
         /\ now - last_refill \in Nat
         /\ Refilled(t) <= tokens + Refill(read[t].rate, now - last_refill)
<1>1. /\ now - last_refill \in Nat /\ tokens \in Nat /\ now \in Nat /\ last_refill \in Nat
      /\ read[t].rate \in 0 .. RateCeiling /\ read[t].burst \in 0 .. BurstCeiling
  BY DEF BucketTypeOK, Processes
<1>2. Refill(read[t].rate, now - last_refill) \in Nat
  BY <1>1, RefillIsEarned
<1> HIDE DEF Refill
<1>3. QED
  BY <1>1, <1>2, Ceilings DEF Refilled, AtMost

LEMMA TypeInit == BucketInit => BucketTypeOK
<1> SUFFICES ASSUME BucketInit PROVE BucketTypeOK
  OBVIOUS
<1>1. Unread \in [rate : 0 .. RateCeiling, burst : 0 .. BurstCeiling]
  BY Ceilings DEF Unread
<1>2. now \in 1 .. AtLeastOne(MaxTime)
  BY BucketAssumption DEF BucketInit, AtLeastOne
<1>3. want \in [Processes -> Pairs] /\ pc \in [Processes -> Steps]
      /\ read \in [Processes -> [rate : 0 .. RateCeiling, burst : 0 .. BurstCeiling]]
  BY <1>1, PairsInRange DEF BucketInit, Steps
<1>4. CASE override # Global /\ override.rate # 0
  <2>1. override \in Pairs
    BY <1>4, PairsInRange DEF BucketInit
  <2>2. /\ override.rate * Scale \in 0 .. RateCeiling
        /\ AtLeastOne(override.burst) * Scale \in 0 .. BurstCeiling
    BY <2>1, PairsInRange, Ceilings
  <2>3. QED
    BY <1>2, <1>3, <1>4, <2>2, Ceilings DEF BucketInit, BucketTypeOK
<1>5. CASE ~(override # Global /\ override.rate # 0)
  BY <1>2, <1>3, <1>5, Ceilings DEF BucketInit, BucketTypeOK
<1>6. QED
  BY <1>4, <1>5

LEMMA TypeNext == BucketTypeOK /\ [BucketNext]_bucketVars => BucketTypeOK'
<1> SUFFICES ASSUME BucketTypeOK, [BucketNext]_bucketVars PROVE BucketTypeOK'
  OBVIOUS
<1> USE DEF bucket, history, Goto
<1>0. \A p \in Processes : want[p] \in Pairs
  BY DEF BucketTypeOK
<1>1. CASE Elapse
  BY <1>1, BucketAssumption DEF Elapse, BucketTypeOK, AtLeastOne
<1>2. CASE ChangeSettings
  BY <1>2 DEF ChangeSettings, BucketTypeOK
<1>3. CASE PreParse
  BY <1>3, PairsInRange DEF PreParse, BucketTypeOK, Steps
<1>4. ASSUME NEW p \in Processes, Configure(p) PROVE BucketTypeOK'
  <2>1. CASE StoreRate(p)
    <3>1. want[p].rate * Scale \in 0 .. RateCeiling
      BY <1>0, PairsInRange, Ceilings
    <3>2. QED
      BY <2>1, <3>1 DEF StoreRate, BucketTypeOK, Steps
  <2>2. CASE StoreBurst(p)
    <3>1. AtLeastOne(want[p].burst) * Scale \in 0 .. BurstCeiling
      BY <1>0, PairsInRange, Ceilings
    <3>2. Configured(p) \in Steps
      BY DEF Configured, Steps
    <3>3. QED
      BY <2>2, <3>1, <3>2, Ceilings DEF StoreBurst, BucketTypeOK, Steps
  <2>3. CASE Fill(p)
    <3>1. AtLeastOne(want[p].burst) * Scale \in 0 .. BurstCeiling
      BY <1>0, PairsInRange, Ceilings
    <3>2. Configured(p) \in Steps
      BY DEF Configured, Steps
    <3>3. QED
      BY <2>3, <3>1, <3>2, Ceilings DEF Fill, BucketTypeOK
  <2>4. QED
    BY <1>4, <2>1, <2>2, <2>3 DEF Configure
<1>5. ASSUME NEW t \in Threads, TryAcquire(t) PROVE BucketTypeOK'
  <2>0. t \in Processes
    BY DEF Processes
  <2>1. CASE Request(t)
    BY <2>0, <2>1, PairsInRange DEF Request, BucketTypeOK, Steps
  <2>2. CASE CompareRate(t)
    BY <2>0, <2>2, Ceilings DEF CompareRate, BucketTypeOK, Steps
  <2>3. CASE CompareBurst(t)
    BY <2>0, <2>3, Ceilings DEF CompareBurst, BucketTypeOK, Steps, Unread
  <2>4. CASE LoadRate(t)
    <3>1. CASE rate = 0
      <4>1. EndCall(t)
        BY <2>4, <3>1 DEF LoadRate
      <4>2. QED
        BY <2>0, <2>4, <3>1, <4>1, LeaveTypes DEF LoadRate, BucketTypeOK, Steps
    <3>2. CASE rate # 0
      BY <2>0, <2>4, <3>2, Ceilings DEF LoadRate, BucketTypeOK, Steps
    <3>3. QED
      BY <3>1, <3>2
  <2>5. CASE LoadBurst(t)
    <3>1. read[t] \in [rate : 0 .. RateCeiling, burst : 0 .. BurstCeiling]
          /\ burst \in 0 .. BurstCeiling
      BY <2>0 DEF BucketTypeOK
    <3>2. [read[t] EXCEPT !.burst = burst]
            \in [rate : 0 .. RateCeiling, burst : 0 .. BurstCeiling]
      BY <3>1
    <3> DEFINE r == [read[t] EXCEPT !.burst = burst]
    <3>3. /\ read' = [read EXCEPT ![t] = r]
          /\ pc' = [pc EXCEPT ![t] = "consume"]
          /\ UNCHANGED <<setting, override, rate, burst, tokens, last_refill, now, want,
                         admitted, fills>>
      BY <2>5, Zenon DEF LoadBurst
    <3>4. r \in [rate : 0 .. RateCeiling, burst : 0 .. BurstCeiling]
      BY <3>2
    <3> HIDE DEF r
    <3>5. QED
      BY <2>0, <3>3, <3>4 DEF BucketTypeOK, Steps
  <2>6. CASE Consume(t)
    <3>1. tokens' \in Nat /\ admitted' \in Nat
      BY <2>6, RefilledInRange, Ceilings DEF Consume, BucketTypeOK
    <3>2. QED
      BY <2>0, <2>6, <3>1, LeaveTypes DEF Consume, BucketTypeOK, Steps
  <2>7. QED
    BY <1>5, <2>1, <2>2, <2>3, <2>4, <2>5, <2>6 DEF TryAcquire
<1>6. CASE UNCHANGED bucketVars
  BY <1>6 DEF bucketVars, BucketTypeOK
<1>7. QED
  BY <1>1, <1>2, <1>3, <1>4, <1>5, <1>6 DEF BucketNext

----------------------------------------------------------------------------
(***************************************************************************)
(* The two bounds.  Only Fill and Consume touch what they speak of.        *)
(***************************************************************************)

\* Every other step leaves the tokens, the time refilled for and the history.
LEMMA OnlyFillAndConsume ==
  ASSUME BucketTypeOK, [BucketNext]_bucketVars,
         ~(\E p \in Processes : Fill(p)), ~(\E t \in Threads : Consume(t))
  PROVE  UNCHANGED <<tokens, last_refill, admitted, fills>>
<1> USE DEF bucket, history
<1>1. CASE Elapse \/ ChangeSettings \/ PreParse
  BY <1>1 DEF Elapse, ChangeSettings, PreParse
<1>2. CASE \E p \in Processes : Configure(p)
  BY <1>2 DEF Configure, StoreRate, StoreBurst
<1>3. CASE \E t \in Threads : TryAcquire(t)
  BY <1>3 DEF TryAcquire, Request, CompareRate, CompareBurst, LoadRate, LoadBurst
<1>4. CASE UNCHANGED bucketVars
  BY <1>4 DEF bucketVars
<1>5. QED
  BY <1>1, <1>2, <1>3, <1>4 DEF BucketNext

\* A fill adds at most the largest burst, counts as a fill, and never moves
\* the time refilled for backwards.
LEMMA FillKeepsBounds ==
  ASSUME BucketTypeOK, TokensWithinBurst, TokensAreEarned, NEW p \in Processes, Fill(p)
  PROVE  TokensWithinBurst' /\ TokensAreEarned'
<1> DEFINE b == AtLeastOne(want[p].burst) * Scale
<1>1. b \in 0 .. BurstCeiling
  BY PairsInRange, Ceilings DEF BucketTypeOK
<1>2. /\ tokens \in Nat /\ fills \in Nat /\ admitted \in Nat /\ last_refill \in Nat
      /\ last_refill' \in Nat /\ last_refill <= last_refill' /\ admitted' = admitted
  BY DEF Fill, BucketTypeOK
<1>3. \/ tokens = 0 /\ tokens' = b /\ fills' = fills + 1
      \/ tokens' = tokens /\ fills' = fills
  <2> HIDE DEF b
  <2>1. IF tokens = 0 THEN tokens' = b /\ fills' = fills + 1
        ELSE UNCHANGED <<tokens, fills>>
    BY DEF Fill, b
  <2>2. QED
    BY <2>1
<1>4. TokensWithinBurst'
  BY <1>1, <1>2, <1>3, Ceilings DEF TokensWithinBurst, BurstCeiling
<1>5. RateCeiling * last_refill \in Nat /\ RateCeiling * last_refill' \in Nat
      /\ RateCeiling * last_refill <= RateCeiling * last_refill'
  BY <1>2, Ceilings, ProductMonotone
<1>6. CASE tokens' = tokens /\ fills' = fills
  <2> DEFINE L == PerSecond * (Scale * admitted + tokens)
             F == PerSecond * BurstCeiling * fills
  <2>1. Scale * admitted \in Nat
    BY <1>2, Ceilings, ProductMonotone
  <2>2. L \in Nat
    BY <1>2, <2>1, Ceilings, ProductMonotone
  <2>3. F \in Nat
    BY <1>2, Ceilings, ProductMonotone
  <2>4. L <= F + RateCeiling * last_refill
    BY DEF TokensAreEarned
  <2> HIDE DEF L, F
  <2>5. L <= F + RateCeiling * last_refill'
    BY <1>5, <2>2, <2>3, <2>4
  <2>6. L' = L /\ F' = F
    BY <1>2, <1>6 DEF L, F, BurstCeiling
  <2>7. QED
    BY <1>2, <1>4, <1>6, <2>5 DEF TokensAreEarned, L, F, BurstCeiling, RateCeiling
<1>7. CASE tokens = 0 /\ tokens' = b /\ fills' = fills + 1
  <2>1. Scale * admitted \in Nat
    BY <1>2, Ceilings, ProductMonotone
  <2> DEFINE a == Scale * admitted
             c == PerSecond * BurstCeiling
  <2>2. c \in Nat /\ PerSecond * b \in Nat /\ PerSecond * b <= c
    BY <1>1, Ceilings, ProductMonotone
  <2>3. PerSecond * (a + 0) <= c * fills + RateCeiling * last_refill
    BY <1>7 DEF TokensAreEarned
  <2>4. c * (fills + 1) = c * fills + c /\ c * fills \in Nat
    BY <1>2, <2>2
  <2>5. PerSecond * (a + b) = PerSecond * a + PerSecond * b /\ PerSecond * a \in Nat
        /\ a + 0 = a
    BY <1>1, <2>1, Ceilings
  <2> HIDE DEF a, b, c
  <2>6. PerSecond * (a + b) <= c * (fills + 1) + RateCeiling * last_refill'
    BY <1>5, <2>2, <2>3, <2>4, <2>5
  <2>7. QED
    BY <1>2, <1>4, <1>7, <2>6 DEF TokensAreEarned, a, c, BurstCeiling, RateCeiling
<1>8. QED
  BY <1>3, <1>6, <1>7

\* A refill turns elapsed time into tokens once, and an admitted request is
\* paid for in full.
LEMMA ConsumeKeepsBounds ==
  ASSUME BucketTypeOK, TokensWithinBurst, TokensAreEarned, NEW t \in Threads, Consume(t)
  PROVE  TokensWithinBurst' /\ TokensAreEarned'
<1> DEFINE e == now - last_refill
           f == Refill(read[t].rate, e)
           x == Refilled(t)
           F == PerSecond * BurstCeiling * fills
<1>1. /\ tokens \in Nat /\ fills \in Nat /\ admitted \in Nat /\ last_refill \in Nat
      /\ now \in Nat /\ e \in Nat /\ read[t].rate \in 0 .. RateCeiling
  BY RefilledInRange DEF BucketTypeOK, Processes
<1>2. f \in Nat /\ PerSecond * f <= RateCeiling * e
  BY <1>1, RefillIsEarned
<1>3. x \in Nat /\ x <= BurstCeiling /\ x <= tokens + f
  BY RefilledInRange DEF TokensWithinBurst
<1>4. /\ fills' = fills /\ last_refill' = now
      /\ \/ tokens' = x /\ admitted' = admitted
         \/ x >= Scale /\ tokens' = x - Scale /\ admitted' = admitted + 1
  <2>1. /\ fills' = fills /\ last_refill' = now
        /\ IF x < Scale THEN tokens' = x /\ admitted' = admitted
           ELSE tokens' = x - Scale /\ admitted' = admitted + 1
    BY DEF Consume
  <2> HIDE DEF x
  <2>2. QED
    BY <1>3, <2>1, Ceilings
<1> HIDE DEF x, f
<1>5. TokensWithinBurst'
  BY <1>3, <1>4, Ceilings DEF TokensWithinBurst, BurstCeiling
<1>6. Scale * admitted \in Nat /\ Scale * (admitted + 1) = Scale * admitted + Scale
  BY <1>1, Ceilings
<1>7. Scale * admitted' + tokens' = Scale * admitted + x
  BY <1>1, <1>3, <1>4, <1>6, Ceilings
<1> DEFINE a == Scale * admitted
<1>8. PerSecond * (a + x) <= PerSecond * (a + tokens) + PerSecond * f
  <2> HIDE DEF a
  <2>1. a \in Nat /\ a + x \in Nat /\ a + tokens + f \in Nat /\ a + x <= a + tokens + f
    BY <1>1, <1>2, <1>3, <1>6 DEF a
  <2>2. PerSecond * (a + x) <= PerSecond * (a + tokens + f)
    BY <2>1, Ceilings, ProductMonotone
  <2>3. PerSecond * (a + tokens + f) = PerSecond * (a + tokens) + PerSecond * f
    BY <1>1, <1>2, <2>1, Ceilings
  <2>4. QED
    BY <2>2, <2>3
<1>9. RateCeiling * last_refill + RateCeiling * e = RateCeiling * now
  BY <1>1, Ceilings
<1>10. PerSecond * (a + tokens) <= F + RateCeiling * last_refill
  BY DEF TokensAreEarned
<1>11. /\ F \in Nat /\ PerSecond * (a + tokens) \in Nat /\ PerSecond * f \in Nat
       /\ RateCeiling * last_refill \in Nat /\ RateCeiling * e \in Nat
       /\ PerSecond * (a + x) \in Nat /\ RateCeiling * now \in Nat
  <2>1. a + x \in Nat /\ a + tokens \in Nat
    BY <1>1, <1>3, <1>6
  <2>2. PerSecond * BurstCeiling \in Nat
    BY Ceilings, ProductMonotone
  <2> HIDE DEF a, e
  <2>3. QED
    BY <1>1, <1>2, <2>1, <2>2, Ceilings, ProductMonotone
<1>12. PerSecond * (a + x) <= F + RateCeiling * now
  <2> HIDE DEF a, F, e
  <2>1. QED
    BY <1>2, <1>8, <1>9, <1>10, <1>11
<1>13. TokensAreEarned'
  BY <1>4, <1>7, <1>12 DEF TokensAreEarned, BurstCeiling, RateCeiling
<1>14. QED
  BY <1>5, <1>13

(***************************************************************************)
(* THE BUCKET IS SOUND.  However requests, rebuilds and reconfigurations   *)
(* interleave their reads of rate and burst with the critical sections of  *)
(* configure and try_acquire, the bucket never holds more than the largest *)
(* burst, and what it has let through is covered by its fills and by the   *)
(* time it was refilled for, each instant counted once.                    *)
(***************************************************************************)
THEOREM BucketSoundness == BucketSpec => []BucketIsSound
<1>1. BucketInit => BucketIsSound
  <2> SUFFICES ASSUME BucketInit PROVE BucketIsSound
    OBVIOUS
  <2>1. BucketTypeOK
    BY TypeInit
  <2>2. TokensWithinBurst
    BY <2>1, Ceilings DEF BucketInit, BucketTypeOK, TokensWithinBurst
  <2>3. TokensAreEarned
    <3>0. /\ admitted = 0 /\ Scale * 0 = 0 /\ 0 + tokens = tokens
          /\ last_refill \in Nat /\ RateCeiling * last_refill \in Nat
          /\ PerSecond * BurstCeiling \in Nat
      BY <2>1, Ceilings, ProductMonotone DEF BucketInit, BucketTypeOK
    <3>1. CASE fills = 1
      <4>1. PerSecond * tokens <= PerSecond * BurstCeiling /\ PerSecond * tokens \in Nat
        BY <2>1, <2>2, Ceilings, ProductMonotone DEF BucketTypeOK, TokensWithinBurst
      <4>2. PerSecond * BurstCeiling * 1 = PerSecond * BurstCeiling
        BY <3>0
      <4>3. QED
        BY <3>0, <3>1, <4>1, <4>2 DEF TokensAreEarned
    <3>2. CASE fills = 0
      <4>1. tokens = 0
        BY <3>2 DEF BucketInit
      <4>2. PerSecond * 0 = 0 /\ PerSecond * BurstCeiling * 0 = 0
        BY <3>0, Ceilings
      <4>3. QED
        BY <3>0, <3>2, <4>1, <4>2 DEF TokensAreEarned
    <3>3. QED
      BY <3>1, <3>2 DEF BucketInit
  <2>4. QED
    BY <2>1, <2>2, <2>3 DEF BucketIsSound
<1>2. BucketIsSound /\ [BucketNext]_bucketVars => BucketIsSound'
  <2> SUFFICES ASSUME BucketIsSound, [BucketNext]_bucketVars PROVE BucketIsSound'
    OBVIOUS
  <2>1. BucketTypeOK /\ TokensWithinBurst /\ TokensAreEarned
    BY DEF BucketIsSound
  <2>2. BucketTypeOK'
    BY <2>1, TypeNext
  <2>3. TokensWithinBurst' /\ TokensAreEarned'
    <3>1. CASE \E p \in Processes : Fill(p)
      BY <2>1, <3>1, FillKeepsBounds
    <3>2. CASE \E t \in Threads : Consume(t)
      BY <2>1, <3>2, ConsumeKeepsBounds
    <3>3. CASE ~(\E p \in Processes : Fill(p)) /\ ~(\E t \in Threads : Consume(t))
      BY <2>1, <3>3, OnlyFillAndConsume
         DEF TokensWithinBurst, TokensAreEarned, BurstCeiling, RateCeiling
    <3>4. QED
      BY <3>1, <3>2, <3>3
  <2>4. QED
    BY <2>2, <2>3 DEF BucketIsSound
<1>3. QED
  BY <1>1, <1>2, PTL DEF BucketSpec

----------------------------------------------------------------------------
(***************************************************************************)
(* The verdicts of the active health checker.                              *)
(***************************************************************************)

Runs == [ok : BOOLEAN, len : 0 .. MaxRun]

(***************************************************************************)
(* What makes the type of the counters inductive: the counter that decides *)
(* the next verdict is short of the largest threshold, or the verdict would*)
(* have changed.                                                           *)
(***************************************************************************)
Undecided(h) == IF h.is_healthy THEN h.failures < MaxRun ELSE h.successes < MaxRun

(* One tracker and the row of results it has seen.                         *)
Matches(h, r) ==
    IF h.is_healthy THEN h.failures = IF r.ok THEN 0 ELSE r.len
                    ELSE h.successes = IF r.ok THEN r.len ELSE 0

(* The inductive invariant.                                                *)
HealthInv == HealthTypeOK /\ CountersMatchProbes /\ \A u \in Upstreams : Undecided(tracker[u])

\* A run of at least one result is told apart: thresholds are at least 1.
LEMMA MaxRunPositive == MaxRun \in Nat /\ MaxRun >= 1
  BY HealthAssumption

\* The settings' thresholds.
LEMMA Thresholds ==
  ASSUME NEW c \in HcConfigs
  PROVE  c.fall \in 1 .. MaxRun /\ c.rise \in 1 .. MaxRun
  BY HealthAssumption

LEMMA NewTrackerGood ==
  /\ NewTracker \in TrackerStates /\ NoRun \in Runs
  /\ Matches(NewTracker, NoRun) /\ Undecided(NewTracker) /\ NewTracker.is_healthy
  BY MaxRunPositive DEF NewTracker, NoRun, TrackerStates, Runs, Matches, Undecided

\* The fields of a tracker and of a run.
LEMMA TrackerFields ==
  ASSUME NEW b \in BOOLEAN, NEW m \in 0 .. MaxRun, NEW n \in 0 .. MaxRun
  PROVE  LET g == [is_healthy |-> b, failures |-> m, successes |-> n]
         IN g \in TrackerStates /\ (g.is_healthy <=> b) /\ g.failures = m /\ g.successes = n
  BY DEF TrackerStates

LEMMA RunFields ==
  ASSUME NEW b \in BOOLEAN, NEW n \in 0 .. MaxRun
  PROVE  LET s == [ok |-> b, len |-> n]
         IN s \in Runs /\ (s.ok <=> b) /\ s.len = n
  BY DEF Runs

\* A counter that is started again leaves the verdict.
LEMMA CounterReset ==
  ASSUME NEW h \in TrackerStates
  PROVE  /\ LET g == [h EXCEPT !.failures = 0]
            IN g \in TrackerStates /\ (g.is_healthy <=> h.is_healthy) /\ g.failures = 0
         /\ LET g == [h EXCEPT !.successes = 0]
            IN g \in TrackerStates /\ (g.is_healthy <=> h.is_healthy) /\ g.successes = 0
<1>1. 0 \in 0 .. MaxRun
  BY MaxRunPositive
<1>2. QED
  BY <1>1 DEF TrackerStates

\* The row of results: one longer if the result is as before, else a new one.
LEMMA RunGrows ==
  ASSUME NEW r \in Runs, NEW ok \in BOOLEAN
  PROVE  LET s == Longer(r, ok)
         IN /\ s \in Runs /\ (s.ok <=> ok)
            /\ s.len = IF r.len = 0 \/ r.ok # ok THEN 1
                       ELSE IF r.len < MaxRun THEN r.len + 1 ELSE MaxRun
<1> DEFINE n == IF r.len = 0 \/ r.ok # ok THEN 1
                ELSE IF r.len < MaxRun THEN r.len + 1 ELSE MaxRun
<1>1. r.len \in 0 .. MaxRun
  BY DEF Runs
<1>2. n = 1 \/ (r.len < MaxRun /\ n = r.len + 1) \/ n = MaxRun
  BY Zenon
<1>3. Longer(r, ok) = [ok |-> ok, len |-> n]
  BY Zenon DEF Longer
<1> HIDE DEF n
<1>4. n \in 0 .. MaxRun
  BY <1>1, <1>2, MaxRunPositive
<1>5. QED
  BY <1>3, <1>4, RunFields, Zenon DEF n

\* record_health_check_failure: the counter follows the row of failures, and
\* the verdict falls only when the row is as long as the threshold.
LEMMA FailureRecorded ==
  ASSUME NEW h \in TrackerStates, NEW r \in Runs, NEW fall \in 1 .. MaxRun,
         Matches(h, r), Undecided(h)
  PROVE  LET g == record_health_check_failure(h, fall)
             s == Longer(r, FALSE)
         IN /\ g \in TrackerStates /\ s \in Runs
            /\ Matches(g, s) /\ Undecided(g)
            /\ h.is_healthy /\ ~g.is_healthy => ~s.ok /\ s.len >= fall
            /\ ~(~h.is_healthy /\ g.is_healthy)
<1> DEFINE g == record_health_check_failure(h, fall)
           s == Longer(r, FALSE)
           n == h.failures + 1
<1>0. MaxRun \in Nat /\ MaxRun >= 1 /\ fall \in Nat /\ fall >= 1 /\ fall <= MaxRun
  BY MaxRunPositive
<1>1. h.failures \in 0 .. MaxRun /\ r.len \in 0 .. MaxRun /\ r.ok \in BOOLEAN
  BY DEF TrackerStates, Runs
<1>2. /\ s \in Runs /\ ~s.ok
      /\ s.len = IF r.len = 0 \/ r.ok # FALSE THEN 1
                 ELSE IF r.len < MaxRun THEN r.len + 1 ELSE MaxRun
  BY RunGrows
<1> HIDE DEF s
<1>3. CASE h.is_healthy
  <2>1. n \in 0 .. MaxRun
    BY <1>0, <1>1, <1>3 DEF Undecided
  <2> DEFINE b == n < fall
  <2>2. b \in BOOLEAN /\ 0 \in 0 .. MaxRun
    BY <1>0, <2>1
  <2>3. g = [is_healthy |-> b, failures |-> n, successes |-> 0]
    BY <1>3, Zenon DEF record_health_check_failure
  <2>4. s.len = n
    <3>1. CASE r.ok
      <4>0. r.ok # FALSE
        BY <3>1
      <4>1. s.len = 1
        BY <1>2, <4>0
      <4>2. h.failures = 0
        BY <1>3, <3>1 DEF Matches
      <4>3. QED
        BY <4>1, <4>2
    <3>2. CASE ~r.ok
      <4>0. r.ok = FALSE
        BY <1>1, <3>2
      <4>1. s.len = IF r.len = 0 THEN 1 ELSE IF r.len < MaxRun THEN r.len + 1 ELSE MaxRun
        BY <1>2, <4>0
      <4>2. h.failures = r.len /\ h.failures < MaxRun
        BY <1>3, <3>2 DEF Matches, Undecided
      <4>3. QED
        BY <1>0, <1>1, <4>1, <4>2
    <3>3. QED
      BY <3>1, <3>2
  <2> HIDE DEF b, n, g
  <2>5. g \in TrackerStates /\ (g.is_healthy <=> b) /\ g.failures = n /\ g.successes = 0
    BY <2>1, <2>2, <2>3, TrackerFields
  <2>6. Matches(g, s)
    BY <1>2, <2>4, <2>5 DEF Matches
  <2>7. Undecided(g) /\ (~g.is_healthy => s.len >= fall)
    BY <1>0, <2>1, <2>4, <2>5 DEF Undecided, b
  <2>8. QED
    BY <1>2, <1>3, <2>5, <2>6, <2>7 DEF g, s
<1>4. CASE ~h.is_healthy
  <2>1. g = [h EXCEPT !.successes = 0]
    BY <1>4, Zenon DEF record_health_check_failure
  <2> HIDE DEF g
  <2>2. ~g.is_healthy /\ g.successes = 0 /\ g \in TrackerStates
    BY <1>4, <2>1, CounterReset
  <2>3. Matches(g, s) /\ Undecided(g)
    BY <1>0, <1>2, <2>2 DEF Matches, Undecided
  <2>4. QED
    BY <1>2, <1>4, <2>2, <2>3 DEF g, s
<1>5. QED
  BY <1>3, <1>4

\* record_health_check_success: the same for the row of successes.
LEMMA SuccessRecorded ==
  ASSUME NEW h \in TrackerStates, NEW r \in Runs, NEW rise \in 1 .. MaxRun,
         Matches(h, r), Undecided(h)
  PROVE  LET g == record_health_check_success(h, rise)
             s == Longer(r, TRUE)
         IN /\ g \in TrackerStates /\ s \in Runs
            /\ Matches(g, s) /\ Undecided(g)
            /\ ~h.is_healthy /\ g.is_healthy => s.ok /\ s.len >= rise
            /\ ~(h.is_healthy /\ ~g.is_healthy)
<1> DEFINE g == record_health_check_success(h, rise)
           s == Longer(r, TRUE)
           n == h.successes + 1
<1>0. MaxRun \in Nat /\ MaxRun >= 1 /\ rise \in Nat /\ rise >= 1 /\ rise <= MaxRun
  BY MaxRunPositive
<1>1. h.successes \in 0 .. MaxRun /\ r.len \in 0 .. MaxRun /\ r.ok \in BOOLEAN
  BY DEF TrackerStates, Runs
<1>2. /\ s \in Runs /\ s.ok
      /\ s.len = IF r.len = 0 \/ r.ok # TRUE THEN 1
                 ELSE IF r.len < MaxRun THEN r.len + 1 ELSE MaxRun
  BY RunGrows
<1> HIDE DEF s
<1>3. CASE ~h.is_healthy
  <2>1. n \in 0 .. MaxRun
    BY <1>0, <1>1, <1>3 DEF Undecided
  <2> DEFINE b == n >= rise
  <2>2. b \in BOOLEAN /\ 0 \in 0 .. MaxRun
    BY <1>0, <2>1
  <2>3. g = [is_healthy |-> b, failures |-> 0, successes |-> n]
    BY <1>3, Zenon DEF record_health_check_success
  <2>4. s.len = n
    <3>1. CASE ~r.ok
      <4>0. r.ok # TRUE
        BY <3>1
      <4>1. s.len = 1
        BY <1>2, <4>0
      <4>2. h.successes = 0
        BY <1>3, <3>1 DEF Matches
      <4>3. QED
        BY <4>1, <4>2
    <3>2. CASE r.ok
      <4>0. r.ok = TRUE
        BY <1>1, <3>2
      <4>1. s.len = IF r.len = 0 THEN 1 ELSE IF r.len < MaxRun THEN r.len + 1 ELSE MaxRun
        BY <1>2, <4>0
      <4>2. h.successes = r.len /\ h.successes < MaxRun
        BY <1>3, <3>2 DEF Matches, Undecided
      <4>3. QED
        BY <1>0, <1>1, <4>1, <4>2
    <3>3. QED
      BY <3>1, <3>2
  <2> HIDE DEF b, n, g
  <2>5. g \in TrackerStates /\ (g.is_healthy <=> b) /\ g.failures = 0 /\ g.successes = n
    BY <2>1, <2>2, <2>3, TrackerFields
  <2>6. Matches(g, s)
    BY <1>2, <2>4, <2>5 DEF Matches
  <2>7. Undecided(g) /\ (g.is_healthy => s.len >= rise)
    BY <1>0, <2>1, <2>4, <2>5 DEF Undecided, b
  <2>8. QED
    BY <1>2, <1>3, <2>5, <2>6, <2>7 DEF g, s
<1>4. CASE h.is_healthy
  <2>1. g = [h EXCEPT !.failures = 0]
    BY <1>4, Zenon DEF record_health_check_success
  <2> HIDE DEF g
  <2>2. g.is_healthy /\ g.failures = 0 /\ g \in TrackerStates
    BY <1>4, <2>1, CounterReset
  <2>3. Matches(g, s) /\ Undecided(g)
    BY <1>0, <1>2, <2>2 DEF Matches, Undecided
  <2>4. QED
    BY <1>2, <1>4, <2>2, <2>3 DEF g, s
<1>5. QED
  BY <1>3, <1>4

----------------------------------------------------------------------------
\* The invariant in terms of single trackers.
LEMMA IInvUnfolds ==
  HealthInv <=> /\ HealthTypeOK
           /\ \A u \in Upstreams : Matches(tracker[u], run[u]) /\ Undecided(tracker[u])
  BY DEF HealthInv, CountersMatchProbes, Matches

LEMMA HealthInvInit == HealthInit => HealthInv
<1> SUFFICES ASSUME HealthInit PROVE HealthInv
  OBVIOUS
<1>1. HealthTypeOK
  <2>1. /\ config \in HcConfigs /\ checker \in HcConfigs
        /\ all_targets \subseteq Upstreams /\ up \subseteq Upstreams
        /\ loop \in {"wait", "round", "stopped"}
        /\ probe \in [Upstreams -> {"none", "current", "orphaned"}]
    BY DEF HealthInit
  <2>2. shutdown \in BOOLEAN
    BY DEF HealthInit
  <2>3. resets \in 0 .. MaxResets
    BY HealthAssumption DEF HealthInit
  <2>4. tracker \in [Upstreams -> TrackerStates] /\ run \in [Upstreams -> Runs]
    BY NewTrackerGood DEF HealthInit
  <2>5. QED
    BY <2>1, <2>2, <2>3, <2>4 DEF HealthTypeOK, Runs
<1>2. \A u \in Upstreams : Matches(tracker[u], run[u]) /\ Undecided(tracker[u])
  BY NewTrackerGood DEF HealthInit
<1>3. QED
  BY <1>1, <1>2, IInvUnfolds

\* The end of a probe: only the tracker of its URL learns of it, and only if
\* it has not been replaced.
LEMMA ProbeEnds ==
  ASSUME HealthInv, NEW u \in Upstreams, CheckTarget(u)
  PROVE  /\ tracker' \in [Upstreams -> TrackerStates] /\ run' \in [Upstreams -> Runs]
         /\ \A v \in Upstreams : Matches(tracker'[v], run'[v]) /\ Undecided(tracker'[v])
         /\ \A v \in Upstreams :
               /\ Fell(v) => ~run'[v].ok /\ run'[v].len >= checker.fall
               /\ Rose(v) => run'[v].ok /\ run'[v].len >= checker.rise
<1>1. /\ tracker \in [Upstreams -> TrackerStates] /\ run \in [Upstreams -> Runs]
      /\ \A v \in Upstreams : Matches(tracker[v], run[v]) /\ Undecided(tracker[v])
      /\ checker.fall \in 1 .. MaxRun /\ checker.rise \in 1 .. MaxRun
  BY IInvUnfolds, Thresholds DEF HealthTypeOK, Runs
<1>2. CASE probe[u] # "current"
  <2>1. tracker' = tracker /\ run' = run
    BY <1>2 DEF CheckTarget
  <2>2. QED
    BY <1>1, <2>1 DEF Fell, Rose
<1>3. CASE probe[u] = "current" /\ u \in up
  <2> DEFINE g == record_health_check_success(tracker[u], checker.rise)
             s == Longer(run[u], TRUE)
  <2>1. tracker' = [tracker EXCEPT ![u] = g] /\ run' = [run EXCEPT ![u] = s]
    BY <1>3, Zenon DEF CheckTarget
  <2>2. /\ g \in TrackerStates /\ s \in Runs /\ Matches(g, s) /\ Undecided(g)
        /\ ~tracker[u].is_healthy /\ g.is_healthy => s.ok /\ s.len >= checker.rise
        /\ ~(tracker[u].is_healthy /\ ~g.is_healthy)
    BY <1>1, SuccessRecorded
  <2> HIDE DEF g, s
  <2>3. /\ tracker'[u] = g /\ run'[u] = s
        /\ \A v \in Upstreams : v # u => tracker'[v] = tracker[v] /\ run'[v] = run[v]
        /\ tracker' \in [Upstreams -> TrackerStates] /\ run' \in [Upstreams -> Runs]
    BY <1>1, <2>1, <2>2
  <2>4. QED
    BY <1>1, <2>2, <2>3 DEF Fell, Rose
<1>4. CASE probe[u] = "current" /\ u \notin up
  <2> DEFINE g == record_health_check_failure(tracker[u], checker.fall)
             s == Longer(run[u], FALSE)
  <2>1. tracker' = [tracker EXCEPT ![u] = g] /\ run' = [run EXCEPT ![u] = s]
    <3>1. (u \in up) = FALSE
      BY <1>4
    <3>2. /\ tracker' = [tracker EXCEPT ![u] = g]
          /\ run' = [run EXCEPT ![u] = Longer(run[u], u \in up)]
      BY <1>4, Zenon DEF CheckTarget
    <3>3. QED
      BY <3>1, <3>2, Zenon
  <2>2. /\ g \in TrackerStates /\ s \in Runs /\ Matches(g, s) /\ Undecided(g)
        /\ tracker[u].is_healthy /\ ~g.is_healthy => ~s.ok /\ s.len >= checker.fall
        /\ ~(~tracker[u].is_healthy /\ g.is_healthy)
    BY <1>1, FailureRecorded
  <2> HIDE DEF g, s
  <2>3. /\ tracker'[u] = g /\ run'[u] = s
        /\ \A v \in Upstreams : v # u => tracker'[v] = tracker[v] /\ run'[v] = run[v]
        /\ tracker' \in [Upstreams -> TrackerStates] /\ run' \in [Upstreams -> Runs]
    BY <1>1, <2>1, <2>2
  <2>4. QED
    BY <1>1, <2>2, <2>3 DEF Fell, Rose
<1>5. QED
  BY <1>2, <1>3, <1>4

\* A tracker is replaced, with the record of its results, or nothing happens
\* to it.
LEMMA Replaced ==
  ASSUME HealthInv, NEW S \in SUBSET Upstreams,
         tracker' = [u \in Upstreams |-> IF u \in S THEN NewTracker ELSE tracker[u]],
         run' = [u \in Upstreams |-> IF u \in S THEN NoRun ELSE run[u]]
  PROVE  /\ tracker' \in [Upstreams -> TrackerStates] /\ run' \in [Upstreams -> Runs]
         /\ \A v \in Upstreams : Matches(tracker'[v], run'[v]) /\ Undecided(tracker'[v])
         /\ \A v \in Upstreams : ~Fell(v) /\ (Rose(v) => run'[v] = NoRun)
<1>1. /\ tracker \in [Upstreams -> TrackerStates] /\ run \in [Upstreams -> Runs]
      /\ \A v \in Upstreams : Matches(tracker[v], run[v]) /\ Undecided(tracker[v])
  BY IInvUnfolds DEF HealthTypeOK, Runs
<1>2. QED
  BY <1>1, NewTrackerGood DEF Fell, Rose

\* The verdict of a step, of whatever kind.
VerdictStep ==
    \A u \in Upstreams :
       /\ Fell(u) => ~run'[u].ok /\ run'[u].len >= checker.fall
       /\ Rose(u) => \/ run'[u].ok /\ run'[u].len >= checker.rise
                     \/ run'[u] = NoRun

LEMMA HealthInvNext == HealthInv /\ [HealthNext]_healthVars => HealthInv' /\ VerdictStep
<1> SUFFICES ASSUME HealthInv, [HealthNext]_healthVars PROVE HealthInv' /\ VerdictStep
  OBVIOUS
<1> USE DEF env, task
<1>0. /\ HealthTypeOK /\ tracker \in [Upstreams -> TrackerStates] /\ run \in [Upstreams -> Runs]
  BY IInvUnfolds DEF HealthTypeOK, Runs
<1>a. ASSUME UNCHANGED <<tracker, run>>, HealthTypeOK'
      PROVE  HealthInv' /\ VerdictStep
  BY <1>a, IInvUnfolds DEF HealthInv, CountersMatchProbes, VerdictStep, Fell, Rose
<1>b. ASSUME HealthTypeOK',
             \A v \in Upstreams : Matches(tracker'[v], run'[v]) /\ Undecided(tracker'[v])
      PROVE  HealthInv'
  BY <1>b DEF HealthInv, CountersMatchProbes, Matches
<1>1. CASE Tick
  <2>1. UNCHANGED <<tracker, run>>
    BY <1>1 DEF Tick
  <2>2. HealthTypeOK'
    BY <1>0, <1>1 DEF Tick, HealthTypeOK, Top
  <2>3. QED
    BY <1>a, <2>1, <2>2
<1>2. CASE Stop
  <2>1. UNCHANGED <<tracker, run>> /\ HealthTypeOK'
    BY <1>0, <1>2 DEF Stop, HealthTypeOK
  <2>2. QED
    BY <1>a, <2>1
<1>3. CASE UpdateConfig
  <2>1. UNCHANGED <<tracker, run>> /\ HealthTypeOK'
    BY <1>0, <1>3 DEF UpdateConfig, HealthTypeOK
  <2>2. QED
    BY <1>a, <2>1
<1>4. CASE SwapTargets
  <2>1. UNCHANGED <<tracker, run>> /\ HealthTypeOK'
    BY <1>0, <1>4 DEF SwapTargets, HealthTypeOK
  <2>2. QED
    BY <1>a, <2>1
<1>5. CASE ReconfigureCircuitBreaker
  <2>1. /\ tracker' = [u \in Upstreams |-> IF u \in Upstreams THEN NewTracker ELSE tracker[u]]
        /\ run' = [u \in Upstreams |-> IF u \in Upstreams THEN NoRun ELSE run[u]]
    BY <1>5 DEF ReconfigureCircuitBreaker
  <2>2. /\ tracker' \in [Upstreams -> TrackerStates] /\ run' \in [Upstreams -> Runs]
        /\ \A v \in Upstreams : Matches(tracker'[v], run'[v]) /\ Undecided(tracker'[v])
        /\ \A v \in Upstreams : ~Fell(v) /\ (Rose(v) => run'[v] = NoRun)
    BY <2>1, Replaced
  <2>3. HealthTypeOK'
    BY <1>0, <1>5, <2>2, HealthAssumption DEF ReconfigureCircuitBreaker, HealthTypeOK, Runs
  <2>4. QED
    BY <1>b, <2>2, <2>3 DEF VerdictStep
<1>6. CASE Shutdown
  <2>1. UNCHANGED <<tracker, run>> /\ HealthTypeOK'
    BY <1>0, <1>6 DEF Shutdown, HealthTypeOK
  <2>2. QED
    BY <1>a, <2>1
<1>7. ASSUME NEW u \in Upstreams, CheckTarget(u) PROVE HealthInv' /\ VerdictStep
  <2>1. /\ tracker' \in [Upstreams -> TrackerStates] /\ run' \in [Upstreams -> Runs]
        /\ \A v \in Upstreams : Matches(tracker'[v], run'[v]) /\ Undecided(tracker'[v])
        /\ \A v \in Upstreams :
              /\ Fell(v) => ~run'[v].ok /\ run'[v].len >= checker.fall
              /\ Rose(v) => run'[v].ok /\ run'[v].len >= checker.rise
    BY <1>7, ProbeEnds
  <2>2. /\ probe' = [probe EXCEPT ![u] = "none"] /\ loop' \in {Top, "round"}
        /\ UNCHANGED <<env, checker>>
    BY <1>7 DEF CheckTarget
  <2>3. HealthTypeOK'
    BY <1>0, <2>1, <2>2 DEF HealthTypeOK, Top, Runs
  <2>4. QED
    BY <1>b, <2>1, <2>3 DEF VerdictStep
<1>8. ASSUME NEW u \in Upstreams, Forget(u) PROVE HealthInv' /\ VerdictStep
  <2>1. /\ tracker' = [v \in Upstreams |-> IF v \in {u} THEN NewTracker ELSE tracker[v]]
        /\ run' = [v \in Upstreams |-> IF v \in {u} THEN NoRun ELSE run[v]]
    BY <1>0, <1>8 DEF Forget
  <2>2. /\ tracker' \in [Upstreams -> TrackerStates] /\ run' \in [Upstreams -> Runs]
        /\ \A v \in Upstreams : Matches(tracker'[v], run'[v]) /\ Undecided(tracker'[v])
        /\ \A v \in Upstreams : ~Fell(v) /\ (Rose(v) => run'[v] = NoRun)
    BY <2>1, Replaced
  <2>3. HealthTypeOK'
    BY <1>0, <1>8, <2>2 DEF Forget, HealthTypeOK, Runs
  <2>4. QED
    BY <1>b, <2>2, <2>3 DEF VerdictStep
<1>9. ASSUME NEW u \in Upstreams, ChangeHealth(u) PROVE HealthInv' /\ VerdictStep
  <2>1. UNCHANGED <<tracker, run>> /\ HealthTypeOK'
    BY <1>0, <1>9 DEF ChangeHealth, HealthTypeOK
  <2>2. QED
    BY <1>a, <2>1
<1>10. CASE UNCHANGED healthVars
  <2>1. UNCHANGED <<tracker, run>> /\ HealthTypeOK'
    BY <1>0, <1>10 DEF healthVars, HealthTypeOK
  <2>2. QED
    BY <1>a, <2>1
<1>11. QED
  BY <1>1, <1>2, <1>3, <1>4, <1>5, <1>6, <1>7, <1>8, <1>9, <1>10 DEF HealthNext

(***************************************************************************)
(* VERDICTS FOLLOW PROBES.  Across changes of the settings, table swaps,   *)
(* forgotten targets and trackers replaced under probes in flight, the     *)
(* counters of a tracker count the results in a row, stay in range, and a  *)
(* verdict changes only on as many results in a row as the threshold of the*)
(* round asks for.                                                         *)
(***************************************************************************)
THEOREM VerdictSoundness == HealthSpec => VerdictsFollowProbes
<1>1. HealthSpec => []HealthInv
  BY HealthInvInit, HealthInvNext, PTL DEF HealthSpec
<1>2. HealthInv => HealthTypeOK /\ CountersMatchProbes
  BY DEF HealthInv
<1>3. HealthInv /\ [HealthNext]_healthVars =>
        [\A u \in Upstreams :
            /\ Fell(u) => ~run'[u].ok /\ run'[u].len >= checker.fall
            /\ Rose(u) => \/ run'[u].ok /\ run'[u].len >= checker.rise
                          \/ run'[u] = NoRun]_healthVars
  BY HealthInvNext DEF VerdictStep
<1>4. HealthSpec => [](HealthTypeOK /\ CountersMatchProbes)
  BY <1>1, <1>2, PTL
<1>5. HealthSpec => VerdictsNeedARow
  BY <1>1, <1>3, PTL DEF HealthSpec, VerdictsNeedARow
<1>6. QED
  BY <1>4, <1>5 DEF VerdictsFollowProbes

----------------------------------------------------------------------------
(***************************************************************************)
(* Connection slots.                                                       *)
(***************************************************************************)

(***************************************************************************)
(* The inductive invariant.  A request that has picked a target knows its  *)
(* URL and its counter; every strong reference to a counter agrees with    *)
(* the registry's entry, so that an upgrade that fails proves the URL idle;*)
(* two URLs never share a counter; and the entry's counter is exact.       *)
(***************************************************************************)
PhaseInv ==
    \A r \in Requests :
       IF phase[r] = "idle" THEN ctr[r] = None
                            ELSE url[r] \in Urls /\ ctr[r] \in Counters

ReferencesAgree ==
    /\ \A u \in Urls : table[u] # None => table[u] = registry[u]
    /\ \A u \in Urls : partial[u] # None => partial[u] = registry[u]
    /\ \A r \in Requests : ctr[r] # None => ctr[r] = registry[url[r]]

CountersDistinct ==
    \A u, v \in Urls : registry[u] # None /\ registry[u] = registry[v] => u = v

EntryExact ==
    \A u \in Urls :
       registry[u] # None => count[registry[u]] = Cardinality(Holders(u))

SlotsInv ==
    /\ SlotsTypeOK
    /\ PhaseInv
    /\ ReferencesAgree
    /\ CountersDistinct
    /\ EntryExact

(***************************************************************************)
(* A URL's holders are a finite set, so that they can be counted.          *)
(***************************************************************************)
LEMMA HoldersFinite ==
    ASSUME NEW u
    PROVE  IsFiniteSet(Holders(u)) /\ Cardinality(Holders(u)) \in Nat
  <1>1. Holders(u) \in SUBSET Requests
    BY DEF Holders
  <1> QED
    BY <1>1, SlotsAssumption, FS_Subset, FS_CardinalityType

(***************************************************************************)
(* A URL whose entry cannot be upgraded is referred to by nobody.          *)
(***************************************************************************)
LEMMA DeadEntryIsUnused ==
    ASSUME SlotsInv, NEW u \in Urls, ~Upgradable(u)
    PROVE  /\ table[u] = None
           /\ partial[u] = None
           /\ \A r \in Requests : phase[r] # "idle" => url[r] # u
           /\ Holders(u) = {}
  <1>1. table[u] = None /\ partial[u] = None
    BY DEF SlotsInv, ReferencesAgree, Upgradable, Live
  <1>2. ASSUME NEW r \in Requests, phase[r] # "idle", url[r] = u
        PROVE  FALSE
    <2>1. ctr[r] \in Counters /\ ctr[r] # None
      BY <1>2, SlotsAssumption DEF SlotsInv, PhaseInv
    <2>2. ctr[r] = registry[u]
      BY <1>2, <2>1 DEF SlotsInv, ReferencesAgree
    <2> QED
      BY <2>1, <2>2 DEF Upgradable, Live
  <1> QED
    BY <1>1, <1>2 DEF Holders

(***************************************************************************)
(* Looking a counter up keeps the invariant: an upgraded counter is the one*)
(* every other reference has, a new one replaces an entry nobody uses.     *)
(***************************************************************************)
LEMMA ApplyDefinitionStep ==
    ASSUME SlotsInv, NEW u \in Urls, ApplyDefinition(u)
    PROVE  SlotsInv'
  <1> USE SlotsAssumption
  <1>0. /\ UNCHANGED <<max_connections, table, building, phase, url, ctr, limit, current>>
        /\ pending' = pending \ {u}
        /\ active_connections_for(u)
    BY DEF ApplyDefinition, request
  <1>1. \A v : Holders(v)' = Holders(v)
    BY <1>0 DEF Holders
  <1>2. CASE Upgradable(u)
    <2>1. /\ partial' = [partial EXCEPT ![u] = registry[u]]
          /\ UNCHANGED <<registry, count>>
      BY <1>0, <1>2 DEF active_connections_for
    <2>2. SlotsTypeOK'
      BY <1>0, <2>1 DEF SlotsInv, SlotsTypeOK
    <2>3. PhaseInv' /\ CountersDistinct'
      BY <1>0, <2>1 DEF SlotsInv, PhaseInv, CountersDistinct
    <2>4. ReferencesAgree'
      BY <1>0, <2>1 DEF SlotsInv, ReferencesAgree, SlotsTypeOK
    <2>5. EntryExact'
      BY <1>1, <2>1 DEF SlotsInv, EntryExact
    <2> QED
      BY <2>2, <2>3, <2>4, <2>5 DEF SlotsInv
  <1>3. CASE ~Upgradable(u)
    <2>1. PICK c \in Fresh :
             /\ registry' = [Pruned EXCEPT ![u] = c]
             /\ partial' = [partial EXCEPT ![u] = c]
             /\ count' = [count EXCEPT ![c] = 0]
      BY <1>0, <1>3 DEF active_connections_for, NewCounter
    <2>2. /\ c \in Counters /\ c # None
          /\ \A v \in Urls : registry[v] # c
      BY DEF Fresh
    <2>3. /\ Pruned \in [Urls -> Counters \cup {None}]
          /\ \A v \in Urls : Pruned[v] = registry[v] \/ (Pruned[v] = None /\ ~Upgradable(v))
      BY DEF Pruned, SlotsInv, SlotsTypeOK
    <2>4. /\ registry'[u] = c
          /\ \A v \in Urls : v # u => registry'[v] = Pruned[v]
      BY <2>1, <2>3
    <2>5. SlotsTypeOK'
      BY <1>0, <2>1, <2>2, <2>3 DEF SlotsInv, SlotsTypeOK
    <2>6. PhaseInv'
      BY <1>0 DEF SlotsInv, PhaseInv
    <2>7. CountersDistinct'
      BY <2>2, <2>3, <2>4 DEF SlotsInv, CountersDistinct
    <2>8. ReferencesAgree'
      <3>1. \A v \in Urls : table'[v] # None => table'[v] = registry'[v]
        BY <1>0, <1>3, <2>3, <2>4, DeadEntryIsUnused DEF SlotsInv, ReferencesAgree
      <3>2. \A v \in Urls : partial'[v] # None => partial'[v] = registry'[v]
        BY <1>3, <2>1, <2>3, <2>4, DeadEntryIsUnused DEF SlotsInv, ReferencesAgree, SlotsTypeOK
      <3>3. ASSUME NEW r \in Requests, ctr'[r] # None
            PROVE  ctr'[r] = registry'[url'[r]]
        <4>1. phase[r] # "idle" /\ url[r] \in Urls /\ ctr[r] = registry[url[r]]
          BY <1>0, <3>3 DEF SlotsInv, PhaseInv, ReferencesAgree
        <4>2. Upgradable(url[r])
          BY <4>1, DeadEntryIsUnused
        <4> QED
          BY <1>0, <1>3, <4>1, <4>2, <2>3, <2>4
      <3> QED
        BY <3>1, <3>2, <3>3 DEF ReferencesAgree
    <2>9. EntryExact'
      <3>1. Cardinality(Holders(u)) = 0
        BY <1>3, DeadEntryIsUnused, FS_EmptySet
      <3>2. count'[c] = 0 /\ \A d \in Counters : d # c => count'[d] = count[d]
        BY <2>1, <2>2 DEF SlotsInv, SlotsTypeOK
      <3>3. ASSUME NEW v \in Urls, registry'[v] # None
            PROVE  count'[registry'[v]] = Cardinality(Holders(v))
        <4>1. CASE v = u
          BY <4>1, <2>4, <3>1, <3>2
        <4>2. CASE v # u
          <5>1. registry'[v] = registry[v] /\ registry[v] \in Counters
            BY <4>2, <3>3, <2>3, <2>4 DEF SlotsInv, SlotsTypeOK
          <5> QED
            BY <5>1, <3>2, <3>3, <2>2 DEF SlotsInv, EntryExact
        <4> QED
          BY <4>1, <4>2
      <3> QED
        BY <3>3, <1>1 DEF EntryExact
    <2> QED
      BY <2>5, <2>6, <2>7, <2>8, <2>9 DEF SlotsInv
  <1> QED
    BY <1>2, <1>3

(***************************************************************************)
(* Taking a slot adds one holder and one to its URL's counter.             *)
(***************************************************************************)
LEMMA TakeSlot ==
    ASSUME SlotsInv, NEW r \in Requests, phase[r] \in {"picked", "cas"},
           phase' = [phase EXCEPT ![r] = "held"],
           count' = [count EXCEPT ![ctr[r]] = count[ctr[r]] + 1],
           UNCHANGED <<max_connections, registry, table, building, pending,
                       partial, url, ctr>>,
           limit' \in [Requests -> Nat], current' \in [Requests -> Nat]
    PROVE  /\ SlotsInv'
           /\ Cardinality(Holders(url[r])') = count[ctr[r]] + 1
  <1> USE SlotsAssumption
  <1>1. /\ url[r] \in Urls /\ ctr[r] \in Counters /\ ctr[r] # None
        /\ ctr[r] = registry[url[r]]
        /\ count[ctr[r]] \in Nat
    BY DEF SlotsInv, PhaseInv, ReferencesAgree, SlotsTypeOK
  <1>2. Holders(url[r])' = Holders(url[r]) \cup {r} /\ r \notin Holders(url[r])
    BY DEF Holders, SlotsInv, SlotsTypeOK
  <1>3. \A u \in Urls : u # url[r] => Holders(u)' = Holders(u)
    BY DEF Holders, SlotsInv, SlotsTypeOK
  <1>4. Cardinality(Holders(url[r])') = Cardinality(Holders(url[r])) + 1
    BY <1>2, HoldersFinite, FS_AddElement
  <1>5. Cardinality(Holders(url[r])') = count[ctr[r]] + 1
    BY <1>1, <1>4 DEF SlotsInv, EntryExact
  <1>6. SlotsTypeOK'
    <2>1. count' \in [Counters -> Nat] /\ phase' \in [Requests -> Phases]
      BY <1>1 DEF SlotsInv, SlotsTypeOK, Phases
    <2> QED
      BY <2>1 DEF SlotsInv, SlotsTypeOK
  <1>7. PhaseInv' /\ ReferencesAgree' /\ CountersDistinct'
    BY <1>1 DEF SlotsInv, PhaseInv, ReferencesAgree, CountersDistinct, SlotsTypeOK
  <1>8. EntryExact'
    <2> SUFFICES ASSUME NEW u \in Urls, registry[u] # None
                 PROVE  count'[registry[u]] = Cardinality(Holders(u)')
      BY DEF EntryExact
    <2>1. CASE u = url[r]
      BY <2>1, <1>1, <1>5 DEF SlotsInv, SlotsTypeOK
    <2>2. CASE u # url[r]
      <3>1. registry[u] # ctr[r] /\ registry[u] \in Counters
        BY <2>2, <1>1 DEF SlotsInv, CountersDistinct, SlotsTypeOK
      <3>2. count'[registry[u]] = count[registry[u]]
        BY <3>1 DEF SlotsInv, SlotsTypeOK
      <3> QED
        BY <2>2, <3>2, <1>3 DEF SlotsInv, EntryExact
    <2> QED
      BY <2>1, <2>2
  <1> QED
    BY <1>5, <1>6, <1>7, <1>8 DEF SlotsInv

(***************************************************************************)
(* Leaving without a slot changes no holder.                               *)
(***************************************************************************)
LEMMA LeaveWithoutSlot ==
    ASSUME SlotsInv, NEW r \in Requests, phase[r] \in {"picked", "cas"}, Leave(r),
           UNCHANGED <<max_connections, rebuild, count>>
    PROVE  SlotsInv'
  <1> USE SlotsAssumption
  <1>1. \A u : Holders(u)' = Holders(u)
    BY DEF Holders, Leave, SlotsInv, SlotsTypeOK
  <1>2. SlotsTypeOK'
    BY DEF SlotsInv, SlotsTypeOK, Leave, rebuild, Phases, NoUrl
  <1>3. PhaseInv' /\ ReferencesAgree' /\ CountersDistinct'
    BY DEF SlotsInv, PhaseInv, ReferencesAgree, CountersDistinct, SlotsTypeOK, Leave, rebuild
  <1>4. EntryExact'
    BY <1>1 DEF SlotsInv, EntryExact, rebuild
  <1> QED
    BY <1>2, <1>3, <1>4 DEF SlotsInv

(***************************************************************************)
(* Releasing a slot takes one holder and one from its URL's counter, which *)
(* was therefore positive.                                                 *)
(***************************************************************************)
LEMMA ReleaseStep ==
    ASSUME SlotsInv, NEW r \in Requests, Release(r)
    PROVE  SlotsInv'
  <1> USE SlotsAssumption
  <1>1. /\ phase[r] = "held" /\ url[r] \in Urls /\ ctr[r] \in Counters
        /\ ctr[r] # None /\ ctr[r] = registry[url[r]]
        /\ count[ctr[r]] \in Nat
    BY DEF Release, SlotsInv, PhaseInv, ReferencesAgree, SlotsTypeOK
  <1>0. PICK w \in Urls : w = url[r]
    BY <1>1
  <1>2. Holders(w)' = Holders(w) \ {r} /\ r \in Holders(w)
    BY <1>1, <1>0 DEF Holders, Release, Leave, SlotsInv, SlotsTypeOK
  <1>3. \A u \in Urls : u # w => Holders(u)' = Holders(u)
    BY <1>1, <1>0 DEF Holders, Release, Leave, SlotsInv, SlotsTypeOK
  <1>4. /\ Cardinality(Holders(w)') = Cardinality(Holders(w)) - 1
        /\ Cardinality(Holders(w)') \in Nat
    BY <1>2, HoldersFinite, FS_RemoveElement, FS_CardinalityType
  <1>5. /\ Cardinality(Holders(w)') = count[ctr[r]] - 1
        /\ count[ctr[r]] - 1 \in Nat
    BY <1>1, <1>0, <1>4 DEF SlotsInv, EntryExact
  <1>6. SlotsTypeOK'
    BY <1>1, <1>5 DEF SlotsInv, SlotsTypeOK, Release, Leave, rebuild, Phases, NoUrl
  <1>7. PhaseInv' /\ ReferencesAgree' /\ CountersDistinct'
    BY <1>1 DEF SlotsInv, PhaseInv, ReferencesAgree, CountersDistinct, SlotsTypeOK, Release,
       Leave, rebuild
  <1>8. EntryExact'
    <2> SUFFICES ASSUME NEW u \in Urls, registry[u] # None
                 PROVE  count'[registry[u]] = Cardinality(Holders(u)')
      BY DEF EntryExact, Release, rebuild
    <2>1. CASE u = w
      BY <2>1, <1>1, <1>0, <1>5 DEF SlotsInv, SlotsTypeOK, Release
    <2>2. CASE u # w
      <3>1. registry[u] # ctr[r] /\ registry[u] \in Counters
        BY <2>2, <1>1, <1>0 DEF SlotsInv, CountersDistinct, SlotsTypeOK
      <3>2. count'[registry[u]] = count[registry[u]]
        BY <3>1 DEF SlotsInv, SlotsTypeOK, Release
      <3> QED
        BY <2>2, <3>2, <1>3 DEF SlotsInv, EntryExact
    <2> QED
      BY <2>1, <2>2
  <1> QED
    BY <1>6, <1>7, <1>8 DEF SlotsInv

(***************************************************************************)
(* Picking a target and reading its counter change no holder.              *)
(***************************************************************************)
LEMMA PickStep ==
    ASSUME SlotsInv, NEW r \in Requests, NEW u \in Urls, Pick(r, u)
    PROVE  SlotsInv'
  <1> USE SlotsAssumption
  <1>1. \A v : Holders(v)' = Holders(v)
    BY DEF Holders, Pick, SlotsInv, SlotsTypeOK
  <1>2. table[u] \in Counters /\ table[u] = registry[u]
    BY DEF Pick, SlotsInv, SlotsTypeOK, ReferencesAgree
  <1>3. SlotsTypeOK'
    BY <1>2 DEF SlotsInv, SlotsTypeOK, Pick, rebuild, Phases
  <1>4. PhaseInv' /\ ReferencesAgree' /\ CountersDistinct'
    BY <1>2 DEF SlotsInv, PhaseInv, ReferencesAgree, CountersDistinct, SlotsTypeOK, Pick, rebuild
  <1>5. EntryExact'
    BY <1>1 DEF SlotsInv, EntryExact, Pick, rebuild
  <1> QED
    BY <1>3, <1>4, <1>5 DEF SlotsInv

(***************************************************************************)
(* Entering the CAS loop, and losing a race in it, change no holder.       *)
(***************************************************************************)
LEMMA LoadStep ==
    ASSUME SlotsInv, NEW r \in Requests, phase[r] \in {"picked", "cas"},
           phase' = [phase EXCEPT ![r] = "cas"],
           current' = [current EXCEPT ![r] = count[ctr[r]]],
           limit' \in [Requests -> Nat],
           UNCHANGED <<max_connections, rebuild, count, url, ctr>>
    PROVE  SlotsInv'
  <1> USE SlotsAssumption
  <1>1. \A u : Holders(u)' = Holders(u)
    BY DEF Holders, SlotsInv, SlotsTypeOK
  <1>2. count[ctr[r]] \in Nat
    BY DEF SlotsInv, PhaseInv, SlotsTypeOK
  <1>3. SlotsTypeOK'
    BY <1>2 DEF SlotsInv, SlotsTypeOK, rebuild, Phases
  <1>4. PhaseInv' /\ ReferencesAgree' /\ CountersDistinct'
    BY DEF SlotsInv, PhaseInv, ReferencesAgree, CountersDistinct, SlotsTypeOK, rebuild
  <1>5. EntryExact'
    BY <1>1 DEF SlotsInv, EntryExact, rebuild
  <1> QED
    BY <1>3, <1>4, <1>5 DEF SlotsInv

(***************************************************************************)
(* Every step of a request keeps the invariant.                            *)
(***************************************************************************)
LEMMA ServeStep ==
    ASSUME SlotsInv, NEW r \in Requests, Serve(r)
    PROVE  SlotsInv'
  <1> USE SlotsAssumption
  <1>1. max_connections \in Nat /\ LimitRead(r) \in Nat
    BY DEF LimitRead, SlotsInv, SlotsTypeOK
  <1>2. ASSUME NEW u \in Urls, Pick(r, u) PROVE SlotsInv'
    BY <1>2, PickStep
  <1>3. CASE AcquireUnlimited(r)
    <2>1. limit' \in [Requests -> Nat] /\ current' \in [Requests -> Nat]
      BY <1>3 DEF AcquireUnlimited, SlotsInv, SlotsTypeOK
    <2> QED
      BY <1>3, <2>1, TakeSlot DEF AcquireUnlimited, rebuild
  <1>4. CASE AcquireLoad(r)
    <2>1. limit' \in [Requests -> Nat]
      BY <1>1, <1>4 DEF AcquireLoad, SlotsInv, SlotsTypeOK
    <2> QED
      BY <1>4, <2>1, LoadStep DEF AcquireLoad
  <1>5. CASE AcquireFull(r)
    BY <1>5, LeaveWithoutSlot DEF AcquireFull
  <1>6. CASE AcquireCas(r)
    <2>1. limit' \in [Requests -> Nat] /\ phase[r] = "cas"
      BY <1>6 DEF AcquireCas, SlotsInv, SlotsTypeOK
    <2>2. CASE count[ctr[r]] = current[r]
      <3>1. current' \in [Requests -> Nat]
        BY <1>6, <2>2 DEF AcquireCas, SlotsInv, SlotsTypeOK
      <3> QED
        BY <1>6, <2>1, <2>2, <3>1, TakeSlot DEF AcquireCas, rebuild
    <2>3. CASE count[ctr[r]] # current[r]
      <3>1. phase' = [phase EXCEPT ![r] = "cas"]
        BY <1>6, <2>1, <2>3 DEF AcquireCas, SlotsInv, SlotsTypeOK
      <3> QED
        BY <1>6, <2>1, <2>3, <3>1, LoadStep DEF AcquireCas
    <2> QED
      BY <2>2, <2>3
  <1>7. CASE Release(r)
    BY <1>7, ReleaseStep
  <1>8. CASE RateLimited(r)
    BY <1>8, LeaveWithoutSlot DEF RateLimited
  <1> QED
    BY <1>2, <1>3, <1>4, <1>5, <1>6, <1>7, <1>8 DEF Serve, Acquire

(***************************************************************************)
(* The beginning and the end of a rebuild, a new limit and a stuttering    *)
(* step change no counter and no holder.                                   *)
(***************************************************************************)
LEMMA RebuildStep ==
    ASSUME SlotsInv,
           \/ \E defs \in SUBSET Urls : StartRebuild(defs)
           \/ Swap
           \/ \E n \in Limits : Reconfigure(n)
           \/ UNCHANGED slotsVars
    PROVE  SlotsInv'
  <1> USE SlotsAssumption DEF request, rebuild
  <1>1. /\ UNCHANGED <<registry, count, phase, url, ctr, limit, current>>
        /\ \/ UNCHANGED table \/ table' = partial
        /\ \/ UNCHANGED partial \/ partial' = [u \in Urls |-> None]
    BY DEF StartRebuild, Swap, Reconfigure, slotsVars
  <1>2. \A u : Holders(u)' = Holders(u)
    BY <1>1 DEF Holders
  <1>3. SlotsTypeOK'
    <2>1. max_connections' \in Limits /\ pending' \in SUBSET Urls /\ building' \in BOOLEAN
      BY DEF SlotsInv, SlotsTypeOK, StartRebuild, Swap, Reconfigure, slotsVars
    <2>2. /\ table' \in [Urls -> Counters \cup {None}]
          /\ partial' \in [Urls -> Counters \cup {None}]
      BY <1>1 DEF SlotsInv, SlotsTypeOK
    <2> QED
      BY <1>1, <2>1, <2>2 DEF SlotsInv, SlotsTypeOK
  <1>4. PhaseInv' /\ CountersDistinct'
    BY <1>1 DEF SlotsInv, PhaseInv, CountersDistinct
  <1>5. ReferencesAgree'
    BY <1>1 DEF SlotsInv, ReferencesAgree
  <1>6. EntryExact'
    BY <1>1, <1>2 DEF SlotsInv, EntryExact
  <1> QED
    BY <1>3, <1>4, <1>5, <1>6 DEF SlotsInv

(***************************************************************************)
(* The invariant holds in every state of every behaviour.                  *)
(***************************************************************************)
THEOREM SlotsInvariance == SlotsSpec => []SlotsInv
  <1>1. SlotsInit => SlotsInv
    <2> SUFFICES ASSUME SlotsInit PROVE SlotsInv
      OBVIOUS
    <2> USE SlotsAssumption DEF SlotsInit
    <2>1. SlotsTypeOK
      BY Zenon DEF SlotsTypeOK, Phases, NoUrl
    <2>2. PhaseInv /\ ReferencesAgree /\ CountersDistinct /\ EntryExact
      BY DEF PhaseInv, ReferencesAgree, CountersDistinct, EntryExact
    <2> QED
      BY <2>1, <2>2 DEF SlotsInv
  <1>2. SlotsInv /\ [SlotsNext]_slotsVars => SlotsInv'
    BY ApplyDefinitionStep, ServeStep, RebuildStep DEF SlotsNext
  <1> QED
    BY <1>1, <1>2, PTL DEF SlotsSpec

----------------------------------------------------------------------------
(***************************************************************************)
(* Type correctness: no release wraps a counter below zero.                *)
(***************************************************************************)
THEOREM SlotsTypeCorrect == SlotsSpec => []SlotsTypeOK
  <1>1. SlotsInv => SlotsTypeOK
    BY DEF SlotsInv
  <1> QED
    BY SlotsInvariance, <1>1, PTL

(***************************************************************************)
(* The counter of a routed URL is exact through every rebuild.             *)
(***************************************************************************)
THEOREM CounterIsExact == SlotsSpec => []CountIsExact
  <1>1. SlotsInv => CountIsExact
    BY DEF SlotsInv, ReferencesAgree, EntryExact, CountIsExact
  <1> QED
    BY SlotsInvariance, <1>1, PTL

(***************************************************************************)
(* All live references to a URL's counter are to one object.               *)
(***************************************************************************)
THEOREM CounterIsShared == SlotsSpec => []OneCounterPerUrl
  <1>1. SlotsInv => OneCounterPerUrl
    <2> SUFFICES ASSUME SlotsInv, NEW u \in Urls
                 PROVE  Cardinality(({table[u], partial[u]}
                          \cup {ctr[r] : r \in {q \in Requests : url[q] = u}})
                          \ {None}) <= 1
      BY DEF OneCounterPerUrl
    <2> DEFINE refs == ({table[u], partial[u]}
                          \cup {ctr[r] : r \in {q \in Requests : url[q] = u}})
                          \ {None}
    <2>1. refs \in SUBSET {registry[u]}
      BY DEF SlotsInv, ReferencesAgree
    <2>2. IsFiniteSet({registry[u]}) /\ Cardinality({registry[u]}) = 1
      BY FS_Singleton
    <2>3. Cardinality(refs) <= Cardinality({registry[u]})
      BY <2>1, <2>2, FS_Subset
    <2> QED
      BY <2>2, <2>3
  <1> QED
    BY SlotsInvariance, <1>1, PTL

(***************************************************************************)
(* No admission exceeds the limit it was made under.                       *)
(***************************************************************************)
THEOREM LimitIsRespected == SlotsSpec => AdmissionWithinLimit
  <1>1. SlotsInv /\ [SlotsNext]_slotsVars =>
           [\A r \in Requests :
              phase[r] # "held" /\ phase'[r] = "held" /\ limit'[r] # 0
                => Cardinality(Holders(url[r])') <= limit'[r]]_slotsVars
    <2> SUFFICES ASSUME SlotsInv, SlotsNext, NEW r \in Requests,
                        phase[r] # "held", phase'[r] = "held", limit'[r] # 0
                 PROVE  Cardinality(Holders(url[r])') <= limit'[r]
      BY DEF slotsVars, request
    <2>1. AcquireCas(r) /\ count[ctr[r]] = current[r]
      <3>1. PICK q \in Requests : Serve(q)
        BY DEF SlotsNext, StartRebuild, ApplyDefinition, Swap, Reconfigure, request
      <3>2. q = r
        BY <3>1 DEF Serve, Acquire, Pick, AcquireUnlimited, AcquireLoad,
           AcquireFull, AcquireCas, Release, RateLimited, Leave, SlotsInv, SlotsTypeOK
      <3>3. phase[r] \in {"picked", "cas"} /\ (AcquireUnlimited(r) \/ AcquireCas(r))
        BY <3>1, <3>2 DEF Serve, Acquire, Pick, AcquireUnlimited, AcquireLoad,
           AcquireFull, AcquireCas, Release, RateLimited, Leave, SlotsInv, SlotsTypeOK
      <3>4. ~AcquireUnlimited(r)
        BY DEF AcquireUnlimited, SlotsInv, SlotsTypeOK
      <3> QED
        BY <3>3, <3>4 DEF AcquireCas
    <2>2. /\ limit' = limit /\ current' = current /\ current[r] < limit[r]
          /\ limit \in [Requests -> Nat] /\ current \in [Requests -> Nat]
          /\ phase[r] = "cas" /\ url' = url
      BY <2>1 DEF AcquireCas, SlotsInv, SlotsTypeOK
    <2>3. Cardinality(Holders(url[r])') = count[ctr[r]] + 1
      BY <2>1, <2>2, TakeSlot DEF AcquireCas, rebuild
    <2> QED
      BY <2>1, <2>2, <2>3
  <1> QED
    BY SlotsInvariance, <1>1, PTL DEF SlotsSpec, AdmissionWithinLimit
=============================================================================
