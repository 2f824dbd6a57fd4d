--------------------------- MODULE HealthChecker ---------------------------
(***************************************************************************)
(* Active health checking: the background loop of src/proxy/health.rs and  *)
(* the verdict each target's tracker keeps (src/route/health_tracker.rs).  *)
(*                                                                         *)
(* The loop is one task: its probes run concurrently but none is preempted *)
(* while it records a result.  What happens around the loop is concurrent: *)
(* the configuration is changed, the table is swapped, upstreams go up and *)
(* down, and a change of the circuit-breaker settings replaces every       *)
(* tracker while probes of the old ones are still in flight.               *)
(***************************************************************************)
EXTENDS Integers, FiniteSets

CONSTANTS
    Upstreams,        \* upstream URLs
    HcConfigs,   \* health-check settings the configuration may hold
    MaxRun,      \* probe results in a row that are told apart
    MaxResets    \* bound on circuit-breaker reconfigurations

ASSUME HealthAssumption ==
    /\ HcConfigs # {}
    /\ \A c \in HcConfigs : /\ c.enabled \in BOOLEAN    \* interval is not zero
                            /\ c.fall \in 1 .. MaxRun   \* Config::validate
                            /\ c.rise \in 1 .. MaxRun
    /\ MaxRun \in Nat /\ MaxResets \in Nat

VARIABLES
    config,     \* health-check settings of the shared configuration
    all_targets, \* URLs in the route table, each once
    up,         \* upstreams that would answer a probe
    tracker,    \* the TargetHealthTracker of each URL
    run,        \* latest equal probe results of it (history variable)
    loop,       \* what the background task is doing
    checker,    \* the settings of the current HealthChecker
    probe,      \* the probe of each URL in the round under way
    shutdown,   \* the shutdown signal
    resets      \* circuit-breaker reconfigurations so far

env == <<config, all_targets, up, shutdown, resets>>
task == <<loop, checker, probe>>
healthVars == <<env, task, tracker, run>>

(***************************************************************************)
(* A new tracker is healthy "to avoid breaking existing traffic".          *)
(***************************************************************************)
NewTracker == [is_healthy |-> TRUE, failures |-> 0, successes |-> 0]
NoRun == [ok |-> TRUE, len |-> 0]

HealthInit ==
    /\ config \in HcConfigs
    /\ all_targets \in SUBSET Upstreams
    /\ up \in SUBSET Upstreams
    /\ shutdown = FALSE
    /\ resets = 0
    /\ loop = "wait"
    /\ checker = config
    /\ probe = [u \in Upstreams |-> "none"]
    /\ tracker = [u \in Upstreams |-> NewTracker]
    /\ run = [u \in Upstreams |-> NoRun]

----------------------------------------------------------------------------

(***************************************************************************)
(* The tracker.                                                            *)
(***************************************************************************)
record_health_check_success(h, rise) ==
    IF h.is_healthy THEN [h EXCEPT !.failures = 0]
    ELSE [is_healthy |-> h.successes + 1 >= rise,
          failures |-> 0,
          successes |-> h.successes + 1]

\* Mutant: a failure does not end a row of successes.
record_health_check_failure_Keeps(h, fall) ==
    IF ~h.is_healthy THEN h
    ELSE [is_healthy |-> h.failures + 1 < fall,
          failures |-> h.failures + 1,
          successes |-> 0]

record_health_check_failure(h, fall) ==
    IF ~h.is_healthy THEN [h EXCEPT !.successes = 0]
    ELSE [is_healthy |-> h.failures + 1 < fall,
          failures |-> h.failures + 1,
          successes |-> 0]

Longer(r, ok) ==
    [ok |-> ok, len |-> IF r.len = 0 \/ r.ok # ok THEN 1
                        ELSE IF r.len < MaxRun THEN r.len + 1 ELSE MaxRun]

(***************************************************************************)
(* The top of the loop looks at the shutdown signal; a tick that races with*)
(* the signal may still start a round.                                     *)
(***************************************************************************)
Top == IF shutdown THEN "stopped" ELSE "wait"

(***************************************************************************)
(* A tick: the settings are read again; unless they disable checking, the  *)
(* checker takes them over and a round of probes starts on the table as it *)
(* is now.                                                                 *)
(***************************************************************************)
\* Mutant: only targets that receive traffic are probed.
Tick_SkipsUnhealthy ==
    /\ loop = "wait"
    /\ config.enabled
    /\ checker' = config
    /\ LET probed == {u \in all_targets : tracker[u].is_healthy}
       IN  /\ probe' = [u \in Upstreams |-> IF u \in probed THEN "current" ELSE "none"]
           /\ loop' = IF probed = {} THEN Top ELSE "round"
    /\ UNCHANGED <<env, tracker, run>>

Tick ==
    /\ loop = "wait"
    /\ config.enabled
    /\ checker' = config
    /\ probe' = [u \in Upstreams |-> IF u \in all_targets THEN "current" ELSE "none"]
    /\ loop' = IF all_targets = {} THEN Top ELSE "round"
    /\ UNCHANGED <<env, tracker, run>>

(***************************************************************************)
(* check_target: the probe ends, by an answer or by a timeout, and its     *)
(* result goes to the tracker that the probed target refers to, which a    *)
(* reconfiguration may have replaced meanwhile.  The last one ends the     *)
(* round.                                                                  *)
(***************************************************************************)
CheckTarget(u) ==
    /\ probe[u] # "none"
    /\ probe' = [probe EXCEPT ![u] = "none"]
    /\ loop' = IF \A v \in Upstreams \ {u} : probe[v] = "none" THEN Top ELSE "round"
    /\ IF probe[u] = "current"
         THEN /\ tracker' = [tracker EXCEPT ![u] =
                    IF u \in up THEN record_health_check_success(@, checker.rise)
                                ELSE record_health_check_failure(@, checker.fall)]
              /\ run' = [run EXCEPT ![u] = Longer(@, u \in up)]
         ELSE UNCHANGED <<tracker, run>>
    /\ UNCHANGED <<env, checker>>

Stop ==
    /\ loop = "wait" /\ shutdown
    /\ loop' = "stopped"
    /\ UNCHANGED <<env, checker, probe, tracker, run>>

----------------------------------------------------------------------------
(***************************************************************************)
(* Around the loop.                                                        *)
(***************************************************************************)
UpdateConfig ==
    /\ \E c \in HcConfigs \ {config} : config' = c
    /\ UNCHANGED <<all_targets, up, shutdown, resets, task, tracker, run>>

SwapTargets ==
    /\ \E urls \in SUBSET Upstreams : urls # all_targets /\ all_targets' = urls
    /\ UNCHANGED <<config, up, shutdown, resets, task, tracker, run>>

(***************************************************************************)
(* The tracker of a URL that left the table goes with its last reference,  *)
(* a probe's or a request's.                                               *)
(***************************************************************************)
Forget(u) ==
    /\ u \notin all_targets
    /\ probe[u] # "current"
    /\ tracker' = [tracker EXCEPT ![u] = NewTracker]
    /\ run' = [run EXCEPT ![u] = NoRun]
    /\ UNCHANGED <<env, task>>

(***************************************************************************)
(* reconfigure_circuit_breaker gives every target a new tracker.           *)
(***************************************************************************)
ReconfigureCircuitBreaker ==
    /\ resets < MaxResets
    /\ resets' = resets + 1
    /\ tracker' = [u \in Upstreams |-> NewTracker]
    /\ run' = [u \in Upstreams |-> NoRun]
    /\ probe' = [u \in Upstreams |-> IF probe[u] = "none" THEN "none" ELSE "orphaned"]
    /\ UNCHANGED <<config, all_targets, up, shutdown, loop, checker>>

ChangeHealth(u) ==
    /\ up' = IF u \in up THEN up \ {u} ELSE up \cup {u}
    /\ UNCHANGED <<config, all_targets, shutdown, resets, task, tracker, run>>

Shutdown ==
    /\ ~shutdown
    /\ shutdown' = TRUE
    /\ UNCHANGED <<config, all_targets, up, resets, task, tracker, run>>

HealthNext ==
    \/ Tick \/ Stop
    \/ UpdateConfig \/ SwapTargets \/ ReconfigureCircuitBreaker \/ Shutdown
    \/ \E u \in Upstreams : CheckTarget(u) \/ Forget(u) \/ ChangeHealth(u)

HealthSpec == HealthInit /\ [][HealthNext]_healthVars

(***************************************************************************)
(* Fairness: the ticker fires, and every probe ends, since the HTTP client *)
(* and the TCP connect have timeouts.                                      *)
(***************************************************************************)
FairHealthSpec ==
    HealthSpec /\ WF_healthVars(Tick) /\ \A u \in Upstreams : WF_healthVars(CheckTarget(u))

----------------------------------------------------------------------------
(***************************************************************************)
(* Every variable stays in its range; the counters stay within the largest *)
(* threshold, so they cannot overflow.                                     *)
(***************************************************************************)
TrackerStates == [is_healthy : BOOLEAN, failures : 0 .. MaxRun, successes : 0 .. MaxRun]
HealthTypeOK ==
    /\ config \in HcConfigs /\ checker \in HcConfigs
    /\ all_targets \subseteq Upstreams /\ up \subseteq Upstreams
    /\ shutdown \in BOOLEAN
    /\ resets \in 0 .. MaxResets
    /\ loop \in {"wait", "round", "stopped"}
    /\ probe \in [Upstreams -> {"none", "current", "orphaned"}]
    /\ tracker \in [Upstreams -> TrackerStates]
    /\ run \in [Upstreams -> [ok : BOOLEAN, len : 0 .. MaxRun]]

(***************************************************************************)
(* The counter that decides the next verdict, failures of a healthy target *)
(* and successes of an unhealthy one, is the number of such results in a   *)
(* row, across rounds, changes of the settings and table swaps.            *)
(***************************************************************************)
CountersMatchProbes ==
    \A u \in Upstreams :
       LET h == tracker[u]
       IN  IF h.is_healthy
             THEN h.failures = IF run[u].ok THEN 0 ELSE run[u].len
             ELSE h.successes = IF run[u].ok THEN run[u].len ELSE 0

(***************************************************************************)
(* A verdict changes only on "fall" failures or "rise" successes in a row  *)
(* of the tracker it is about, by the thresholds of the round; a result of *)
(* a replaced tracker never counts.                                        *)
(***************************************************************************)
Fell(u) == tracker[u].is_healthy /\ ~tracker'[u].is_healthy
Rose(u) == ~tracker[u].is_healthy /\ tracker'[u].is_healthy
VerdictsNeedARow ==
    [][\A u \in Upstreams :
          /\ Fell(u) => ~run'[u].ok /\ run'[u].len >= checker.fall
          /\ Rose(u) => \/ run'[u].ok /\ run'[u].len >= checker.rise
                        \/ run'[u] = NoRun]_healthVars

(***************************************************************************)
(* However often checking was disabled, reconfigured or interrupted before,*)
(* a target that stays down is found unhealthy for good, and one that stays*)
(* up healthy, unless the proxy shuts down.                                *)
(***************************************************************************)
Watched(u) == config.enabled /\ u \in all_targets
DownIsDetected ==
    \A u \in Upstreams :
       <>[](Watched(u) /\ u \notin up) => <>[](~tracker[u].is_healthy \/ shutdown)
UpIsDetected ==
    \A u \in Upstreams :
       <>[](Watched(u) /\ u \in up) => <>[](tracker[u].is_healthy \/ shutdown)

(* Verdicts follow the results of probes and nothing else.                 *)
VerdictsFollowProbes == [](HealthTypeOK /\ CountersMatchProbes) /\ VerdictsNeedARow

(* Verdicts catch up with targets that stay as they are.                   *)
VerdictsCatchUp == DownIsDetected /\ UpIsDetected
=============================================================================
