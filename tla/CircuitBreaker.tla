--------------------------- MODULE CircuitBreaker ---------------------------
(***************************************************************************)
(* The lock-free circuit breaker of one upstream target                    *)
(* (src/route/circuit_breaker.rs), called by the worker threads of the     *)
(* HTTP proxy.  One action is one atomic access of the code: a load, a     *)
(* store, a compare-exchange, or one statement under the window's mutex.   *)
(* Accesses interleave in a sequentially consistent order.                 *)
(*                                                                         *)
(* Time is kept as AGES: the code only ever compares "now - stamp" with a  *)
(* threshold, so an age that stops counting at its threshold loses nothing *)
(* and leaves time unbounded.  Reading the clock and storing the stamp are *)
(* one step.                                                               *)
(***************************************************************************)
EXTENDS Integers, Sequences, FiniteSets

CONSTANTS
    Threads,               \* worker threads, each serving one request at a time
    NoThread,              \* "the window mutex is free"
    WindowSize,            \* CircuitBreakerConfig::window_size
    ErrorThreshold,        \* CircuitBreakerConfig::error_threshold, in percent
    HalfOpenMaxRequests,   \* CircuitBreakerConfig::half_open_max_requests
    RecoveryMs,            \* recovery_timeout_secs * 1000
    GuardMs,               \* the 100 ms floor of the stuck-probe timeout
    MaxCasAttempts         \* the 64 CAS attempts of transition_to_open

ASSUME ThreadsAssumption == NoThread \notin Threads
ASSUME ConfigAssumption ==
    /\ WindowSize \in Nat
    /\ ErrorThreshold \in Nat
    /\ HalfOpenMaxRequests \in Nat
    /\ RecoveryMs \in Nat
    /\ GuardMs \in Nat
    /\ MaxCasAttempts \in Nat \ {0}

----------------------------------------------------------------------------
(***************************************************************************)
(* The configuration as with_config stores it.                             *)
(***************************************************************************)
AtLeast(n, floor) == IF n < floor THEN floor ELSE n
AtMost(n, ceiling) == IF n > ceiling THEN ceiling ELSE n

window_size == AtLeast(WindowSize, 1)
half_open_max == AtMost(AtLeast(HalfOpenMaxRequests, 1), 63)
min_samples == AtMost(AtLeast(window_size \div 4, 5), window_size)
reset_threshold == AtLeast(RecoveryMs, GuardMs)

(***************************************************************************)
(* The state byte: bits 0-1 are the mode, bits 2-7 the probe counter.      *)
(***************************************************************************)
CLOSED == "closed"
OPEN == "open"
HALF_OPEN == "half_open"
Byte(mode, probes) == [mode |-> mode, probes |-> probes]
StateBytes == [mode : {CLOSED, OPEN, HALF_OPEN}, probes : 0 .. 63]

NotSent == -1     \* half_open_probe_sent_at_ms = 0: no probe was dispatched

VARIABLES
    state,        \* state_atomic
    window,       \* the sliding window, TRUE for an error
    error_count,  \* number of errors in the window, kept beside it
    lock,         \* holder of the window mutex
    opened_age,   \* now - opened_at_ms, up to RecoveryMs
    in_flight,    \* half_open_in_flight
    probe_age,    \* now - half_open_probe_sent_at_ms, up to reset_threshold
    pc,           \* next access of each thread
    seen,         \* the state byte each thread loaded last
    attempts,     \* failed CASes of each thread in transition_to_open
    role          \* how each thread's request was admitted (history variable)

breaker == <<state, window, error_count, lock, opened_age, in_flight, probe_age>>
locals == <<pc, seen, attempts, role>>
vars == <<breaker, locals>>

(***************************************************************************)
(* The states of a thread, named after the function it is in.              *)
(***************************************************************************)
Steps ==
    {"idle", "upstream",
     "allow_load", "allow_elapsed", "half_load", "half_cas", "half_clear",
     "allow_stuck", "allow_sent", "allow_reset", "allow_reserve", "allow_stamp",
     "abort_load", "abort_sent", "abort_clear",
     "succ_load", "succ_lock", "succ_pop", "succ_push", "succ_clear", "succ_cas",
     "close_load", "close_clear", "close_cas", "close_lock", "close_window",
     "close_count",
     "err_load", "err_lock", "err_count", "err_pop", "err_push", "err_clear",
     "open_stamp", "open_clear", "open_load", "open_cas", "open_force"}

(***************************************************************************)
(* The steps taken with the window mutex held.                             *)
(***************************************************************************)
CriticalSteps == {"succ_pop", "succ_push", "err_count", "err_pop", "err_push",
                  "close_window", "close_count"}

Roles == {"none", "unchecked", "closed", "probe", "stuck_probe"}

Init ==
    /\ state = Byte(CLOSED, 0)
    /\ window = <<>>
    /\ error_count = 0
    /\ lock = NoThread
    /\ opened_age = RecoveryMs
    /\ in_flight = FALSE
    /\ probe_age = NotSent
    /\ pc = [t \in Threads |-> "idle"]
    /\ seen = [t \in Threads |-> Byte(CLOSED, 0)]
    /\ attempts = [t \in Threads |-> 0]
    /\ role = [t \in Threads |-> "none"]

----------------------------------------------------------------------------
Goto(t, from, to) == pc[t] = from /\ pc' = [pc EXCEPT ![t] = to]
Remember(t, byte) == seen' = [seen EXCEPT ![t] = byte]
Forget(t) == Remember(t, Byte(CLOSED, 0))     \* the loaded byte is dead
As(t, r) == role' = [role EXCEPT ![t] = r]

(***************************************************************************)
(* The call ends and its thread is free for another request.               *)
(***************************************************************************)
Finish(t, from) ==
    /\ Goto(t, from, "idle")
    /\ Forget(t)
    /\ As(t, "none")
    /\ attempts' = [attempts EXCEPT ![t] = 0]

(***************************************************************************)
(* select_upstream_peer: a request asks the breaker of its target, or, when*)
(* the configuration it read has circuit_breaker_enabled = false, it goes  *)
(* upstream unasked.                                                       *)
(***************************************************************************)
Ask(t) ==
    /\ Goto(t, "idle", "allow_load")
    /\ UNCHANGED <<breaker, seen, attempts, role>>

GoUnchecked(t) ==
    /\ Goto(t, "idle", "upstream")
    /\ As(t, "unchecked")
    /\ UNCHANGED <<breaker, seen, attempts>>

(***************************************************************************)
(* The outcomes of an admitted request: the rate limit or the connection   *)
(* limit refuses it before any upstream attempt (abort_probe), the access  *)
(* log reports success or error, or nothing is reported: the breaker was   *)
(* switched off meanwhile, or the callback was lost.                       *)
(***************************************************************************)
Refuse(t) ==
    /\ role[t] # "unchecked"
    /\ Goto(t, "upstream", "abort_load")
    /\ UNCHANGED <<breaker, seen, attempts, role>>

Succeed(t) ==
    /\ Goto(t, "upstream", "succ_load")
    /\ UNCHANGED <<breaker, seen, attempts, role>>

Fail(t) ==
    /\ Goto(t, "upstream", "err_load")
    /\ UNCHANGED <<breaker, seen, attempts, role>>

Lose(t) ==
    /\ Finish(t, "upstream")
    /\ UNCHANGED breaker

----------------------------------------------------------------------------
(***************************************************************************)
(* allow_request.                                                          *)
(***************************************************************************)
AllowClosed(t) ==
    /\ state.mode = CLOSED
    /\ Goto(t, "allow_load", "upstream")
    /\ As(t, "closed")
    /\ UNCHANGED <<breaker, seen, attempts>>

AllowOpen(t) ==
    /\ state.mode = OPEN
    /\ Goto(t, "allow_load", "allow_elapsed")
    /\ UNCHANGED <<breaker, seen, attempts, role>>

AllowHalfOpen(t) ==
    /\ state.mode = HALF_OPEN
    /\ IF state.probes < half_open_max
         THEN /\ Goto(t, "allow_load", "allow_stuck")
              /\ UNCHANGED <<seen, attempts, role>>
         ELSE Finish(t, "allow_load")
    /\ UNCHANGED breaker

recovery_elapsed == opened_age >= RecoveryMs

Elapsed(t) ==
    /\ recovery_elapsed
    /\ Goto(t, "allow_elapsed", "half_load")
    /\ UNCHANGED <<breaker, seen, attempts, role>>

NotElapsed(t) ==
    /\ ~recovery_elapsed
    /\ Finish(t, "allow_elapsed")
    /\ UNCHANGED breaker

(***************************************************************************)
(* try_transition_to_half_open: the byte is read again; a byte that is no  *)
(* longer Open sends the caller back to its loop.  The in-flight flag is   *)
(* cleared only after the compare-exchange has published HalfOpen.         *)
(***************************************************************************)
HalfLoad(t) ==
    /\ IF state.mode = OPEN
         THEN Goto(t, "half_load", "half_cas") /\ Remember(t, state)
         ELSE Goto(t, "half_load", "allow_load") /\ UNCHANGED seen
    /\ UNCHANGED <<breaker, attempts, role>>

HalfCas(t) ==
    /\ IF state = seen[t]
         THEN /\ state' = Byte(HALF_OPEN, 0)
              /\ Goto(t, "half_cas", "half_clear")
              /\ Forget(t)
              /\ UNCHANGED <<attempts, role>>
         ELSE /\ IF state.mode = OPEN
                   THEN Finish(t, "half_cas")
                   ELSE /\ Goto(t, "half_cas", "allow_load")
                        /\ Forget(t)
                        /\ UNCHANGED <<attempts, role>>
              /\ UNCHANGED state
    /\ UNCHANGED <<window, error_count, lock, opened_age, in_flight, probe_age>>

HalfClear(t) ==
    /\ Goto(t, "half_clear", "allow_load")
    /\ in_flight' = FALSE
    /\ UNCHANGED <<state, window, error_count, lock, opened_age, probe_age,
                   seen, attempts, role>>

(***************************************************************************)
(* The half-open branch: a reservation older than the timeout is taken     *)
(* back, then the flag is reserved and the reservation stamped.            *)
(***************************************************************************)
Stuck(t) ==
    /\ IF in_flight THEN Goto(t, "allow_stuck", "allow_sent")
                    ELSE Goto(t, "allow_stuck", "allow_reserve")
    /\ UNCHANGED <<breaker, seen, attempts, role>>

\* Mutant: a stuck probe is never taken back.
Sent_NeverResets(t) ==
    /\ Goto(t, "allow_sent", "allow_reserve")
    /\ UNCHANGED <<breaker, seen, attempts, role>>

Sent(t) ==
    /\ IF probe_age # NotSent /\ probe_age >= reset_threshold
         THEN Goto(t, "allow_sent", "allow_reset")
         ELSE Goto(t, "allow_sent", "allow_reserve")
    /\ UNCHANGED <<breaker, seen, attempts, role>>

AutoReset(t) ==
    /\ Goto(t, "allow_reset", "allow_reserve")
    /\ in_flight' = FALSE
    /\ role' = [u \in Threads |-> IF role[u] = "probe" THEN "stuck_probe"
                                                        ELSE role[u]]
    /\ UNCHANGED <<state, window, error_count, lock, opened_age, probe_age,
                   seen, attempts>>

Reserve(t) ==
    /\ ~in_flight
    /\ in_flight' = TRUE
    /\ Goto(t, "allow_reserve", "allow_stamp")
    /\ As(t, "probe")
    /\ UNCHANGED <<state, window, error_count, lock, opened_age, probe_age,
                   seen, attempts>>

ReserveBusy(t) ==
    /\ in_flight
    /\ Finish(t, "allow_reserve")
    /\ UNCHANGED breaker

Stamp(t) ==
    /\ Goto(t, "allow_stamp", "upstream")
    /\ probe_age' = 0
    /\ UNCHANGED <<state, window, error_count, lock, opened_age, in_flight,
                   seen, attempts, role>>

----------------------------------------------------------------------------
(***************************************************************************)
(* abort_probe: in HalfOpen the stamp is cleared, then the flag.           *)
(***************************************************************************)
AbortLoad(t) ==
    /\ IF state.mode = HALF_OPEN
         THEN /\ Goto(t, "abort_load", "abort_sent")
              /\ UNCHANGED <<seen, attempts, role>>
         ELSE Finish(t, "abort_load")
    /\ UNCHANGED breaker

AbortSent(t) ==
    /\ Goto(t, "abort_sent", "abort_clear")
    /\ probe_age' = NotSent
    /\ UNCHANGED <<state, window, error_count, lock, opened_age, in_flight,
                   seen, attempts, role>>

\* Mutant: the stamp goes but the reservation stays.
AbortClear_KeepsFlag(t) == Finish(t, "abort_clear") /\ UNCHANGED breaker

AbortClear(t) ==
    /\ Finish(t, "abort_clear")
    /\ in_flight' = FALSE
    /\ UNCHANGED <<state, window, error_count, lock, opened_age, probe_age>>

----------------------------------------------------------------------------
(***************************************************************************)
(* The sliding window.  A full window loses its oldest sample first.       *)
(***************************************************************************)
Errors(w) == Cardinality({i \in 1 .. Len(w) : w[i]})
WindowFull == Len(window) >= window_size

Acquire(t, from, to) ==
    /\ lock = NoThread
    /\ lock' = t
    /\ Goto(t, from, to)
    /\ UNCHANGED <<state, window, error_count, opened_age, in_flight, probe_age,
                   seen, attempts, role>>

PopOldest(t, from, to) ==
    /\ Goto(t, from, to)
    /\ IF WindowFull
         THEN /\ window' = Tail(window)
              /\ error_count' = IF Head(window) THEN error_count - 1
                                                ELSE error_count
         ELSE UNCHANGED <<window, error_count>>
    /\ UNCHANGED <<state, lock, opened_age, in_flight, probe_age,
                   seen, attempts, role>>

(***************************************************************************)
(* record_success.                                                         *)
(***************************************************************************)
SuccLoad(t) ==
    /\ \/ /\ state.mode = CLOSED
          /\ Goto(t, "succ_load", "succ_lock")
          /\ UNCHANGED <<seen, attempts, role>>
       \/ /\ state.mode = HALF_OPEN
          /\ Goto(t, "succ_load", "succ_clear")
          /\ Remember(t, state)
          /\ UNCHANGED <<attempts, role>>
       \/ /\ state.mode = OPEN
          /\ Finish(t, "succ_load")
    /\ UNCHANGED breaker

SuccLock(t) == Acquire(t, "succ_lock", "succ_pop")

SuccPop(t) == PopOldest(t, "succ_pop", "succ_push")

SuccPush(t) ==
    /\ Finish(t, "succ_push")
    /\ window' = Append(window, FALSE)
    /\ lock' = NoThread
    /\ UNCHANGED <<state, error_count, opened_age, in_flight, probe_age>>

\* Mutant: one probe too many before the circuit closes.
SuccClear_OffByOne(t) ==
    /\ in_flight' = FALSE
    /\ IF seen[t].probes + 1 > half_open_max
         THEN Goto(t, "succ_clear", "close_load") /\ Forget(t)
         ELSE Goto(t, "succ_clear", "succ_cas") /\ UNCHANGED seen
    /\ UNCHANGED <<state, window, error_count, lock, opened_age, probe_age,
                   attempts, role>>

SuccClear(t) ==
    /\ in_flight' = FALSE
    /\ IF seen[t].probes + 1 >= half_open_max
         THEN Goto(t, "succ_clear", "close_load") /\ Forget(t)
         ELSE Goto(t, "succ_clear", "succ_cas") /\ UNCHANGED seen
    /\ UNCHANGED <<state, window, error_count, lock, opened_age, probe_age,
                   attempts, role>>

SuccCas(t) ==
    /\ Finish(t, "succ_cas")
    /\ state' = IF state = seen[t] THEN Byte(HALF_OPEN, seen[t].probes + 1)
                                   ELSE state
    /\ UNCHANGED <<window, error_count, lock, opened_age, in_flight, probe_age>>

(***************************************************************************)
(* transition_to_closed: the byte is loaded again, whatever it now holds   *)
(* is exchanged for Closed, and the window is emptied in any case.         *)
(***************************************************************************)
CloseLoad(t) ==
    /\ Goto(t, "close_load", "close_clear")
    /\ Remember(t, state)
    /\ UNCHANGED <<breaker, attempts, role>>

CloseClear(t) ==
    /\ Goto(t, "close_clear", "close_cas")
    /\ in_flight' = FALSE
    /\ UNCHANGED <<state, window, error_count, lock, opened_age, probe_age,
                   seen, attempts, role>>

CloseCas(t) ==
    /\ Goto(t, "close_cas", "close_lock")
    /\ state' = IF state = seen[t] THEN Byte(CLOSED, 0) ELSE state
    /\ Forget(t)
    /\ UNCHANGED <<window, error_count, lock, opened_age, in_flight, probe_age,
                   attempts, role>>

CloseLock(t) == Acquire(t, "close_lock", "close_window")

CloseWindow(t) ==
    /\ Goto(t, "close_window", "close_count")
    /\ window' = <<>>
    /\ UNCHANGED <<state, error_count, lock, opened_age, in_flight, probe_age,
                   seen, attempts, role>>

\* Mutant: the window is emptied and its error count forgotten.
CloseCount_KeepsCount(t) ==
    /\ Finish(t, "close_count")
    /\ lock' = NoThread
    /\ UNCHANGED <<state, window, error_count, opened_age, in_flight, probe_age>>

CloseCount(t) ==
    /\ Finish(t, "close_count")
    /\ error_count' = 0
    /\ lock' = NoThread
    /\ UNCHANGED <<state, window, opened_age, in_flight, probe_age>>

----------------------------------------------------------------------------
(***************************************************************************)
(* record_error.  The length and the error count are read under the mutex, *)
(* the decision they lead to is taken after it is released.  An error      *)
(* reported while the circuit is Open changes nothing.                     *)
(***************************************************************************)
\* Mutant: an error reported while Open restarts the recovery timeout.
ErrLoad_RestartsRecovery(t) ==
    /\ \/ /\ state.mode = CLOSED
          /\ Goto(t, "err_load", "err_lock")
          /\ UNCHANGED <<opened_age, seen, attempts, role>>
       \/ /\ state.mode = HALF_OPEN
          /\ Goto(t, "err_load", "err_clear")
          /\ UNCHANGED <<opened_age, seen, attempts, role>>
       \/ /\ state.mode = OPEN
          /\ Finish(t, "err_load")
          /\ opened_age' = 0
    /\ UNCHANGED <<state, window, error_count, lock, in_flight, probe_age>>

ErrLoad(t) ==
    /\ \/ /\ state.mode = CLOSED
          /\ Goto(t, "err_load", "err_lock")
          /\ UNCHANGED <<seen, attempts, role>>
       \/ /\ state.mode = HALF_OPEN
          /\ Goto(t, "err_load", "err_clear")
          /\ UNCHANGED <<seen, attempts, role>>
       \/ /\ state.mode = OPEN
          /\ Finish(t, "err_load")
    /\ UNCHANGED breaker

ErrLock(t) == Acquire(t, "err_lock", "err_count")

ErrCount(t) ==
    /\ Goto(t, "err_count", "err_pop")
    /\ error_count' = error_count + 1
    /\ UNCHANGED <<state, window, lock, opened_age, in_flight, probe_age,
                   seen, attempts, role>>

ErrPop(t) == PopOldest(t, "err_pop", "err_push")

MeetsThreshold(len, errors) ==
    /\ len > 0
    /\ errors * 100 >= len * ErrorThreshold
    /\ len >= min_samples

ErrPush(t) ==
    /\ window' = Append(window, TRUE)
    /\ lock' = NoThread
    /\ IF MeetsThreshold(Len(window'), error_count)
         THEN /\ Goto(t, "err_push", "open_stamp")
              /\ UNCHANGED <<seen, attempts, role>>
         ELSE Finish(t, "err_push")
    /\ UNCHANGED <<state, error_count, opened_age, in_flight, probe_age>>

ErrClear(t) ==
    /\ Goto(t, "err_clear", "open_stamp")
    /\ in_flight' = FALSE
    /\ UNCHANGED <<state, window, error_count, lock, opened_age, probe_age,
                   seen, attempts, role>>

(***************************************************************************)
(* transition_to_open: stamp, clear, then exchange whatever the byte holds *)
(* for Open, storing it outright after MaxCasAttempts lost races.          *)
(***************************************************************************)
OpenStamp(t) ==
    /\ Goto(t, "open_stamp", "open_clear")
    /\ opened_age' = 0
    /\ UNCHANGED <<state, window, error_count, lock, in_flight, probe_age,
                   seen, attempts, role>>

OpenClear(t) ==
    /\ Goto(t, "open_clear", "open_load")
    /\ in_flight' = FALSE
    /\ UNCHANGED <<state, window, error_count, lock, opened_age, probe_age,
                   seen, attempts, role>>

OpenLoad(t) ==
    /\ Goto(t, "open_load", "open_cas")
    /\ Remember(t, state)
    /\ UNCHANGED <<breaker, attempts, role>>

OpenCas(t) ==
    /\ \/ /\ state = seen[t]
          /\ state' = Byte(OPEN, 0)
          /\ Finish(t, "open_cas")
       \/ /\ state # seen[t]
          /\ state.mode = OPEN
          /\ Finish(t, "open_cas")
          /\ UNCHANGED state
       \/ /\ state # seen[t]
          /\ state.mode # OPEN
          /\ attempts' = [attempts EXCEPT ![t] = @ + 1]
          /\ IF attempts[t] + 1 >= MaxCasAttempts
               THEN Goto(t, "open_cas", "open_force")
               ELSE Goto(t, "open_cas", "open_load")
          /\ Forget(t)
          /\ UNCHANGED <<state, role>>
    /\ UNCHANGED <<window, error_count, lock, opened_age, in_flight, probe_age>>

OpenForce(t) ==
    /\ Finish(t, "open_force")
    /\ state' = Byte(OPEN, 0)
    /\ UNCHANGED <<window, error_count, lock, opened_age, in_flight, probe_age>>

----------------------------------------------------------------------------
(***************************************************************************)
(* One millisecond (or whatever the unit of the timeouts is) passes.       *)
(***************************************************************************)
Tick ==
    /\ \/ opened_age < RecoveryMs
       \/ probe_age # NotSent /\ probe_age < reset_threshold
    /\ opened_age' = AtMost(opened_age + 1, RecoveryMs)
    /\ probe_age' = IF probe_age = NotSent
                      THEN NotSent ELSE AtMost(probe_age + 1, reset_threshold)
    /\ UNCHANGED <<state, window, error_count, lock, in_flight, locals>>

AllowRequest(t) ==
    \/ AllowClosed(t) \/ AllowOpen(t) \/ AllowHalfOpen(t)
    \/ Elapsed(t) \/ NotElapsed(t)
    \/ HalfLoad(t) \/ HalfCas(t) \/ HalfClear(t)
    \/ Stuck(t) \/ Sent(t) \/ AutoReset(t)
    \/ Reserve(t) \/ ReserveBusy(t) \/ Stamp(t)
AbortProbe(t) == AbortLoad(t) \/ AbortSent(t) \/ AbortClear(t)
TransitionToClosed(t) ==
    \/ CloseLoad(t) \/ CloseClear(t) \/ CloseCas(t)
    \/ CloseLock(t) \/ CloseWindow(t) \/ CloseCount(t)
TransitionToOpen(t) ==
    OpenStamp(t) \/ OpenClear(t) \/ OpenLoad(t) \/ OpenCas(t) \/ OpenForce(t)
RecordSuccess(t) ==
    \/ SuccLoad(t) \/ SuccLock(t) \/ SuccPop(t) \/ SuccPush(t)
    \/ SuccClear(t) \/ SuccCas(t)
RecordError(t) ==
    \/ ErrLoad(t) \/ ErrLock(t) \/ ErrCount(t) \/ ErrPop(t) \/ ErrPush(t)
    \/ ErrClear(t)

Begin(t) == Ask(t) \/ GoUnchecked(t)
Outcome(t) == Refuse(t) \/ Succeed(t) \/ Fail(t) \/ Lose(t)
Call(t) ==
    \/ AllowRequest(t) \/ AbortProbe(t)
    \/ RecordSuccess(t) \/ TransitionToClosed(t)
    \/ RecordError(t) \/ TransitionToOpen(t)

Next == Tick \/ \E t \in Threads : Begin(t) \/ Outcome(t) \/ Call(t)

Spec == Init /\ [][Next]_vars

(***************************************************************************)
(* Fairness: the clock runs; a call once begun is carried on by its thread;*)
(* an upstream request ends, since every peer has connect, read and idle   *)
(* timeouts; and requests that ask the breaker keep arriving.              *)
(***************************************************************************)
Fairness ==
    /\ WF_vars(Tick)
    /\ \A t \in Threads : /\ WF_vars(Call(t))
                          /\ WF_vars(Outcome(t))
                          /\ SF_vars(Ask(t))

FairSpec == Spec /\ Fairness

----------------------------------------------------------------------------
(***************************************************************************)
(* Every variable stays in its range.  error_count is a u64 that the code  *)
(* decrements with fetch_sub: staying in Nat says it never wraps.          *)
(***************************************************************************)
TypeOK ==
    /\ state \in StateBytes
    /\ window \in Seq(BOOLEAN)
    /\ error_count \in Nat
    /\ lock \in Threads \cup {NoThread}
    /\ opened_age \in 0 .. RecoveryMs
    /\ in_flight \in BOOLEAN
    /\ probe_age \in {NotSent} \cup 0 .. reset_threshold
    /\ pc \in [Threads -> Steps]
    /\ seen \in [Threads -> StateBytes]
    /\ attempts \in [Threads -> 0 .. MaxCasAttempts]
    /\ role \in [Threads -> Roles]

(***************************************************************************)
(* error_count, an atomic kept outside the mutex that guards the window,   *)
(* equals the number of errors in the window whenever the mutex is free,   *)
(* so record_error decides on the true error rate; and the window never    *)
(* outgrows window_size.                                                   *)
(***************************************************************************)
ErrorCountExact ==
    lock = NoThread => /\ error_count = Errors(window)
                       /\ Len(window) <= window_size

(***************************************************************************)
(* The probe counter in the state byte stays below half_open_max while     *)
(* HalfOpen and is zero otherwise: no interleaving of successes reaches the*)
(* value at which allow_request would refuse every further request.        *)
(***************************************************************************)
ProbesBelowMax ==
    IF state.mode = HALF_OPEN THEN state.probes < half_open_max
                              ELSE state.probes = 0

(***************************************************************************)
(* A reservation always carries the stamp that lets allow_request detect a *)
(* lost probe: the flag is set without a stamp only while the reserving    *)
(* thread is about to stamp it or an aborting thread is about to clear it. *)
(***************************************************************************)
ReservationIsStamped ==
    in_flight /\ probe_age = NotSent
        => \E t \in Threads : pc[t] \in {"allow_stamp", "abort_clear"}

(***************************************************************************)
(* An Open circuit is given another chance: once the circuit is Open it    *)
(* leaves Open, however many late errors are reported meanwhile.           *)
(***************************************************************************)
OpenIsLeft == state.mode = OPEN ~> state.mode # OPEN

(***************************************************************************)
(* The breaker never shuts a target out for good, whatever probes are lost,*)
(* refused or late: once circuit_breaker_enabled is settled, requests that *)
(* ask it are admitted again and again.                                    *)
(***************************************************************************)
Admitted(t) == pc[t] = "upstream" /\ role[t] # "unchecked"
KeepsAdmitting ==
    <>[](\A t \in Threads : role[t] # "unchecked")
        => []<>(\E t \in Threads : Admitted(t))

=============================================================================
