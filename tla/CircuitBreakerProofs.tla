------------------------ MODULE CircuitBreakerProofs ------------------------
(***************************************************************************)
(* Proofs about the circuit breaker, for any number of threads and any     *)
(* configuration.                                                          *)
(***************************************************************************)
EXTENDS CircuitBreaker, FunctionTheorems, FiniteSetTheorems, TLAPS

----------------------------------------------------------------------------
(***************************************************************************)
(* Counting the errors of a window.                                        *)
(***************************************************************************)
ErrorPositions(w) == {i \in 1 .. Len(w) : w[i]}

(***************************************************************************)
(* A window has finitely many errors.                                      *)
(***************************************************************************)
LEMMA ErrorsType ==
    ASSUME NEW w \in Seq(BOOLEAN)
    PROVE  /\ IsFiniteSet(ErrorPositions(w))
           /\ Errors(w) = Cardinality(ErrorPositions(w))
           /\ Errors(w) \in Nat
  <1>1. IsFiniteSet(1 .. Len(w))
    BY FS_Interval
  <1>2. ErrorPositions(w) \in SUBSET (1 .. Len(w))
    BY DEF ErrorPositions
  <1>3. IsFiniteSet(ErrorPositions(w))
    BY <1>1, <1>2, FS_Subset
  <1> QED
    BY <1>3, FS_CardinalityType DEF Errors, ErrorPositions

(***************************************************************************)
(* The empty window has none (what transition_to_closed stores).           *)
(***************************************************************************)
LEMMA ErrorsEmpty == Errors(<<>>) = 0
  <1>1. {i \in 1 .. Len(<<>>) : <<>>[i]} = {}
    OBVIOUS
  <1> QED
    BY <1>1, FS_EmptySet DEF Errors

(***************************************************************************)
(* push_back adds the new sample's error, if it is one.                    *)
(***************************************************************************)
LEMMA ErrorsAppend ==
    ASSUME NEW w \in Seq(BOOLEAN)
    PROVE  /\ Errors(Append(w, TRUE)) = Errors(w) + 1
           /\ Errors(Append(w, FALSE)) = Errors(w)
  <1>1. Append(w, TRUE) \in Seq(BOOLEAN) /\ Append(w, FALSE) \in Seq(BOOLEAN)
    OBVIOUS
  <1>2. ErrorPositions(Append(w, TRUE)) = ErrorPositions(w) \cup {Len(w) + 1}
    BY DEF ErrorPositions
  <1>3. ErrorPositions(Append(w, FALSE)) = ErrorPositions(w)
    BY DEF ErrorPositions
  <1>4. Len(w) + 1 \notin ErrorPositions(w)
    BY DEF ErrorPositions
  <1>5. Cardinality(ErrorPositions(w) \cup {Len(w) + 1})
          = Cardinality(ErrorPositions(w)) + 1
    BY <1>4, ErrorsType, FS_AddElement
  <1> QED
    BY <1>1, <1>2, <1>3, <1>5, ErrorsType

(***************************************************************************)
(* pop_front takes the oldest sample's error away, if it is one.           *)
(***************************************************************************)
LEMMA ErrorsTail ==
    ASSUME NEW w \in Seq(BOOLEAN), w # <<>>
    PROVE  /\ Head(w) => Errors(w) = Errors(Tail(w)) + 1
           /\ ~Head(w) => Errors(w) = Errors(Tail(w))
  <1> DEFINE rest == ErrorPositions(w) \ {1}
             shift == [i \in ErrorPositions(Tail(w)) |-> i + 1]
  <1>1. /\ Tail(w) \in Seq(BOOLEAN)
        /\ Len(Tail(w)) = Len(w) - 1
        /\ \A i \in 1 .. Len(Tail(w)) : Tail(w)[i] = w[i + 1]
        /\ Head(w) = w[1] /\ 1 \in 1 .. Len(w)
    OBVIOUS
  <1>2. shift \in [ErrorPositions(Tail(w)) -> rest]
    BY <1>1 DEF ErrorPositions
  <1>3. \A i, j \in ErrorPositions(Tail(w)) : shift[i] = shift[j] => i = j
    BY <1>1 DEF ErrorPositions
  <1>4. \A j \in rest : \E i \in ErrorPositions(Tail(w)) : shift[i] = j
    <2> SUFFICES ASSUME NEW j \in rest
                 PROVE  \E i \in ErrorPositions(Tail(w)) : shift[i] = j
      OBVIOUS
    <2>1. j - 1 \in ErrorPositions(Tail(w))
      BY <1>1 DEF ErrorPositions
    <2>2. shift[j - 1] = j
      BY <2>1, <1>1 DEF ErrorPositions
    <2> QED
      BY <2>1, <2>2
  <1>5. shift \in Bijection(ErrorPositions(Tail(w)), rest)
    BY <1>2, <1>3, <1>4, Fun_IsBij
  <1>6. /\ IsFiniteSet(ErrorPositions(Tail(w))) /\ IsFiniteSet(ErrorPositions(w))
        /\ Errors(w) = Cardinality(ErrorPositions(w))
        /\ Errors(w) \in Nat
        /\ Errors(Tail(w)) = Cardinality(ErrorPositions(Tail(w)))
    BY <1>1, ErrorsType
  <1>7. Cardinality(rest) = Cardinality(ErrorPositions(Tail(w)))
    BY <1>5, <1>6, FS_Bijection, Fun_ExistsBij
  <1>8. Cardinality(rest) = IF 1 \in ErrorPositions(w)
                              THEN Cardinality(ErrorPositions(w)) - 1
                              ELSE Cardinality(ErrorPositions(w))
    BY <1>6, FS_RemoveElement
  <1>9. 1 \in ErrorPositions(w) <=> Head(w)
    BY <1>1 DEF ErrorPositions
  <1>10. /\ 1 \in ErrorPositions(w) => Errors(w) = Errors(Tail(w)) + 1
         /\ 1 \notin ErrorPositions(w) => Errors(w) = Errors(Tail(w))
    BY <1>6, <1>7, <1>8
  <1> QED
    BY <1>9, <1>10


----------------------------------------------------------------------------
(***************************************************************************)
(* The inductive invariant.  TypeOK alone is not inductive: that           *)
(* error_count never wraps rests on its being exact, which rests on the    *)
(* mutex; that the probe counter fits its six bits rests on the byte a     *)
(* thread remembers between its load and its compare-exchange.             *)
(***************************************************************************)
LockInv == \A t \in Threads : lock = t <=> pc[t] \in CriticalSteps

WindowInv ==
    /\ Len(window) <= window_size
    /\ lock = NoThread => error_count = Errors(window)
    /\ \A t \in Threads :
         /\ pc[t] \in {"succ_pop", "succ_push", "err_count", "close_window"}
              => error_count = Errors(window)
         /\ pc[t] \in {"err_pop", "err_push"}
              => error_count = Errors(window) + 1
         /\ pc[t] \in {"succ_push", "err_push"} => Len(window) < window_size
         /\ pc[t] = "close_count" => window = <<>>

CasInv ==
    \A t \in Threads :
       /\ pc[t] # "open_force" => attempts[t] < MaxCasAttempts
       /\ pc[t] = "succ_cas" => seen[t].probes + 1 < half_open_max

Inv ==
    /\ TypeOK
    /\ LockInv
    /\ WindowInv
    /\ CasInv
    /\ ProbesBelowMax
    /\ ReservationIsStamped

(***************************************************************************)
(* Moving a thread on, and finishing its call, keeps the types of the      *)
(* thread-local variables.                                                 *)
(***************************************************************************)
LEMMA GotoType ==
    ASSUME TypeOK, NEW t \in Threads, NEW from, NEW to \in Steps, Goto(t, from, to)
    PROVE  pc' \in [Threads -> Steps]
  BY DEF TypeOK, Goto

(***************************************************************************)
(* A byte that is remembered is a state byte.                              *)
(***************************************************************************)
LEMMA RememberType ==
    ASSUME TypeOK, NEW t \in Threads, NEW byte \in StateBytes, Remember(t, byte)
    PROVE  seen' \in [Threads -> StateBytes]
  BY DEF TypeOK, Remember

(***************************************************************************)
(* Forgetting the byte keeps its type.                                     *)
(***************************************************************************)
LEMMA ForgetType ==
    ASSUME TypeOK, NEW t \in Threads, Forget(t)
    PROVE  seen' \in [Threads -> StateBytes]
  <1>1. Byte(CLOSED, 0) \in StateBytes
    BY DEF StateBytes, Byte
  <1> QED
    BY <1>1, RememberType DEF Forget

(***************************************************************************)
(* The byte try_transition_to_half_open stores is a state byte.            *)
(***************************************************************************)
LEMMA HalfOpenByte == Byte(HALF_OPEN, 0) \in StateBytes
  BY DEF StateBytes, Byte

(***************************************************************************)
(* A call that ends leaves every local of its thread in its type.          *)
(***************************************************************************)
LEMMA FinishType ==
    ASSUME TypeOK, NEW t \in Threads, NEW from, Finish(t, from)
    PROVE  /\ pc' \in [Threads -> Steps]
           /\ seen' \in [Threads -> StateBytes]
           /\ attempts' \in [Threads -> 0 .. MaxCasAttempts]
           /\ role' \in [Threads -> Roles]
  <1>1. "idle" \in Steps /\ Byte(CLOSED, 0) \in StateBytes /\ "none" \in Roles
    BY DEF Steps, StateBytes, Byte, Roles
  <1>2. 0 \in 0 .. MaxCasAttempts
    BY ConfigAssumption
  <1> QED
    BY <1>1, <1>2, GotoType DEF TypeOK, Finish, Forget, Remember, As

(***************************************************************************)
(* The derived constants are naturals in the ranges the code clamps them to. *)
(***************************************************************************)
LEMMA ConfigType ==
    /\ window_size \in Nat \ {0}
    /\ half_open_max \in 1 .. 63
    /\ reset_threshold \in Nat
  BY ConfigAssumption
     DEF window_size, half_open_max, reset_threshold, AtLeast, AtMost

(***************************************************************************)
(* Popping the oldest sample of a full window makes room for one more and  *)
(* keeps the distance between error_count and the window's errors.         *)
(***************************************************************************)
LEMMA PopKeepsCount ==
    ASSUME NEW t \in Threads, NEW from, NEW to, PopOldest(t, from, to),
           window \in Seq(BOOLEAN), Len(window) <= window_size,
           NEW k \in {0, 1}, error_count = Errors(window) + k
    PROVE  /\ window' \in Seq(BOOLEAN)
           /\ Len(window') < window_size
           /\ error_count' = Errors(window') + k
           /\ error_count' \in Nat
  <1>1. CASE WindowFull
    <2>1. window # <<>>
      BY <1>1, ConfigType DEF WindowFull
    <2>2. /\ Tail(window) \in Seq(BOOLEAN)
          /\ Len(Tail(window)) = Len(window) - 1
      BY <2>1
    <2>3. window' = Tail(window)
      BY <1>1 DEF PopOldest
    <2>4. Errors(window) \in Nat /\ Errors(Tail(window)) \in Nat
      BY <2>2, ErrorsType
    <2>5. CASE Head(window)
      <3>1. error_count' = error_count - 1
        BY <1>1, <2>5, Zenon DEF PopOldest
      <3>2. Errors(window) = Errors(Tail(window)) + 1
        BY <2>1, <2>5, ErrorsTail, Zenon
      <3> QED
        BY <2>2, <2>3, <2>4, <3>1, <3>2, ConfigType
    <2>6. CASE ~Head(window)
      <3>1. error_count' = error_count
        BY <1>1, <2>6, Zenon DEF PopOldest
      <3>2. Errors(window) = Errors(Tail(window))
        BY <2>1, <2>6, ErrorsTail, Zenon
      <3> QED
        BY <2>2, <2>3, <2>4, <3>1, <3>2, ConfigType
    <2> QED
      BY <2>5, <2>6
  <1>2. CASE ~WindowFull
    <2>1. window' = window /\ error_count' = error_count
      BY <1>2, Zenon DEF PopOldest
    <2>2. Errors(window) \in Nat
      BY ErrorsType
    <2> QED
      BY <1>2, <2>1, <2>2, ConfigType DEF WindowFull
  <1> QED
    BY <1>1, <1>2

(***************************************************************************)
(* The window as the thread that pops finds it.                            *)
(***************************************************************************)
LEMMA PopPrecondition ==
    ASSUME Inv, NEW t \in Threads, NEW k \in {0, 1},
           pc[t] = IF k = 0 THEN "succ_pop" ELSE "err_pop"
    PROVE  /\ window \in Seq(BOOLEAN)
           /\ Len(window) <= window_size
           /\ error_count = Errors(window) + k
  <1>1. window \in Seq(BOOLEAN) /\ Errors(window) \in Nat
    BY ErrorsType DEF Inv, TypeOK
  <1> QED
    BY <1>1 DEF Inv, WindowInv

(***************************************************************************)
(* Every step keeps the types.                                             *)
(***************************************************************************)
LEMMA TypeStep ==
    ASSUME Inv, [Next]_vars
    PROVE  TypeOK'
  <1> USE ConfigAssumption, ThreadsAssumption DEF Inv
  <1>1. CASE Tick
    BY <1>1, ConfigType DEF Tick, TypeOK, locals, AtMost, NotSent
  <1>2. ASSUME NEW t \in Threads, Begin(t) PROVE TypeOK'
    <2>1. CASE Ask(t)
      BY <2>1 DEF Ask, TypeOK, Goto, Forget, Remember, As, breaker, locals,
         Steps, StateBytes, Byte, Roles
    <2>2. CASE GoUnchecked(t)
      BY <2>2 DEF GoUnchecked, TypeOK, Goto, Forget, Remember, As, breaker,
         locals, Steps, StateBytes, Byte, Roles
    <2> QED
      BY <1>2, <2>1, <2>2 DEF Begin
  <1>3. ASSUME NEW t \in Threads, Outcome(t) PROVE TypeOK'
    <2>1. CASE Refuse(t)
      BY <2>1 DEF Refuse, TypeOK, Goto, Forget, Remember, As, breaker,
         locals, Steps, StateBytes, Byte, Roles
    <2>2. CASE Succeed(t)
      BY <2>2 DEF Succeed, TypeOK, Goto, Forget, Remember, As, breaker,
         locals, Steps, StateBytes, Byte, Roles
    <2>3. CASE Fail(t)
      BY <2>3 DEF Fail, TypeOK, Goto, Forget, Remember, As, breaker, locals,
         Steps, StateBytes, Byte, Roles
    <2>4. CASE Lose(t)
      BY <2>4, FinishType DEF Lose, TypeOK, breaker, StateBytes, Byte
    <2> QED
      BY <1>3, <2>1, <2>2, <2>3, <2>4 DEF Outcome
  <1>4. ASSUME NEW t \in Threads, AllowRequest(t) PROVE TypeOK'
    <2>1. CASE AllowClosed(t)
      BY <2>1 DEF AllowClosed, TypeOK, Goto, Forget, Remember, As, breaker,
         locals, Steps, StateBytes, Byte, Roles
    <2>2. CASE AllowOpen(t)
      BY <2>2 DEF AllowOpen, TypeOK, Goto, Forget, Remember, As, breaker,
         locals, Steps, StateBytes, Byte, Roles
    <2>3. CASE AllowHalfOpen(t)
      <3>1. CASE state.probes < half_open_max
        BY <2>3, <3>1, FinishType DEF AllowHalfOpen, TypeOK, Goto, Forget,
           Remember, As, breaker, locals, Steps, StateBytes, Byte, Roles
      <3>2. CASE ~(state.probes < half_open_max)
        BY <2>3, <3>2, FinishType DEF AllowHalfOpen, TypeOK, Goto, Forget,
           Remember, As, breaker, locals, Steps, StateBytes, Byte, Roles
      <3> QED
        BY <2>3, <3>1, <3>2
           DEF AllowHalfOpen, CLOSED, OPEN, HALF_OPEN, StateBytes, TypeOK
    <2>4. CASE Elapsed(t)
      BY <2>4 DEF Elapsed, TypeOK, Goto, Forget, Remember, As, breaker,
         locals, Steps, StateBytes, Byte, Roles
    <2>5. CASE NotElapsed(t)
      BY <2>5, FinishType DEF NotElapsed, TypeOK, breaker, StateBytes, Byte
    <2>6. CASE HalfLoad(t)
      <3>1. CASE state.mode = OPEN
        BY <2>6, <3>1, RememberType
           DEF HalfLoad, TypeOK, Goto, breaker, locals, Steps
      <3>2. CASE state.mode # OPEN
        BY <2>6, <3>2, RememberType
           DEF HalfLoad, TypeOK, Goto, breaker, locals, Steps
      <3> QED
        BY <2>6, <3>1, <3>2
           DEF HalfLoad, CLOSED, OPEN, HALF_OPEN, StateBytes, TypeOK
    <2>7. CASE HalfCas(t)
      <3>1. CASE state = seen[t]
        BY <2>7, <3>1, FinishType, ForgetType, HalfOpenByte
           DEF HalfCas, TypeOK, Goto, breaker, locals, Steps
      <3>2. CASE state # seen[t] /\ state.mode = OPEN
        BY <2>7, <3>2, FinishType, ForgetType, HalfOpenByte
           DEF HalfCas, TypeOK, Goto, breaker, locals, Steps
      <3>3. CASE state # seen[t] /\ state.mode # OPEN
        BY <2>7, <3>3, FinishType, ForgetType, HalfOpenByte
           DEF HalfCas, TypeOK, Goto, breaker, locals, Steps
      <3> QED
        BY <2>7, <3>1, <3>2, <3>3
           DEF HalfCas, CLOSED, OPEN, HALF_OPEN, StateBytes, TypeOK
    <2>8. CASE HalfClear(t)
      BY <2>8 DEF HalfClear, TypeOK, Goto, Forget, Remember, As, breaker,
         locals, Steps, StateBytes, Byte, Roles
    <2>9. CASE Stuck(t)
      BY <2>9 DEF Stuck, TypeOK, Goto, Forget, Remember, As, breaker, locals,
         Steps, StateBytes, Byte, Roles
    <2>10. CASE Sent(t)
      BY <2>10 DEF Sent, TypeOK, Goto, Forget, Remember, As, breaker, locals,
         Steps, StateBytes, Byte, Roles
    <2>11. CASE AutoReset(t)
      BY <2>11 DEF AutoReset, TypeOK, Goto, Forget, Remember, As, breaker,
         locals, Steps, StateBytes, Byte, Roles
    <2>12. CASE Reserve(t)
      BY <2>12 DEF Reserve, TypeOK, Goto, Forget, Remember, As, breaker,
         locals, Steps, StateBytes, Byte, Roles
    <2>13. CASE ReserveBusy(t)
      BY <2>13, FinishType DEF ReserveBusy, TypeOK, breaker, StateBytes, Byte
    <2>14. CASE Stamp(t)
      BY <2>14, ConfigType DEF Stamp, TypeOK, Goto, Forget, Remember, As,
         breaker, locals, Steps, StateBytes, Byte, Roles
    <2> QED
      BY <1>4, <2>1, <2>2, <2>3, <2>4, <2>5, <2>6, <2>7, <2>8, <2>9, <2>10,
         <2>11, <2>12, <2>13, <2>14 DEF AllowRequest
  <1>5. ASSUME NEW t \in Threads, AbortProbe(t) PROVE TypeOK'
    <2>1. CASE AbortLoad(t)
      <3>1. CASE state.mode = HALF_OPEN
        BY <2>1, <3>1, FinishType DEF AbortLoad, TypeOK, Goto, Forget,
           Remember, As, breaker, locals, Steps, StateBytes, Byte, Roles
      <3>2. CASE state.mode # HALF_OPEN
        BY <2>1, <3>2, FinishType DEF AbortLoad, TypeOK, Goto, Forget,
           Remember, As, breaker, locals, Steps, StateBytes, Byte, Roles
      <3> QED
        BY <2>1, <3>1, <3>2
           DEF AbortLoad, CLOSED, OPEN, HALF_OPEN, StateBytes, TypeOK
    <2>2. CASE AbortSent(t)
      BY <2>2 DEF AbortSent, TypeOK, Goto, Forget, Remember, As, breaker,
         locals, Steps, StateBytes, Byte, Roles
    <2>3. CASE AbortClear(t)
      BY <2>3, FinishType DEF AbortClear, TypeOK, breaker, StateBytes, Byte
    <2> QED
      BY <1>5, <2>1, <2>2, <2>3 DEF AbortProbe
  <1>6. ASSUME NEW t \in Threads, RecordSuccess(t) PROVE TypeOK'
    <2>1. CASE SuccLoad(t)
      <3>1. CASE state.mode = CLOSED
        BY <2>1, <3>1, FinishType, RememberType DEF SuccLoad, TypeOK, Goto,
           breaker, locals, Steps, CLOSED, OPEN, HALF_OPEN
      <3>2. CASE state.mode = HALF_OPEN
        BY <2>1, <3>2, FinishType, RememberType DEF SuccLoad, TypeOK, Goto,
           breaker, locals, Steps, CLOSED, OPEN, HALF_OPEN
      <3>3. CASE state.mode = OPEN
        BY <2>1, <3>3, FinishType, RememberType DEF SuccLoad, TypeOK, Goto,
           breaker, locals, Steps, CLOSED, OPEN, HALF_OPEN
      <3> QED
        BY <2>1, <3>1, <3>2, <3>3
           DEF SuccLoad, CLOSED, OPEN, HALF_OPEN, StateBytes, TypeOK
    <2>2. CASE SuccLock(t)
      BY <2>2 DEF SuccLock, TypeOK, Goto, Forget, Remember, As, breaker,
         locals, Steps, StateBytes, Byte, Roles, Acquire
    <2>3. CASE SuccPop(t)
      <3>1. pc[t] = "succ_pop" /\ PopOldest(t, "succ_pop", "succ_push")
        BY <2>3 DEF SuccPop, PopOldest, Goto
      <3>2. window' \in Seq(BOOLEAN) /\ error_count' \in Nat
        BY <3>1, PopPrecondition, PopKeepsCount
      <3>3. /\ Goto(t, "succ_pop", "succ_push")
            /\ UNCHANGED <<state, lock, opened_age, in_flight, probe_age, seen, attempts, role>>
        BY <3>1 DEF PopOldest
      <3>4. pc' \in [Threads -> Steps]
        BY <3>3 DEF Goto, TypeOK, Steps
      <3> QED
        BY <3>2, <3>3, <3>4 DEF TypeOK
    <2>4. CASE SuccPush(t)
      BY <2>4, FinishType DEF SuccPush, TypeOK, breaker, StateBytes, Byte
    <2>5. CASE SuccClear(t)
      <3>1. CASE seen[t].probes + 1 >= half_open_max
        BY <2>5, <3>1, ForgetType
           DEF SuccClear, TypeOK, Goto, breaker, locals, Steps
      <3>2. CASE ~(seen[t].probes + 1 >= half_open_max)
        BY <2>5, <3>2, ForgetType
           DEF SuccClear, TypeOK, Goto, breaker, locals, Steps
      <3> QED
        BY <2>5, <3>1, <3>2
           DEF SuccClear, CLOSED, OPEN, HALF_OPEN, StateBytes, TypeOK
    <2>6. CASE SuccCas(t)
      <3>1. pc[t] = "succ_cas" /\ seen[t] \in StateBytes
        BY <2>6 DEF SuccCas, Finish, Goto, TypeOK
      <3>2. Byte(HALF_OPEN, seen[t].probes + 1) \in StateBytes
        BY <3>1, ConfigType DEF CasInv, StateBytes, Byte
      <3> QED
        BY <2>6, <3>2, FinishType DEF SuccCas, TypeOK
    <2> QED
      BY <1>6, <2>1, <2>2, <2>3, <2>4, <2>5, <2>6 DEF RecordSuccess
  <1>7. ASSUME NEW t \in Threads, TransitionToClosed(t) PROVE TypeOK'
    <2>1. CASE CloseLoad(t)
      BY <2>1 DEF CloseLoad, TypeOK, Goto, Forget, Remember, As, breaker,
         locals, Steps, StateBytes, Byte, Roles
    <2>2. CASE CloseClear(t)
      BY <2>2 DEF CloseClear, TypeOK, Goto, Forget, Remember, As, breaker,
         locals, Steps, StateBytes, Byte, Roles
    <2>3. CASE CloseCas(t)
      BY <2>3 DEF CloseCas, TypeOK, Goto, Forget, Remember, As, breaker,
         locals, Steps, StateBytes, Byte, Roles
    <2>4. CASE CloseLock(t)
      BY <2>4 DEF CloseLock, TypeOK, Goto, Forget, Remember, As, breaker,
         locals, Steps, StateBytes, Byte, Roles, Acquire
    <2>5. CASE CloseWindow(t)
      BY <2>5 DEF CloseWindow, TypeOK, Goto, Forget, Remember, As, breaker,
         locals, Steps, StateBytes, Byte, Roles
    <2>6. CASE CloseCount(t)
      BY <2>6, FinishType DEF CloseCount, TypeOK, breaker, StateBytes, Byte
    <2> QED
      BY <1>7, <2>1, <2>2, <2>3, <2>4, <2>5, <2>6 DEF TransitionToClosed
  <1>8. ASSUME NEW t \in Threads, RecordError(t) PROVE TypeOK'
    <2>1. CASE ErrLoad(t)
      <3>1. CASE state.mode = CLOSED
        BY <2>1, <3>1, FinishType DEF ErrLoad, TypeOK, Goto, Forget,
           Remember, As, breaker, locals, Steps, StateBytes, Byte, Roles,
           CLOSED, OPEN, HALF_OPEN
      <3>2. CASE state.mode = HALF_OPEN
        BY <2>1, <3>2, FinishType DEF ErrLoad, TypeOK, Goto, Forget,
           Remember, As, breaker, locals, Steps, StateBytes, Byte, Roles,
           CLOSED, OPEN, HALF_OPEN
      <3>3. CASE state.mode = OPEN
        BY <2>1, <3>3, FinishType DEF ErrLoad, TypeOK, Goto, Forget,
           Remember, As, breaker, locals, Steps, StateBytes, Byte, Roles,
           CLOSED, OPEN, HALF_OPEN
      <3> QED
        BY <2>1, <3>1, <3>2, <3>3
           DEF ErrLoad, CLOSED, OPEN, HALF_OPEN, StateBytes, TypeOK
    <2>2. CASE ErrLock(t)
      BY <2>2 DEF ErrLock, TypeOK, Goto, Forget, Remember, As, breaker,
         locals, Steps, StateBytes, Byte, Roles, Acquire
    <2>3. CASE ErrCount(t)
      BY <2>3 DEF ErrCount, TypeOK, Goto, Forget, Remember, As, breaker,
         locals, Steps, StateBytes, Byte, Roles
    <2>4. CASE ErrPop(t)
      <3>1. pc[t] = "err_pop" /\ PopOldest(t, "err_pop", "err_push")
        BY <2>4 DEF ErrPop, PopOldest, Goto
      <3>2. window' \in Seq(BOOLEAN) /\ error_count' \in Nat
        BY <3>1, PopPrecondition, PopKeepsCount
      <3>3. /\ Goto(t, "err_pop", "err_push")
            /\ UNCHANGED <<state, lock, opened_age, in_flight, probe_age, seen, attempts, role>>
        BY <3>1 DEF PopOldest
      <3>4. pc' \in [Threads -> Steps]
        BY <3>3 DEF Goto, TypeOK, Steps
      <3> QED
        BY <3>2, <3>3, <3>4 DEF TypeOK
    <2>5. CASE ErrPush(t)
      <3>1. window' \in Seq(BOOLEAN)
        BY <2>5 DEF ErrPush, TypeOK
      <3>2. CASE MeetsThreshold(Len(window'), error_count)
        BY <2>5, <3>1, <3>2 DEF ErrPush, TypeOK, Goto, Forget, Remember, As,
           breaker, locals, Steps, StateBytes, Byte, Roles
      <3>3. CASE ~MeetsThreshold(Len(window'), error_count)
        BY <2>5, <3>1, <3>3, FinishType DEF ErrPush, TypeOK
      <3> QED
        BY <3>2, <3>3
    <2>6. CASE ErrClear(t)
      BY <2>6 DEF ErrClear, TypeOK, Goto, Forget, Remember, As, breaker,
         locals, Steps, StateBytes, Byte, Roles
    <2> QED
      BY <1>8, <2>1, <2>2, <2>3, <2>4, <2>5, <2>6 DEF RecordError
  <1>9. ASSUME NEW t \in Threads, TransitionToOpen(t) PROVE TypeOK'
    <2>1. CASE OpenStamp(t)
      BY <2>1 DEF OpenStamp, TypeOK, Goto, Forget, Remember, As, breaker,
         locals, Steps, StateBytes, Byte, Roles
    <2>2. CASE OpenClear(t)
      BY <2>2 DEF OpenClear, TypeOK, Goto, Forget, Remember, As, breaker,
         locals, Steps, StateBytes, Byte, Roles
    <2>3. CASE OpenLoad(t)
      BY <2>3 DEF OpenLoad, TypeOK, Goto, Forget, Remember, As, breaker,
         locals, Steps, StateBytes, Byte, Roles
    <2>4. CASE OpenCas(t)
      <3>1. state' \in StateBytes
        BY <2>4 DEF OpenCas, TypeOK, StateBytes, Byte
      <3>2. CASE Finish(t, "open_cas")
        BY <2>4, <3>1, <3>2, FinishType DEF OpenCas, TypeOK
      <3>3. CASE /\ state # seen[t]
                 /\ state.mode # OPEN
                 /\ attempts' = [attempts EXCEPT ![t] = @ + 1]
                 /\ IF attempts[t] + 1 >= MaxCasAttempts
                      THEN Goto(t, "open_cas", "open_force")
                      ELSE Goto(t, "open_cas", "open_load")
                 /\ Forget(t)
                 /\ UNCHANGED <<state, role>>
        <4>1. attempts' \in [Threads -> 0 .. MaxCasAttempts]
          <5>1. pc[t] = "open_cas" /\ attempts[t] \in Nat
            BY <3>3 DEF TypeOK, Goto
          <5>2. attempts[t] + 1 \in 0 .. MaxCasAttempts
            BY <5>1 DEF CasInv
          <5> QED
            BY <3>3, <5>2 DEF TypeOK
        <4>2. pc' \in [Threads -> Steps]
          BY <3>3 DEF TypeOK, Goto, Steps
        <4> QED
          BY <2>4, <3>1, <3>3, <4>1, <4>2, ForgetType DEF OpenCas, TypeOK
      <3> QED
        BY <2>4, <3>2, <3>3 DEF OpenCas
    <2>5. CASE OpenForce(t)
      BY <2>5, FinishType DEF OpenForce, TypeOK, breaker, StateBytes, Byte
    <2> QED
      BY <1>9, <2>1, <2>2, <2>3, <2>4, <2>5 DEF TransitionToOpen
  <1>10. CASE UNCHANGED vars
    BY <1>10 DEF vars, breaker, locals, TypeOK, Goto, Forget, Remember, As,
       breaker, locals, Steps, StateBytes, Byte, Roles
  <1> QED
    BY <1>1, <1>2, <1>3, <1>4, <1>5, <1>6, <1>7, <1>8, <1>9, <1>10
       DEF Next, Call

(***************************************************************************)
(* A step of a thread outside the critical sections that leaves the window, *)
(* its count and the mutex alone keeps the mutex and the window invariants. *)
(***************************************************************************)
LEMMA QuietStep ==
    ASSUME Inv, NEW t \in Threads, NEW to \in Steps \ CriticalSteps,
           pc[t] \notin CriticalSteps, pc' = [pc EXCEPT ![t] = to],
           UNCHANGED <<window, error_count, lock>>
    PROVE  LockInv' /\ WindowInv'
  <1>1. \A u \in Threads : pc'[u] = IF u = t THEN to ELSE pc[u]
    BY DEF Inv, TypeOK
  <1>2. LockInv'
    BY <1>1 DEF Inv, LockInv
  <1>3. WindowInv'
    BY <1>1 DEF Inv, WindowInv, CriticalSteps
  <1> QED
    BY <1>2, <1>3

(***************************************************************************)
(* Every step keeps the mutex and the window invariants.                   *)
(***************************************************************************)
LEMMA LockWindowStep ==
    ASSUME Inv, [Next]_vars
    PROVE  LockInv' /\ WindowInv'
  <1> USE ConfigAssumption, ThreadsAssumption DEF Inv
  <1>1. CASE Tick
    BY <1>1 DEF Tick, locals, LockInv, WindowInv, Inv
  <1>2. ASSUME NEW t \in Threads, Begin(t) PROVE LockInv' /\ WindowInv'
    <2>1. CASE Ask(t)
      BY <2>1, QuietStep DEF Ask, Goto, Finish, breaker, CriticalSteps, Steps
    <2>2. CASE GoUnchecked(t)
      BY <2>2, QuietStep
         DEF GoUnchecked, Goto, Finish, breaker, CriticalSteps, Steps
    <2> QED
      BY <1>2, <2>1, <2>2 DEF Begin
  <1>3. ASSUME NEW t \in Threads, Outcome(t) PROVE LockInv' /\ WindowInv'
    <2>1. CASE Refuse(t)
      BY <2>1, QuietStep
         DEF Refuse, Goto, Finish, breaker, CriticalSteps, Steps
    <2>2. CASE Succeed(t)
      BY <2>2, QuietStep
         DEF Succeed, Goto, Finish, breaker, CriticalSteps, Steps
    <2>3. CASE Fail(t)
      BY <2>3, QuietStep DEF Fail, Goto, Finish, breaker, CriticalSteps, Steps
    <2>4. CASE Lose(t)
      BY <2>4, QuietStep DEF Lose, Goto, Finish, breaker, CriticalSteps, Steps
    <2> QED
      BY <1>3, <2>1, <2>2, <2>3, <2>4 DEF Outcome
  <1>4. ASSUME NEW t \in Threads, AllowRequest(t) PROVE LockInv' /\ WindowInv'
    <2>1. CASE AllowClosed(t)
      BY <2>1, QuietStep
         DEF AllowClosed, Goto, Finish, breaker, CriticalSteps, Steps
    <2>2. CASE AllowOpen(t)
      BY <2>2, QuietStep
         DEF AllowOpen, Goto, Finish, breaker, CriticalSteps, Steps
    <2>3. CASE AllowHalfOpen(t)
      BY <2>3, QuietStep
         DEF AllowHalfOpen, Goto, Finish, breaker, CriticalSteps, Steps
    <2>4. CASE Elapsed(t)
      BY <2>4, QuietStep
         DEF Elapsed, Goto, Finish, breaker, CriticalSteps, Steps
    <2>5. CASE NotElapsed(t)
      BY <2>5, QuietStep
         DEF NotElapsed, Goto, Finish, breaker, CriticalSteps, Steps
    <2>6. CASE HalfLoad(t)
      BY <2>6, QuietStep
         DEF HalfLoad, Goto, Finish, breaker, CriticalSteps, Steps
    <2>7. CASE HalfCas(t)
      BY <2>7, QuietStep
         DEF HalfCas, Goto, Finish, breaker, CriticalSteps, Steps
    <2>8. CASE HalfClear(t)
      BY <2>8, QuietStep
         DEF HalfClear, Goto, Finish, breaker, CriticalSteps, Steps
    <2>9. CASE Stuck(t)
      BY <2>9, QuietStep DEF Stuck, Goto, Finish, breaker, CriticalSteps, Steps
    <2>10. CASE Sent(t)
      BY <2>10, QuietStep DEF Sent, Goto, Finish, breaker, CriticalSteps, Steps
    <2>11. CASE AutoReset(t)
      BY <2>11, QuietStep
         DEF AutoReset, Goto, Finish, breaker, CriticalSteps, Steps
    <2>12. CASE Reserve(t)
      BY <2>12, QuietStep
         DEF Reserve, Goto, Finish, breaker, CriticalSteps, Steps
    <2>13. CASE ReserveBusy(t)
      BY <2>13, QuietStep
         DEF ReserveBusy, Goto, Finish, breaker, CriticalSteps, Steps
    <2>14. CASE Stamp(t)
      BY <2>14, QuietStep
         DEF Stamp, Goto, Finish, breaker, CriticalSteps, Steps
    <2> QED
      BY <1>4, <2>1, <2>2, <2>3, <2>4, <2>5, <2>6, <2>7, <2>8, <2>9, <2>10,
         <2>11, <2>12, <2>13, <2>14 DEF AllowRequest
  <1>5. ASSUME NEW t \in Threads, AbortProbe(t) PROVE LockInv' /\ WindowInv'
    <2>1. CASE AbortLoad(t)
      BY <2>1, QuietStep
         DEF AbortLoad, Goto, Finish, breaker, CriticalSteps, Steps
    <2>2. CASE AbortSent(t)
      BY <2>2, QuietStep
         DEF AbortSent, Goto, Finish, breaker, CriticalSteps, Steps
    <2>3. CASE AbortClear(t)
      BY <2>3, QuietStep
         DEF AbortClear, Goto, Finish, breaker, CriticalSteps, Steps
    <2> QED
      BY <1>5, <2>1, <2>2, <2>3 DEF AbortProbe
  <1>6. ASSUME NEW t \in Threads, RecordSuccess(t) PROVE LockInv' /\ WindowInv'
    <2>1. CASE SuccLoad(t)
      BY <2>1, QuietStep
         DEF SuccLoad, Goto, Finish, breaker, CriticalSteps, Steps
    <2>2. CASE SuccLock(t)
      BY <2>2 DEF SuccLock, Acquire, PopOldest, Goto, Finish, LockInv,
         WindowInv, CriticalSteps, TypeOK
    <2>3. CASE SuccPop(t)
      <3>1. /\ pc[t] = "succ_pop" /\ lock = t
            /\ window \in Seq(BOOLEAN) /\ Errors(window) \in Nat
        BY <2>3, ErrorsType
           DEF SuccPop, PopOldest, Finish, Goto, LockInv, CriticalSteps, TypeOK
      <3>2. \A u \in Threads : u # t => pc[u] \notin CriticalSteps
        BY <3>1 DEF LockInv
      <3>3. /\ Len(window') < window_size
            /\ error_count' = Errors(window')
        BY <2>3, <3>1, PopPrecondition, PopKeepsCount, ErrorsType DEF SuccPop
      <3>4. /\ \A u \in Threads : pc'[u] = IF u = t THEN "succ_push" ELSE pc[u]
            /\ lock' = lock
        BY <2>3 DEF SuccPop, PopOldest, Finish, Goto, TypeOK
      <3>5. LockInv'
        BY <3>1, <3>2, <3>3, <3>4 DEF LockInv, CriticalSteps
      <3>6. WindowInv'
        BY <3>1, <3>2, <3>3, <3>4, ConfigType DEF WindowInv, CriticalSteps
      <3> QED
        BY <3>5, <3>6
    <2>4. CASE SuccPush(t)
      <3>1. /\ pc[t] = "succ_push" /\ lock = t
            /\ window \in Seq(BOOLEAN) /\ Errors(window) \in Nat
        BY <2>4, ErrorsType
           DEF SuccPush, PopOldest, Finish, Goto, LockInv, CriticalSteps,
           TypeOK
      <3>2. \A u \in Threads : u # t => pc[u] \notin CriticalSteps
        BY <3>1 DEF LockInv
      <3>3. /\ Len(window') = Len(window) + 1
            /\ error_count' = Errors(window')
        <4>1. window' = Append(window, FALSE) /\ error_count' = error_count
          BY <2>4 DEF SuccPush
        <4>2. Errors(Append(window, FALSE)) = Errors(window)
          BY <3>1, ErrorsAppend
        <4>3. Len(Append(window, FALSE)) = Len(window) + 1
          BY <3>1
        <4>4. error_count = Errors(window)
          BY <3>1 DEF WindowInv
        <4> QED
          BY <3>1, <4>1, <4>2, <4>3, <4>4
      <3>4. /\ \A u \in Threads : pc'[u] = IF u = t THEN "idle" ELSE pc[u]
            /\ lock' = NoThread
        BY <2>4 DEF SuccPush, PopOldest, Finish, Goto, TypeOK
      <3>5. LockInv'
        BY <3>1, <3>2, <3>3, <3>4 DEF LockInv, CriticalSteps
      <3>6. WindowInv'
        BY <3>1, <3>2, <3>3, <3>4, ConfigType DEF WindowInv, CriticalSteps
      <3> QED
        BY <3>5, <3>6
    <2>5. CASE SuccClear(t)
      BY <2>5, QuietStep
         DEF SuccClear, Goto, Finish, breaker, CriticalSteps, Steps
    <2>6. CASE SuccCas(t)
      BY <2>6, QuietStep
         DEF SuccCas, Goto, Finish, breaker, CriticalSteps, Steps
    <2> QED
      BY <1>6, <2>1, <2>2, <2>3, <2>4, <2>5, <2>6 DEF RecordSuccess
  <1>7. ASSUME NEW t \in Threads, TransitionToClosed(t) PROVE LockInv' /\ WindowInv'
    <2>1. CASE CloseLoad(t)
      BY <2>1, QuietStep
         DEF CloseLoad, Goto, Finish, breaker, CriticalSteps, Steps
    <2>2. CASE CloseClear(t)
      BY <2>2, QuietStep
         DEF CloseClear, Goto, Finish, breaker, CriticalSteps, Steps
    <2>3. CASE CloseCas(t)
      BY <2>3, QuietStep
         DEF CloseCas, Goto, Finish, breaker, CriticalSteps, Steps
    <2>4. CASE CloseLock(t)
      BY <2>4 DEF CloseLock, Acquire, PopOldest, Goto, Finish, LockInv,
         WindowInv, CriticalSteps, TypeOK
    <2>5. CASE CloseWindow(t)
      <3>1. /\ pc[t] = "close_window" /\ lock = t
            /\ window \in Seq(BOOLEAN) /\ Errors(window) \in Nat
        BY <2>5, ErrorsType
           DEF CloseWindow, PopOldest, Finish, Goto, LockInv, CriticalSteps,
           TypeOK
      <3>2. \A u \in Threads : u # t => pc[u] \notin CriticalSteps
        BY <3>1 DEF LockInv
      <3>3. window' = <<>>
        BY <2>5 DEF CloseWindow
      <3>4. /\ \A u \in Threads : pc'[u] = IF u = t THEN "close_count" ELSE pc[u]
            /\ lock' = lock
        BY <2>5 DEF CloseWindow, PopOldest, Finish, Goto, TypeOK
      <3>5. LockInv'
        BY <3>1, <3>2, <3>3, <3>4 DEF LockInv, CriticalSteps
      <3>6. WindowInv'
        BY <3>1, <3>2, <3>3, <3>4, ConfigType DEF WindowInv, CriticalSteps
      <3> QED
        BY <3>5, <3>6
    <2>6. CASE CloseCount(t)
      <3>1. /\ pc[t] = "close_count" /\ lock = t
            /\ window \in Seq(BOOLEAN) /\ Errors(window) \in Nat
        BY <2>6, ErrorsType
           DEF CloseCount, PopOldest, Finish, Goto, LockInv, CriticalSteps,
           TypeOK
      <3>2. \A u \in Threads : u # t => pc[u] \notin CriticalSteps
        BY <3>1 DEF LockInv
      <3>3. /\ window' = <<>>
            /\ error_count' = Errors(window')
        BY <2>6, <3>1, ErrorsEmpty DEF CloseCount, WindowInv
      <3>4. /\ \A u \in Threads : pc'[u] = IF u = t THEN "idle" ELSE pc[u]
            /\ lock' = NoThread
        BY <2>6 DEF CloseCount, PopOldest, Finish, Goto, TypeOK
      <3>5. LockInv'
        BY <3>1, <3>2, <3>3, <3>4 DEF LockInv, CriticalSteps
      <3>6. WindowInv'
        BY <3>1, <3>2, <3>3, <3>4, ConfigType DEF WindowInv, CriticalSteps
      <3> QED
        BY <3>5, <3>6
    <2> QED
      BY <1>7, <2>1, <2>2, <2>3, <2>4, <2>5, <2>6 DEF TransitionToClosed
  <1>8. ASSUME NEW t \in Threads, RecordError(t) PROVE LockInv' /\ WindowInv'
    <2>1. CASE ErrLoad(t)
      BY <2>1, QuietStep
         DEF ErrLoad, Goto, Finish, breaker, CriticalSteps, Steps
    <2>2. CASE ErrLock(t)
      BY <2>2 DEF ErrLock, Acquire, PopOldest, Goto, Finish, LockInv,
         WindowInv, CriticalSteps, TypeOK
    <2>3. CASE ErrCount(t)
      BY <2>3 DEF ErrCount, Acquire, PopOldest, Goto, Finish, LockInv,
         WindowInv, CriticalSteps, TypeOK
    <2>4. CASE ErrPop(t)
      <3>1. /\ pc[t] = "err_pop" /\ lock = t
            /\ window \in Seq(BOOLEAN) /\ Errors(window) \in Nat
        BY <2>4, ErrorsType
           DEF ErrPop, PopOldest, Finish, Goto, LockInv, CriticalSteps, TypeOK
      <3>2. \A u \in Threads : u # t => pc[u] \notin CriticalSteps
        BY <3>1 DEF LockInv
      <3>3. /\ Len(window') < window_size
            /\ error_count' = Errors(window') + 1
        BY <2>4, <3>1, PopPrecondition, PopKeepsCount, ErrorsType DEF ErrPop
      <3>4. /\ \A u \in Threads : pc'[u] = IF u = t THEN "err_push" ELSE pc[u]
            /\ lock' = lock
        BY <2>4 DEF ErrPop, PopOldest, Finish, Goto, TypeOK
      <3>5. LockInv'
        BY <3>1, <3>2, <3>3, <3>4 DEF LockInv, CriticalSteps
      <3>6. WindowInv'
        BY <3>1, <3>2, <3>3, <3>4, ConfigType DEF WindowInv, CriticalSteps
      <3> QED
        BY <3>5, <3>6
    <2>5. CASE ErrPush(t)
      <3>1. /\ pc[t] = "err_push" /\ lock = t
            /\ window \in Seq(BOOLEAN) /\ Errors(window) \in Nat
        BY <2>5, ErrorsType
           DEF ErrPush, PopOldest, Finish, Goto, LockInv, CriticalSteps, TypeOK
      <3>2. \A u \in Threads : u # t => pc[u] \notin CriticalSteps
        BY <3>1 DEF LockInv
      <3>3. /\ Len(window') = Len(window) + 1
            /\ error_count' = Errors(window')
            /\ lock' = NoThread
        <4>1. window' = Append(window, TRUE) /\ error_count' = error_count /\ lock' = NoThread
          BY <2>5 DEF ErrPush
        <4>2. Errors(Append(window, TRUE)) = Errors(window) + 1
          BY <3>1, ErrorsAppend
        <4>3. Len(Append(window, TRUE)) = Len(window) + 1
          BY <3>1
        <4>4. error_count = Errors(window) + 1
          BY <3>1 DEF WindowInv
        <4> QED
          BY <3>1, <4>1, <4>2, <4>3, <4>4
      <3>4. PICK to \in {"open_stamp", "idle"} :
              \A u \in Threads : pc'[u] = IF u = t THEN to ELSE pc[u]
        BY <2>5 DEF ErrPush, Finish, Goto, TypeOK
      <3>5. LockInv'
        BY <3>1, <3>2, <3>3, <3>4 DEF LockInv, CriticalSteps
      <3>6. WindowInv'
        BY <3>1, <3>2, <3>3, <3>4, ConfigType DEF WindowInv, CriticalSteps
      <3> QED
        BY <3>5, <3>6
    <2>6. CASE ErrClear(t)
      BY <2>6, QuietStep
         DEF ErrClear, Goto, Finish, breaker, CriticalSteps, Steps
    <2> QED
      BY <1>8, <2>1, <2>2, <2>3, <2>4, <2>5, <2>6 DEF RecordError
  <1>9. ASSUME NEW t \in Threads, TransitionToOpen(t) PROVE LockInv' /\ WindowInv'
    <2>1. CASE OpenStamp(t)
      BY <2>1, QuietStep
         DEF OpenStamp, Goto, Finish, breaker, CriticalSteps, Steps
    <2>2. CASE OpenClear(t)
      BY <2>2, QuietStep
         DEF OpenClear, Goto, Finish, breaker, CriticalSteps, Steps
    <2>3. CASE OpenLoad(t)
      BY <2>3, QuietStep
         DEF OpenLoad, Goto, Finish, breaker, CriticalSteps, Steps
    <2>4. CASE OpenCas(t)
      BY <2>4, QuietStep
         DEF OpenCas, Goto, Finish, breaker, CriticalSteps, Steps
    <2>5. CASE OpenForce(t)
      BY <2>5, QuietStep
         DEF OpenForce, Goto, Finish, breaker, CriticalSteps, Steps
    <2> QED
      BY <1>9, <2>1, <2>2, <2>3, <2>4, <2>5 DEF TransitionToOpen
  <1>10. CASE UNCHANGED vars
    BY <1>10 DEF vars, breaker, locals, LockInv, WindowInv
  <1> QED
    BY <1>1, <1>2, <1>3, <1>4, <1>5, <1>6, <1>7, <1>8, <1>9, <1>10
       DEF Next, Call

(***************************************************************************)
(* Every step keeps what the compare-exchange loops rely on.               *)
(***************************************************************************)
LEMMA CasStep ==
    ASSUME Inv, [Next]_vars
    PROVE  CasInv'
  <1> USE ConfigAssumption, ThreadsAssumption DEF Inv
  <1>1. CASE Tick
    BY <1>1
       DEF Tick, CasInv, TypeOK, Goto, Finish, Forget, Remember, breaker,
       locals
  <1>2. ASSUME NEW t \in Threads, Begin(t) PROVE CasInv'
    <2>1. CASE Ask(t)
      BY <2>1
         DEF Ask, CasInv, TypeOK, Goto, Finish, Forget, Remember, breaker,
         locals
    <2>2. CASE GoUnchecked(t)
      BY <2>2 DEF GoUnchecked, CasInv, TypeOK, Goto, Finish, Forget,
         Remember, breaker, locals
    <2> QED
      BY <1>2, <2>1, <2>2 DEF Begin
  <1>3. ASSUME NEW t \in Threads, Outcome(t) PROVE CasInv'
    <2>1. CASE Refuse(t)
      BY <2>1 DEF Refuse, CasInv, TypeOK, Goto, Finish, Forget, Remember,
         breaker, locals
    <2>2. CASE Succeed(t)
      BY <2>2 DEF Succeed, CasInv, TypeOK, Goto, Finish, Forget, Remember,
         breaker, locals
    <2>3. CASE Fail(t)
      BY <2>3
         DEF Fail, CasInv, TypeOK, Goto, Finish, Forget, Remember, breaker,
         locals
    <2>4. CASE Lose(t)
      BY <2>4
         DEF Lose, CasInv, TypeOK, Goto, Finish, Forget, Remember, breaker,
         locals
    <2> QED
      BY <1>3, <2>1, <2>2, <2>3, <2>4 DEF Outcome
  <1>4. ASSUME NEW t \in Threads, AllowRequest(t) PROVE CasInv'
    <2>1. CASE AllowClosed(t)
      BY <2>1 DEF AllowClosed, CasInv, TypeOK, Goto, Finish, Forget,
         Remember, breaker, locals
    <2>2. CASE AllowOpen(t)
      BY <2>2 DEF AllowOpen, CasInv, TypeOK, Goto, Finish, Forget, Remember,
         breaker, locals
    <2>3. CASE AllowHalfOpen(t)
      BY <2>3 DEF AllowHalfOpen, CasInv, TypeOK, Goto, Finish, Forget,
         Remember, breaker, locals
    <2>4. CASE Elapsed(t)
      BY <2>4 DEF Elapsed, CasInv, TypeOK, Goto, Finish, Forget, Remember,
         breaker, locals
    <2>5. CASE NotElapsed(t)
      BY <2>5 DEF NotElapsed, CasInv, TypeOK, Goto, Finish, Forget, Remember,
         breaker, locals
    <2>6. CASE HalfLoad(t)
      BY <2>6 DEF HalfLoad, CasInv, TypeOK, Goto, Finish, Forget, Remember,
         breaker, locals
    <2>7. CASE HalfCas(t)
      BY <2>7 DEF HalfCas, CasInv, TypeOK, Goto, Finish, Forget, Remember,
         breaker, locals
    <2>8. CASE HalfClear(t)
      BY <2>8 DEF HalfClear, CasInv, TypeOK, Goto, Finish, Forget, Remember,
         breaker, locals
    <2>9. CASE Stuck(t)
      BY <2>9
         DEF Stuck, CasInv, TypeOK, Goto, Finish, Forget, Remember, breaker,
         locals
    <2>10. CASE Sent(t)
      BY <2>10
         DEF Sent, CasInv, TypeOK, Goto, Finish, Forget, Remember, breaker,
         locals
    <2>11. CASE AutoReset(t)
      BY <2>11 DEF AutoReset, CasInv, TypeOK, Goto, Finish, Forget, Remember,
         breaker, locals
    <2>12. CASE Reserve(t)
      BY <2>12 DEF Reserve, CasInv, TypeOK, Goto, Finish, Forget, Remember,
         breaker, locals
    <2>13. CASE ReserveBusy(t)
      BY <2>13 DEF ReserveBusy, CasInv, TypeOK, Goto, Finish, Forget,
         Remember, breaker, locals
    <2>14. CASE Stamp(t)
      BY <2>14
         DEF Stamp, CasInv, TypeOK, Goto, Finish, Forget, Remember, breaker,
         locals
    <2> QED
      BY <1>4, <2>1, <2>2, <2>3, <2>4, <2>5, <2>6, <2>7, <2>8, <2>9, <2>10,
         <2>11, <2>12, <2>13, <2>14 DEF AllowRequest
  <1>5. ASSUME NEW t \in Threads, AbortProbe(t) PROVE CasInv'
    <2>1. CASE AbortLoad(t)
      BY <2>1 DEF AbortLoad, CasInv, TypeOK, Goto, Finish, Forget, Remember,
         breaker, locals
    <2>2. CASE AbortSent(t)
      BY <2>2 DEF AbortSent, CasInv, TypeOK, Goto, Finish, Forget, Remember,
         breaker, locals
    <2>3. CASE AbortClear(t)
      BY <2>3 DEF AbortClear, CasInv, TypeOK, Goto, Finish, Forget, Remember,
         breaker, locals
    <2> QED
      BY <1>5, <2>1, <2>2, <2>3 DEF AbortProbe
  <1>6. ASSUME NEW t \in Threads, RecordSuccess(t) PROVE CasInv'
    <2>1. CASE SuccLoad(t)
      BY <2>1 DEF SuccLoad, CasInv, TypeOK, Goto, Finish, Forget, Remember,
         breaker, locals
    <2>2. CASE SuccLock(t)
      BY <2>2 DEF SuccLock, CasInv, TypeOK, Goto, Finish, Forget, Remember,
         breaker, locals, Acquire
    <2>3. CASE SuccPop(t)
      BY <2>3 DEF SuccPop, PopOldest, CasInv, TypeOK, Goto
    <2>4. CASE SuccPush(t)
      BY <2>4 DEF SuccPush, CasInv, TypeOK, Goto, Finish, Forget, Remember,
         breaker, locals
    <2>5. CASE SuccClear(t)
      <3>1. seen[t] \in StateBytes
        BY DEF TypeOK
      <3>2. half_open_max \in Nat /\ seen[t].probes \in Nat
        BY <3>1, ConfigType DEF StateBytes
      <3>3. CASE seen[t].probes + 1 >= half_open_max
        BY <2>5, <3>3 DEF SuccClear, CasInv, TypeOK, Goto, Forget, Remember
      <3>4. CASE ~(seen[t].probes + 1 >= half_open_max)
        BY <2>5, <3>2, <3>4 DEF SuccClear, CasInv, TypeOK, Goto
      <3> QED
        BY <3>3, <3>4
    <2>6. CASE SuccCas(t)
      BY <2>6 DEF SuccCas, CasInv, TypeOK, Goto, Finish, Forget, Remember,
         breaker, locals
    <2> QED
      BY <1>6, <2>1, <2>2, <2>3, <2>4, <2>5, <2>6 DEF RecordSuccess
  <1>7. ASSUME NEW t \in Threads, TransitionToClosed(t) PROVE CasInv'
    <2>1. CASE CloseLoad(t)
      BY <2>1 DEF CloseLoad, CasInv, TypeOK, Goto, Finish, Forget, Remember,
         breaker, locals
    <2>2. CASE CloseClear(t)
      BY <2>2 DEF CloseClear, CasInv, TypeOK, Goto, Finish, Forget, Remember,
         breaker, locals
    <2>3. CASE CloseCas(t)
      BY <2>3 DEF CloseCas, CasInv, TypeOK, Goto, Finish, Forget, Remember,
         breaker, locals
    <2>4. CASE CloseLock(t)
      BY <2>4 DEF CloseLock, CasInv, TypeOK, Goto, Finish, Forget, Remember,
         breaker, locals, Acquire
    <2>5. CASE CloseWindow(t)
      BY <2>5 DEF CloseWindow, CasInv, TypeOK, Goto, Finish, Forget,
         Remember, breaker, locals
    <2>6. CASE CloseCount(t)
      BY <2>6 DEF CloseCount, CasInv, TypeOK, Goto, Finish, Forget, Remember,
         breaker, locals
    <2> QED
      BY <1>7, <2>1, <2>2, <2>3, <2>4, <2>5, <2>6 DEF TransitionToClosed
  <1>8. ASSUME NEW t \in Threads, RecordError(t) PROVE CasInv'
    <2>1. CASE ErrLoad(t)
      BY <2>1 DEF ErrLoad, CasInv, TypeOK, Goto, Finish, Forget, Remember,
         breaker, locals
    <2>2. CASE ErrLock(t)
      BY <2>2 DEF ErrLock, CasInv, TypeOK, Goto, Finish, Forget, Remember,
         breaker, locals, Acquire
    <2>3. CASE ErrCount(t)
      BY <2>3 DEF ErrCount, CasInv, TypeOK, Goto, Finish, Forget, Remember,
         breaker, locals
    <2>4. CASE ErrPop(t)
      BY <2>4 DEF ErrPop, PopOldest, CasInv, TypeOK, Goto
    <2>5. CASE ErrPush(t)
      BY <2>5 DEF ErrPush, CasInv, TypeOK, Goto, Finish, Forget, Remember,
         breaker, locals
    <2>6. CASE ErrClear(t)
      BY <2>6 DEF ErrClear, CasInv, TypeOK, Goto, Finish, Forget, Remember,
         breaker, locals
    <2> QED
      BY <1>8, <2>1, <2>2, <2>3, <2>4, <2>5, <2>6 DEF RecordError
  <1>9. ASSUME NEW t \in Threads, TransitionToOpen(t) PROVE CasInv'
    <2>1. CASE OpenStamp(t)
      BY <2>1 DEF OpenStamp, CasInv, TypeOK, Goto, Finish, Forget, Remember,
         breaker, locals
    <2>2. CASE OpenClear(t)
      BY <2>2 DEF OpenClear, CasInv, TypeOK, Goto, Finish, Forget, Remember,
         breaker, locals
    <2>3. CASE OpenLoad(t)
      BY <2>3 DEF OpenLoad, CasInv, TypeOK, Goto, Finish, Forget, Remember,
         breaker, locals
    <2>4. CASE OpenCas(t)
      BY <2>4 DEF OpenCas, CasInv, TypeOK, Goto, Finish, Forget, Remember,
         breaker, locals
    <2>5. CASE OpenForce(t)
      BY <2>5 DEF OpenForce, CasInv, TypeOK, Goto, Finish, Forget, Remember,
         breaker, locals
    <2> QED
      BY <1>9, <2>1, <2>2, <2>3, <2>4, <2>5 DEF TransitionToOpen
  <1>10. CASE UNCHANGED vars
    BY <1>10 DEF vars, breaker, locals, CasInv, TypeOK, Goto, Finish, Forget,
       Remember, breaker, locals
  <1> QED
    BY <1>1, <1>2, <1>3, <1>4, <1>5, <1>6, <1>7, <1>8, <1>9, <1>10
       DEF Next, Call

(***************************************************************************)
(* Every step keeps the probe counter in range.                            *)
(***************************************************************************)
LEMMA ProbesStep ==
    ASSUME Inv, [Next]_vars
    PROVE  ProbesBelowMax'
  <1> USE ConfigAssumption, ThreadsAssumption DEF Inv
  <1>1. CASE Tick
    BY <1>1
       DEF Tick, ProbesBelowMax, TypeOK, breaker, CLOSED, OPEN, HALF_OPEN, Byte
  <1>2. ASSUME NEW t \in Threads, Begin(t) PROVE ProbesBelowMax'
    <2>1. CASE Ask(t)
      BY <2>1
         DEF Ask, ProbesBelowMax, TypeOK, breaker, CLOSED, OPEN, HALF_OPEN,
         Byte
    <2>2. CASE GoUnchecked(t)
      BY <2>2 DEF GoUnchecked, ProbesBelowMax, TypeOK, breaker, CLOSED, OPEN,
         HALF_OPEN, Byte
    <2> QED
      BY <1>2, <2>1, <2>2 DEF Begin
  <1>3. ASSUME NEW t \in Threads, Outcome(t) PROVE ProbesBelowMax'
    <2>1. CASE Refuse(t)
      BY <2>1
         DEF Refuse, ProbesBelowMax, TypeOK, breaker, CLOSED, OPEN,
         HALF_OPEN, Byte
    <2>2. CASE Succeed(t)
      BY <2>2 DEF Succeed, ProbesBelowMax, TypeOK, breaker, CLOSED, OPEN,
         HALF_OPEN, Byte
    <2>3. CASE Fail(t)
      BY <2>3
         DEF Fail, ProbesBelowMax, TypeOK, breaker, CLOSED, OPEN, HALF_OPEN,
         Byte
    <2>4. CASE Lose(t)
      BY <2>4
         DEF Lose, ProbesBelowMax, TypeOK, breaker, CLOSED, OPEN, HALF_OPEN,
         Byte
    <2> QED
      BY <1>3, <2>1, <2>2, <2>3, <2>4 DEF Outcome
  <1>4. ASSUME NEW t \in Threads, AllowRequest(t) PROVE ProbesBelowMax'
    <2>1. CASE AllowClosed(t)
      BY <2>1 DEF AllowClosed, ProbesBelowMax, TypeOK, breaker, CLOSED, OPEN,
         HALF_OPEN, Byte
    <2>2. CASE AllowOpen(t)
      BY <2>2 DEF AllowOpen, ProbesBelowMax, TypeOK, breaker, CLOSED, OPEN,
         HALF_OPEN, Byte
    <2>3. CASE AllowHalfOpen(t)
      BY <2>3 DEF AllowHalfOpen, ProbesBelowMax, TypeOK, breaker, CLOSED,
         OPEN, HALF_OPEN, Byte
    <2>4. CASE Elapsed(t)
      BY <2>4 DEF Elapsed, ProbesBelowMax, TypeOK, breaker, CLOSED, OPEN,
         HALF_OPEN, Byte
    <2>5. CASE NotElapsed(t)
      BY <2>5 DEF NotElapsed, ProbesBelowMax, TypeOK, breaker, CLOSED, OPEN,
         HALF_OPEN, Byte
    <2>6. CASE HalfLoad(t)
      BY <2>6 DEF HalfLoad, ProbesBelowMax, TypeOK, breaker, CLOSED, OPEN,
         HALF_OPEN, Byte
    <2>7. CASE HalfCas(t)
      BY <2>7, ConfigType
         DEF HalfCas, ProbesBelowMax, CLOSED, OPEN, HALF_OPEN, Byte
    <2>8. CASE HalfClear(t)
      BY <2>8 DEF HalfClear, ProbesBelowMax, TypeOK, breaker, CLOSED, OPEN,
         HALF_OPEN, Byte
    <2>9. CASE Stuck(t)
      BY <2>9
         DEF Stuck, ProbesBelowMax, TypeOK, breaker, CLOSED, OPEN, HALF_OPEN,
         Byte
    <2>10. CASE Sent(t)
      BY <2>10
         DEF Sent, ProbesBelowMax, TypeOK, breaker, CLOSED, OPEN, HALF_OPEN,
         Byte
    <2>11. CASE AutoReset(t)
      BY <2>11 DEF AutoReset, ProbesBelowMax, TypeOK, breaker, CLOSED, OPEN,
         HALF_OPEN, Byte
    <2>12. CASE Reserve(t)
      BY <2>12 DEF Reserve, ProbesBelowMax, TypeOK, breaker, CLOSED, OPEN,
         HALF_OPEN, Byte
    <2>13. CASE ReserveBusy(t)
      BY <2>13 DEF ReserveBusy, ProbesBelowMax, TypeOK, breaker, CLOSED,
         OPEN, HALF_OPEN, Byte
    <2>14. CASE Stamp(t)
      BY <2>14
         DEF Stamp, ProbesBelowMax, TypeOK, breaker, CLOSED, OPEN, HALF_OPEN,
         Byte
    <2> QED
      BY <1>4, <2>1, <2>2, <2>3, <2>4, <2>5, <2>6, <2>7, <2>8, <2>9, <2>10,
         <2>11, <2>12, <2>13, <2>14 DEF AllowRequest
  <1>5. ASSUME NEW t \in Threads, AbortProbe(t) PROVE ProbesBelowMax'
    <2>1. CASE AbortLoad(t)
      BY <2>1 DEF AbortLoad, ProbesBelowMax, TypeOK, breaker, CLOSED, OPEN,
         HALF_OPEN, Byte
    <2>2. CASE AbortSent(t)
      BY <2>2 DEF AbortSent, ProbesBelowMax, TypeOK, breaker, CLOSED, OPEN,
         HALF_OPEN, Byte
    <2>3. CASE AbortClear(t)
      BY <2>3 DEF AbortClear, ProbesBelowMax, TypeOK, breaker, CLOSED, OPEN,
         HALF_OPEN, Byte
    <2> QED
      BY <1>5, <2>1, <2>2, <2>3 DEF AbortProbe
  <1>6. ASSUME NEW t \in Threads, RecordSuccess(t) PROVE ProbesBelowMax'
    <2>1. CASE SuccLoad(t)
      BY <2>1 DEF SuccLoad, ProbesBelowMax, TypeOK, breaker, CLOSED, OPEN,
         HALF_OPEN, Byte
    <2>2. CASE SuccLock(t)
      BY <2>2 DEF SuccLock, ProbesBelowMax, TypeOK, breaker, CLOSED, OPEN,
         HALF_OPEN, Byte, Acquire
    <2>3. CASE SuccPop(t)
      BY <2>3 DEF SuccPop, ProbesBelowMax, TypeOK, breaker, CLOSED, OPEN,
         HALF_OPEN, Byte, PopOldest
    <2>4. CASE SuccPush(t)
      BY <2>4 DEF SuccPush, ProbesBelowMax, TypeOK, breaker, CLOSED, OPEN,
         HALF_OPEN, Byte
    <2>5. CASE SuccClear(t)
      BY <2>5 DEF SuccClear, ProbesBelowMax, TypeOK, breaker, CLOSED, OPEN,
         HALF_OPEN, Byte
    <2>6. CASE SuccCas(t)
      BY <2>6
         DEF SuccCas, Finish, Goto, CasInv, ProbesBelowMax, HALF_OPEN, Byte
    <2> QED
      BY <1>6, <2>1, <2>2, <2>3, <2>4, <2>5, <2>6 DEF RecordSuccess
  <1>7. ASSUME NEW t \in Threads, TransitionToClosed(t) PROVE ProbesBelowMax'
    <2>1. CASE CloseLoad(t)
      BY <2>1 DEF CloseLoad, ProbesBelowMax, TypeOK, breaker, CLOSED, OPEN,
         HALF_OPEN, Byte
    <2>2. CASE CloseClear(t)
      BY <2>2 DEF CloseClear, ProbesBelowMax, TypeOK, breaker, CLOSED, OPEN,
         HALF_OPEN, Byte
    <2>3. CASE CloseCas(t)
      BY <2>3, ConfigType
         DEF CloseCas, ProbesBelowMax, CLOSED, OPEN, HALF_OPEN, Byte
    <2>4. CASE CloseLock(t)
      BY <2>4 DEF CloseLock, ProbesBelowMax, TypeOK, breaker, CLOSED, OPEN,
         HALF_OPEN, Byte, Acquire
    <2>5. CASE CloseWindow(t)
      BY <2>5 DEF CloseWindow, ProbesBelowMax, TypeOK, breaker, CLOSED, OPEN,
         HALF_OPEN, Byte
    <2>6. CASE CloseCount(t)
      BY <2>6 DEF CloseCount, ProbesBelowMax, TypeOK, breaker, CLOSED, OPEN,
         HALF_OPEN, Byte
    <2> QED
      BY <1>7, <2>1, <2>2, <2>3, <2>4, <2>5, <2>6 DEF TransitionToClosed
  <1>8. ASSUME NEW t \in Threads, RecordError(t) PROVE ProbesBelowMax'
    <2>1. CASE ErrLoad(t)
      BY <2>1 DEF ErrLoad, ProbesBelowMax, TypeOK, breaker, CLOSED, OPEN,
         HALF_OPEN, Byte
    <2>2. CASE ErrLock(t)
      BY <2>2 DEF ErrLock, ProbesBelowMax, TypeOK, breaker, CLOSED, OPEN,
         HALF_OPEN, Byte, Acquire
    <2>3. CASE ErrCount(t)
      BY <2>3 DEF ErrCount, ProbesBelowMax, TypeOK, breaker, CLOSED, OPEN,
         HALF_OPEN, Byte
    <2>4. CASE ErrPop(t)
      BY <2>4 DEF ErrPop, ProbesBelowMax, TypeOK, breaker, CLOSED, OPEN,
         HALF_OPEN, Byte, PopOldest
    <2>5. CASE ErrPush(t)
      BY <2>5 DEF ErrPush, ProbesBelowMax, TypeOK, breaker, CLOSED, OPEN,
         HALF_OPEN, Byte
    <2>6. CASE ErrClear(t)
      BY <2>6 DEF ErrClear, ProbesBelowMax, TypeOK, breaker, CLOSED, OPEN,
         HALF_OPEN, Byte
    <2> QED
      BY <1>8, <2>1, <2>2, <2>3, <2>4, <2>5, <2>6 DEF RecordError
  <1>9. ASSUME NEW t \in Threads, TransitionToOpen(t) PROVE ProbesBelowMax'
    <2>1. CASE OpenStamp(t)
      BY <2>1 DEF OpenStamp, ProbesBelowMax, TypeOK, breaker, CLOSED, OPEN,
         HALF_OPEN, Byte
    <2>2. CASE OpenClear(t)
      BY <2>2 DEF OpenClear, ProbesBelowMax, TypeOK, breaker, CLOSED, OPEN,
         HALF_OPEN, Byte
    <2>3. CASE OpenLoad(t)
      BY <2>3 DEF OpenLoad, ProbesBelowMax, TypeOK, breaker, CLOSED, OPEN,
         HALF_OPEN, Byte
    <2>4. CASE OpenCas(t)
      BY <2>4, ConfigType
         DEF OpenCas, ProbesBelowMax, CLOSED, OPEN, HALF_OPEN, Byte
    <2>5. CASE OpenForce(t)
      BY <2>5, ConfigType
         DEF OpenForce, ProbesBelowMax, CLOSED, OPEN, HALF_OPEN, Byte
    <2> QED
      BY <1>9, <2>1, <2>2, <2>3, <2>4, <2>5 DEF TransitionToOpen
  <1>10. CASE UNCHANGED vars
    BY <1>10 DEF vars, breaker, locals, ProbesBelowMax, TypeOK, breaker,
       CLOSED, OPEN, HALF_OPEN, Byte
  <1> QED
    BY <1>1, <1>2, <1>3, <1>4, <1>5, <1>6, <1>7, <1>8, <1>9, <1>10
       DEF Next, Call

(***************************************************************************)
(* Every step keeps a reservation stamped, or about to be.                 *)
(***************************************************************************)
LEMMA ReservationStep ==
    ASSUME Inv, [Next]_vars
    PROVE  ReservationIsStamped'
  <1> USE ConfigAssumption, ThreadsAssumption DEF Inv
  <1>1. CASE Tick
    BY <1>1, ConfigType
       DEF Tick, ReservationIsStamped, TypeOK, locals, NotSent, AtMost
  <1>2. ASSUME NEW t \in Threads, Begin(t) PROVE ReservationIsStamped'
    <2>1. CASE Ask(t)
      BY <2>1 DEF Ask, ReservationIsStamped, TypeOK, Goto, Finish, NotSent,
         breaker, locals
    <2>2. CASE GoUnchecked(t)
      BY <2>2 DEF GoUnchecked, ReservationIsStamped, TypeOK, Goto, Finish,
         NotSent, breaker, locals
    <2> QED
      BY <1>2, <2>1, <2>2 DEF Begin
  <1>3. ASSUME NEW t \in Threads, Outcome(t) PROVE ReservationIsStamped'
    <2>1. CASE Refuse(t)
      BY <2>1 DEF Refuse, ReservationIsStamped, TypeOK, Goto, Finish,
         NotSent, breaker, locals
    <2>2. CASE Succeed(t)
      BY <2>2 DEF Succeed, ReservationIsStamped, TypeOK, Goto, Finish,
         NotSent, breaker, locals
    <2>3. CASE Fail(t)
      BY <2>3 DEF Fail, ReservationIsStamped, TypeOK, Goto, Finish, NotSent,
         breaker, locals
    <2>4. CASE Lose(t)
      BY <2>4 DEF Lose, ReservationIsStamped, TypeOK, Goto, Finish, NotSent,
         breaker, locals
    <2> QED
      BY <1>3, <2>1, <2>2, <2>3, <2>4 DEF Outcome
  <1>4. ASSUME NEW t \in Threads, AllowRequest(t) PROVE ReservationIsStamped'
    <2>1. CASE AllowClosed(t)
      BY <2>1 DEF AllowClosed, ReservationIsStamped, TypeOK, Goto, Finish,
         NotSent, breaker, locals
    <2>2. CASE AllowOpen(t)
      BY <2>2 DEF AllowOpen, ReservationIsStamped, TypeOK, Goto, Finish,
         NotSent, breaker, locals
    <2>3. CASE AllowHalfOpen(t)
      BY <2>3 DEF AllowHalfOpen, ReservationIsStamped, TypeOK, Goto, Finish,
         NotSent, breaker, locals
    <2>4. CASE Elapsed(t)
      BY <2>4 DEF Elapsed, ReservationIsStamped, TypeOK, Goto, Finish,
         NotSent, breaker, locals
    <2>5. CASE NotElapsed(t)
      BY <2>5 DEF NotElapsed, ReservationIsStamped, TypeOK, Goto, Finish,
         NotSent, breaker, locals
    <2>6. CASE HalfLoad(t)
      BY <2>6 DEF HalfLoad, ReservationIsStamped, TypeOK, Goto, Finish,
         NotSent, breaker, locals
    <2>7. CASE HalfCas(t)
      BY <2>7 DEF HalfCas, ReservationIsStamped, TypeOK, Goto, Finish,
         NotSent, breaker, locals
    <2>8. CASE HalfClear(t)
      BY <2>8 DEF HalfClear, ReservationIsStamped, TypeOK, Goto, Finish,
         NotSent, breaker, locals
    <2>9. CASE Stuck(t)
      BY <2>9 DEF Stuck, ReservationIsStamped, TypeOK, Goto, Finish, NotSent,
         breaker, locals
    <2>10. CASE Sent(t)
      BY <2>10 DEF Sent, ReservationIsStamped, TypeOK, Goto, Finish, NotSent,
         breaker, locals
    <2>11. CASE AutoReset(t)
      BY <2>11 DEF AutoReset, ReservationIsStamped, TypeOK, Goto, Finish,
         NotSent, breaker, locals
    <2>12. CASE Reserve(t)
      BY <2>12 DEF Reserve, ReservationIsStamped, TypeOK, Goto, Finish,
         NotSent, breaker, locals
    <2>13. CASE ReserveBusy(t)
      BY <2>13 DEF ReserveBusy, ReservationIsStamped, TypeOK, Goto, Finish,
         NotSent, breaker, locals
    <2>14. CASE Stamp(t)
      BY <2>14 DEF Stamp, ReservationIsStamped, TypeOK, Goto, Finish,
         NotSent, breaker, locals
    <2> QED
      BY <1>4, <2>1, <2>2, <2>3, <2>4, <2>5, <2>6, <2>7, <2>8, <2>9, <2>10,
         <2>11, <2>12, <2>13, <2>14 DEF AllowRequest
  <1>5. ASSUME NEW t \in Threads, AbortProbe(t) PROVE ReservationIsStamped'
    <2>1. CASE AbortLoad(t)
      BY <2>1 DEF AbortLoad, ReservationIsStamped, TypeOK, Goto, Finish,
         NotSent, breaker, locals
    <2>2. CASE AbortSent(t)
      BY <2>2 DEF AbortSent, ReservationIsStamped, TypeOK, Goto, Finish,
         NotSent, breaker, locals
    <2>3. CASE AbortClear(t)
      BY <2>3 DEF AbortClear, ReservationIsStamped, TypeOK, Goto, Finish,
         NotSent, breaker, locals
    <2> QED
      BY <1>5, <2>1, <2>2, <2>3 DEF AbortProbe
  <1>6. ASSUME NEW t \in Threads, RecordSuccess(t) PROVE ReservationIsStamped'
    <2>1. CASE SuccLoad(t)
      BY <2>1 DEF SuccLoad, ReservationIsStamped, TypeOK, Goto, Finish,
         NotSent, breaker, locals
    <2>2. CASE SuccLock(t)
      BY <2>2 DEF SuccLock, ReservationIsStamped, TypeOK, Goto, Finish,
         NotSent, breaker, locals, Acquire
    <2>3. CASE SuccPop(t)
      BY <2>3 DEF SuccPop, PopOldest, ReservationIsStamped, TypeOK, Goto
    <2>4. CASE SuccPush(t)
      BY <2>4 DEF SuccPush, ReservationIsStamped, TypeOK, Goto, Finish,
         NotSent, breaker, locals
    <2>5. CASE SuccClear(t)
      BY <2>5 DEF SuccClear, ReservationIsStamped, TypeOK, Goto, Finish,
         NotSent, breaker, locals
    <2>6. CASE SuccCas(t)
      BY <2>6 DEF SuccCas, ReservationIsStamped, TypeOK, Goto, Finish,
         NotSent, breaker, locals
    <2> QED
      BY <1>6, <2>1, <2>2, <2>3, <2>4, <2>5, <2>6 DEF RecordSuccess
  <1>7. ASSUME NEW t \in Threads, TransitionToClosed(t) PROVE ReservationIsStamped'
    <2>1. CASE CloseLoad(t)
      BY <2>1 DEF CloseLoad, ReservationIsStamped, TypeOK, Goto, Finish,
         NotSent, breaker, locals
    <2>2. CASE CloseClear(t)
      BY <2>2 DEF CloseClear, ReservationIsStamped, TypeOK, Goto, Finish,
         NotSent, breaker, locals
    <2>3. CASE CloseCas(t)
      BY <2>3 DEF CloseCas, ReservationIsStamped, TypeOK, Goto, Finish,
         NotSent, breaker, locals
    <2>4. CASE CloseLock(t)
      BY <2>4 DEF CloseLock, ReservationIsStamped, TypeOK, Goto, Finish,
         NotSent, breaker, locals, Acquire
    <2>5. CASE CloseWindow(t)
      BY <2>5 DEF CloseWindow, ReservationIsStamped, TypeOK, Goto, Finish,
         NotSent, breaker, locals
    <2>6. CASE CloseCount(t)
      BY <2>6 DEF CloseCount, ReservationIsStamped, TypeOK, Goto, Finish,
         NotSent, breaker, locals
    <2> QED
      BY <1>7, <2>1, <2>2, <2>3, <2>4, <2>5, <2>6 DEF TransitionToClosed
  <1>8. ASSUME NEW t \in Threads, RecordError(t) PROVE ReservationIsStamped'
    <2>1. CASE ErrLoad(t)
      BY <2>1 DEF ErrLoad, ReservationIsStamped, TypeOK, Goto, Finish,
         NotSent, breaker, locals
    <2>2. CASE ErrLock(t)
      BY <2>2 DEF ErrLock, ReservationIsStamped, TypeOK, Goto, Finish,
         NotSent, breaker, locals, Acquire
    <2>3. CASE ErrCount(t)
      BY <2>3 DEF ErrCount, ReservationIsStamped, TypeOK, Goto, Finish,
         NotSent, breaker, locals
    <2>4. CASE ErrPop(t)
      BY <2>4 DEF ErrPop, PopOldest, ReservationIsStamped, TypeOK, Goto
    <2>5. CASE ErrPush(t)
      BY <2>5 DEF ErrPush, ReservationIsStamped, TypeOK, Goto, Finish,
         NotSent, breaker, locals
    <2>6. CASE ErrClear(t)
      BY <2>6 DEF ErrClear, ReservationIsStamped, TypeOK, Goto, Finish,
         NotSent, breaker, locals
    <2> QED
      BY <1>8, <2>1, <2>2, <2>3, <2>4, <2>5, <2>6 DEF RecordError
  <1>9. ASSUME NEW t \in Threads, TransitionToOpen(t) PROVE ReservationIsStamped'
    <2>1. CASE OpenStamp(t)
      BY <2>1 DEF OpenStamp, ReservationIsStamped, TypeOK, Goto, Finish,
         NotSent, breaker, locals
    <2>2. CASE OpenClear(t)
      BY <2>2 DEF OpenClear, ReservationIsStamped, TypeOK, Goto, Finish,
         NotSent, breaker, locals
    <2>3. CASE OpenLoad(t)
      BY <2>3 DEF OpenLoad, ReservationIsStamped, TypeOK, Goto, Finish,
         NotSent, breaker, locals
    <2>4. CASE OpenCas(t)
      BY <2>4 DEF OpenCas, ReservationIsStamped, TypeOK, Goto, Finish,
         NotSent, breaker, locals
    <2>5. CASE OpenForce(t)
      BY <2>5 DEF OpenForce, ReservationIsStamped, TypeOK, Goto, Finish,
         NotSent, breaker, locals
    <2> QED
      BY <1>9, <2>1, <2>2, <2>3, <2>4, <2>5 DEF TransitionToOpen
  <1>10. CASE UNCHANGED vars
    BY <1>10 DEF vars, breaker, locals, ReservationIsStamped, TypeOK, Goto,
       Finish, NotSent, breaker, locals
  <1> QED
    BY <1>1, <1>2, <1>3, <1>4, <1>5, <1>6, <1>7, <1>8, <1>9, <1>10
       DEF Next, Call

(***************************************************************************)
(* The invariant holds initially ...                                       *)
(***************************************************************************)
LEMMA InitInv == Init => Inv
  <1> SUFFICES ASSUME Init PROVE Inv
    OBVIOUS
  <1> USE ConfigAssumption, ThreadsAssumption DEF Init
  <1>1. TypeOK
    <2>1. Byte(CLOSED, 0) \in StateBytes /\ "idle" \in Steps /\ "none" \in Roles
      BY DEF StateBytes, Byte, Steps, Roles
    <2>2. RecoveryMs \in 0 .. RecoveryMs /\ 0 \in 0 .. MaxCasAttempts
      OBVIOUS
    <2>3. /\ pc \in [Threads -> Steps] /\ seen \in [Threads -> StateBytes]
          /\ attempts \in [Threads -> 0 .. MaxCasAttempts] /\ role \in [Threads -> Roles]
      BY <2>1, <2>2
    <2>4. in_flight \in BOOLEAN
      BY Zenon
    <2>5. window \in Seq(BOOLEAN)
      OBVIOUS
    <2>6. error_count \in Nat /\ opened_age \in 0 .. RecoveryMs
      BY <2>2
    <2> QED
      BY <2>1, <2>3, <2>4, <2>5, <2>6 DEF TypeOK
  <1>2. LockInv /\ CasInv
    BY DEF LockInv, CasInv, CriticalSteps
  <1>3. WindowInv
    BY ErrorsEmpty, ConfigType DEF WindowInv
  <1>4. ProbesBelowMax /\ ReservationIsStamped
    BY DEF ProbesBelowMax, ReservationIsStamped, CLOSED, HALF_OPEN, Byte
  <1> QED
    BY <1>1, <1>2, <1>3, <1>4 DEF Inv

(***************************************************************************)
(* ... and in every state of every behaviour.                              *)
(***************************************************************************)
THEOREM Invariance == Spec => []Inv
  <1>1. Inv /\ [Next]_vars => Inv'
    BY TypeStep, LockWindowStep, CasStep, ProbesStep, ReservationStep DEF Inv
  <1> QED
    BY InitInv, <1>1, PTL DEF Spec

----------------------------------------------------------------------------
(***************************************************************************)
(* Type correctness, for any number of worker threads: in particular the   *)
(* u64 error_count is never decremented below zero.                        *)
(***************************************************************************)
THEOREM TypeCorrect == Spec => []TypeOK
  <1>1. Inv => TypeOK
    BY DEF Inv
  <1> QED
    BY Invariance, <1>1, PTL

(***************************************************************************)
(* The error rate record_error decides on is that of the window: outside the *)
(* mutex the atomic count and the deque agree.                             *)
(***************************************************************************)
THEOREM ErrorCountIsExact == Spec => []ErrorCountExact
  <1>1. Inv => ErrorCountExact
    BY DEF Inv, WindowInv, ErrorCountExact
  <1> QED
    BY Invariance, <1>1, PTL

(***************************************************************************)
(* The six-bit probe counter never reaches half_open_max, however successes *)
(* race with each other and with the clock.                                *)
(***************************************************************************)
THEOREM ProbeCounterFits == Spec => []ProbesBelowMax
  <1>1. Inv => ProbesBelowMax
    BY DEF Inv
  <1> QED
    BY Invariance, <1>1, PTL

(***************************************************************************)
(* A reserved probe always carries, or is about to carry, the stamp by which *)
(* allow_request recognises that it was lost.                              *)
(***************************************************************************)
THEOREM LostProbesAreDetectable == Spec => []ReservationIsStamped
  <1>1. Inv => ReservationIsStamped
    BY DEF Inv
  <1> QED
    BY Invariance, <1>1, PTL
=============================================================================
