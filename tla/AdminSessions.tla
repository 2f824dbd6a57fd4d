--------------------------- MODULE AdminSessions ---------------------------
(***************************************************************************)
(* Logging in to the admin API (src/admin/auth.rs): the count of failed    *)
(* attempts per user, the sessions, their eviction and cleanup, and the    *)
(* check of a request.                                                     *)
(*                                                                         *)
(* A login is several steps: the count is checked, expired counts are      *)
(* dropped, the password is verified, and then the session is added and    *)
(* the count cleared, or the count is raised.  Logins run concurrently.    *)
(***************************************************************************)
EXTENDS Integers, Sequences, FiniteSets, Functions

CONSTANTS
    Users,        \* the names in admin_users
    Names,        \* the names tried at login, Users among them
    AdminToken,   \* whether admin_token is set
    Logins,       \* logins that may be in progress at one time
    MaxAttempts,  \* LOGIN_MAX_ATTEMPTS (5 in the code)
    Window,       \* LOGIN_WINDOW_SECS (60 in the code)
    Ttl,          \* SESSION_TTL_SECS (24 h in the code)
    Capacity,     \* SESSION_MAX_CAPACITY (10000 in the code)
    Interval,     \* CLEANUP_INTERVAL_SECS (60 in the code)
    MaxTime,      \* bound on the clock
    MaxTokens,    \* bound on the sessions opened
    MaxFailures   \* bound on the failures of a name between two successes

ASSUME SessionsAssumption ==
    /\ AdminToken \in BOOLEAN /\ Users \subseteq Names /\ IsFiniteSet(Logins)
    /\ MaxTime \in Nat /\ MaxTokens \in Nat
    /\ \A n \in {MaxAttempts, Window, Ttl, Capacity, Interval} : n \in Nat \ {0}

VARIABLES
    now,            \* the clock, in seconds
    sessions,       \* token -> [user, created_at]
    login_attempts, \* user -> [count, window_start]
    logins,         \* the logins in progress
    cleaned,        \* when SessionCleanupBackground last woke
    skips,          \* how often in a row it found the sessions locked
    issued,         \* tokens handed out (history variable)
    failures        \* name -> when its logins failed since its last success
                    \*   (history variable)

history == <<issued, failures>>
sessionVars == <<now, sessions, login_attempts, logins, cleaned, skips, history>>

AtRest == [pc |-> "idle", user |-> "", password |-> "", now |-> 0]

SessionsInit ==
    /\ now = 0 /\ sessions = << >> /\ login_attempts = << >>
    /\ logins = [l \in Logins |-> AtRest]
    /\ cleaned = 0 /\ skips = 0
    /\ issued = 0 /\ failures = [u \in Names |-> << >>]

----------------------------------------------------------------------------
(* HashMap::insert. *)
Inserted(map, k, v) == [x \in DOMAIN map \cup {k} |-> IF x = k THEN v ELSE map[x]]

Expired(entry, t) == t - entry.window_start >= Window

(* Mutant: a window that is over keeps its count. *)
Checked_NoReset(u) ==
    IF u \in DOMAIN login_attempts THEN login_attempts[u]
    ELSE [count |-> 0, window_start |-> now]

(* The entry of a user after the check: a window that is over starts anew. *)
Checked(u) ==
    IF u \in DOMAIN login_attempts /\ ~Expired(login_attempts[u], now) THEN login_attempts[u]
    ELSE [count |-> 0, window_start |-> now]

(* A login beyond the limit is refused at once and changes nothing: its    *)
(* window is not over, or it would have been reset.                        *)
rate_limited(u) == Checked(u).count >= MaxAttempts

LoginCheck(l, u, p) ==
    /\ logins[l].pc = "idle" /\ ~rate_limited(u)
    /\ login_attempts' = Inserted(login_attempts, u, Checked(u))
    /\ logins' = [logins EXCEPT ![l] = [pc |-> "retain", user |-> u, password |-> p, now |-> now]]
    /\ UNCHANGED <<now, sessions, cleaned, skips, history>>

(* Every user's expired entry is dropped. *)
Retain(l) ==
    /\ logins[l].pc = "retain"
    /\ login_attempts' = Restrict(login_attempts,
                            {u \in DOMAIN login_attempts : ~Expired(login_attempts[u], logins[l].now)})
    /\ logins' = [logins EXCEPT ![l].pc = "verify"]
    /\ UNCHANGED <<now, sessions, cleaned, skips, history>>

(* The user's own password, or the admin token under any name. *)
valid(l) == logins[l].user \in Users /\ logins[l].password = "own"
legacy_valid(l) == AdminToken /\ logins[l].password = "token"

(* What may be left of the sessions: of those within their lifetime, if    *)
(* they are too many, the oldest go.                                       *)
evict_expired_sessions(s) ==
    LET live == {t \in DOMAIN s : now - s[t].created_at < Ttl}
        excess == IF Cardinality(live) > Capacity THEN Cardinality(live) - Capacity ELSE 0
    IN {Restrict(s, live \ old) : old \in {o \in SUBSET live :
            /\ Cardinality(o) = excess
            /\ \A a \in o, b \in live \ o : s[a].created_at <= s[b].created_at}}

Succeed(l) ==
    /\ logins[l].pc = "verify" /\ (valid(l) \/ legacy_valid(l)) /\ issued < MaxTokens
    /\ issued' = issued + 1
    /\ \E left \in evict_expired_sessions(sessions) :
        sessions' = Inserted(left, issued',
                        [user |-> IF valid(l) THEN logins[l].user ELSE "admin", created_at |-> now])
    /\ logins' = [logins EXCEPT ![l].pc = "clear"]
    /\ UNCHANGED <<now, login_attempts, cleaned, skips, failures>>

ClearAttempts(l) ==
    /\ logins[l].pc = "clear"
    /\ login_attempts' = Restrict(login_attempts, DOMAIN login_attempts \ {logins[l].user})
    /\ failures' = [failures EXCEPT ![logins[l].user] = << >>]
    /\ logins' = [logins EXCEPT ![l] = AtRest]
    /\ UNCHANGED <<now, sessions, cleaned, skips, issued>>

Failed(u) ==
    IF u \in DOMAIN login_attempts /\ ~Expired(login_attempts[u], now)
    THEN [login_attempts[u] EXCEPT !.count = @ + 1]
    ELSE [count |-> 1, window_start |-> now]

Fail(l) ==
    /\ logins[l].pc = "verify" /\ ~valid(l) /\ ~legacy_valid(l) /\ Len(failures[logins[l].user]) < MaxFailures
    /\ login_attempts' = Inserted(login_attempts, logins[l].user, Failed(logins[l].user))
    /\ failures' = [failures EXCEPT ![logins[l].user] = Append(@, now)]
    /\ logins' = [logins EXCEPT ![l] = AtRest]
    /\ UNCHANGED <<now, sessions, cleaned, skips, issued>>

----------------------------------------------------------------------------
Logout(t) ==
    /\ t \in DOMAIN sessions
    /\ sessions' = Restrict(sessions, DOMAIN sessions \ {t})
    /\ UNCHANGED <<now, login_attempts, logins, cleaned, skips, issued, failures>>

(* admin_auth_middleware: whether a request is let through that carries a  *)
(* token in a header or, if it only reads, in its query.  0 stands for     *)
(* admin_token, the other numbers for session tokens.                      *)
admin_auth_middleware(token, place, method) ==
    /\ place = "header" \/ (place = "query" /\ method = "GET")
    /\ (AdminToken /\ token = 0) \/ token \in DOMAIN sessions

----------------------------------------------------------------------------
(* SessionCleanupBackground::run: every Interval, unless the sessions are  *)
(* locked at that moment.                                                  *)
Due == now - cleaned >= Interval

Cleanup ==
    /\ Due
    /\ sessions' = Restrict(sessions, {t \in DOMAIN sessions : now - sessions[t].created_at < Ttl})
    /\ cleaned' = now /\ skips' = 0
    /\ UNCHANGED <<now, login_attempts, logins, history>>

(* A request or a login holds the lock: try_write fails. *)
CleanupSkipped ==
    /\ Due
    /\ cleaned' = now /\ skips' = skips + 1
    /\ UNCHANGED <<now, sessions, login_attempts, logins, history>>

(* Time passes, but not past the next cleanup. *)
Elapse ==
    /\ now < MaxTime /\ ~Due
    /\ now' = now + 1
    /\ UNCHANGED <<sessions, login_attempts, logins, cleaned, skips, history>>

SessionsNext ==
    \/ \E l \in Logins :
        \/ \E u \in Names, p \in {"own", "token", "wrong"} : LoginCheck(l, u, p)
        \/ Retain(l) \/ Succeed(l) \/ ClearAttempts(l) \/ Fail(l)
    \/ \E t \in 1 .. MaxTokens : Logout(t)
    \/ Cleanup \/ CleanupSkipped \/ Elapse

----------------------------------------------------------------------------
SessionsTypeOK ==
    /\ now \in 0 .. MaxTime /\ cleaned \in 0 .. MaxTime /\ skips \in Nat
    /\ DOMAIN sessions \subseteq 1 .. MaxTokens
    /\ \A t \in DOMAIN sessions : sessions[t].user \in Users \cup {"admin"} /\ sessions[t].created_at \in 0 .. MaxTime
    /\ DOMAIN login_attempts \subseteq Names
    /\ \A u \in DOMAIN login_attempts : login_attempts[u].count \in Nat /\ login_attempts[u].window_start \in 0 .. MaxTime
    /\ \A l \in Logins : logins[l].pc \in {"idle", "retain", "verify", "clear"}

(* The sessions never exceed their capacity by more than the one that is   *)
(* added after the eviction (evict_expired_sessions in login_handler).     *)
SessionsBounded == Cardinality(DOMAIN sessions) <= Capacity + 1

FailuresSince(u, t) == Cardinality({i \in DOMAIN failures[u] : failures[u][i] >= t})

(* However logins overlap, a user's failures in one window exceed the      *)
(* limit by less than the number of logins in progress at one time: the    *)
(* count is checked before the password and raised after it                *)
(* (login_handler).                                                        *)
AttemptsBounded ==
    \A u \in DOMAIN login_attempts :
        FailuresSince(u, login_attempts[u].window_start) < MaxAttempts + Cardinality(Logins)

(* Nobody is refused who has not failed often enough within the window:    *)
(* not even counts of earlier windows lock a user out (the windows of      *)
(* login_handler).                                                         *)
RefusedForCause ==
    \A u \in Names : rate_limited(u) => FailuresSince(u, now - Window + 1) >= MaxAttempts

(* A session is not accepted for longer than its lifetime and the time to  *)
(* the next cleanup, plus one interval for every cleanup in a row that     *)
(* found the sessions locked; its age is looked at nowhere else            *)
(* (SessionCleanupBackground::run).                                        *)
SessionsEnd ==
    \A t \in 1 .. MaxTokens, place \in {"header", "query"}, method \in {"GET", "PUT"} :
        admin_auth_middleware(t, place, method) =>
            now - sessions[t].created_at < Ttl + (1 + skips) * Interval
=============================================================================
