--------------------------- MODULE AdminApiProofs ---------------------------
(***************************************************************************)
(* The admin API for any number of logins, threads and clients, and any    *)
(* capacities: the sessions and the count of failed logins, the log ring   *)
(* through all its wraps, and the feeder of the metrics stream.  A         *)
(* behaviour is one of a single part, so each part has an invariant and an *)
(* induction of its own, and the theorems put them together.               *)
(***************************************************************************)
EXTENDS AdminApi, FiniteSetTheorems, TLAPS

----------------------------------------------------------------------------
(***************************************************************************)
(* Sessions: the inductive invariant.                                      *)
(***************************************************************************)

LoginPcs == {"idle", "retain", "verify", "clear"}
LoginRecords ==
    [pc : LoginPcs, user : Names \cup {""}, password : {"", "own", "token", "wrong"}, now : Nat]
AttemptRecords == [count : Nat, window_start : Nat]

LoginTypes ==
    /\ now \in Nat
    /\ DOMAIN login_attempts \subseteq Names
    /\ \A u \in DOMAIN login_attempts :
            login_attempts[u] \in AttemptRecords /\ login_attempts[u].window_start <= now
    /\ DOMAIN logins = Logins
    /\ \A l \in Logins :
            /\ logins[l] \in LoginRecords /\ logins[l].now <= now
            /\ logins[l].pc # "idle" => logins[l].user \in Names
    /\ failures \in [Names -> Seq(Nat)]
    /\ \A u \in Names : \A i \in DOMAIN failures[u] : failures[u][i] <= now

(* The count of an entry is that of the failures since its window began. *)
CountsAreTrue ==
    \A u \in DOMAIN login_attempts :
        login_attempts[u].count = FailuresSince(u, login_attempts[u].window_start)

(* A failure of this very second is in an entry that is not over. *)
FailuresNoted ==
    \A u \in Names : \A i \in DOMAIN failures[u] : failures[u][i] = now =>
        u \in DOMAIN login_attempts /\ ~Expired(login_attempts[u], now)

(* The logins that have passed the check and may still fail. *)
Pending(u) == {l \in Logins : logins[l].pc \in {"retain", "verify"} /\ logins[l].user = u}
Margin ==
    \A u \in DOMAIN login_attempts :
        login_attempts[u].count + Cardinality(Pending(u)) < MaxAttempts + Cardinality(Logins)

LoginInv == LoginTypes /\ CountsAreTrue /\ FailuresNoted /\ Margin

SessTypes ==
    /\ now \in 0 .. MaxTime /\ cleaned \in 0 .. now /\ skips \in Nat /\ issued \in 0 .. MaxTokens
    /\ DOMAIN sessions \subseteq 1 .. issued
    /\ \A t \in DOMAIN sessions :
            sessions[t].user \in Users \cup {"admin"} /\ sessions[t].created_at \in 0 .. now

(* How old a session was when the cleanup last woke. *)
Ages ==
    /\ now - cleaned <= Interval
    /\ \A t \in DOMAIN sessions : cleaned - sessions[t].created_at < Ttl + skips * Interval

SessInv == SessTypes /\ Ages /\ SessionsBounded

----------------------------------------------------------------------------
(***************************************************************************)
(* The log ring: the inductive invariant.                                  *)
(***************************************************************************)

RingTypes ==
    /\ pushed \in Seq(LogEntries) /\ sent \in Seq(LogEntries) /\ entries \in Seq(LogEntries)
    /\ pushing \in [Threads -> LogEntries \cup {None}]
    /\ follower \in [pc : {"away", "subscribed", "following"}, next : Nat, from : Nat,
                     seen : SUBSET LogEntries, skipped : SUBSET LogEntries]
    /\ follower.next <= Len(sent)

(* Where the ring keeps the entry before the newest i, from position a. *)
Back(a, i) == IF i <= a THEN a - i ELSE a + RING_BUFFER_CAPACITY - i

(* The ring holds the newest entries, in a circle once it is full. *)
RingIsRecent ==
    /\ Len(entries) = len
    /\ \/ /\ len < RING_BUFFER_CAPACITY /\ entries = pushed
          /\ write_pos = IF len = 0 THEN 0 ELSE len - 1
       \/ /\ len = RING_BUFFER_CAPACITY /\ Len(pushed) >= len
          /\ write_pos \in 0 .. RING_BUFFER_CAPACITY - 1
          /\ \A i \in 0 .. RING_BUFFER_CAPACITY - 1 :
                entries[Back(write_pos, i) + 1] = pushed[Len(pushed) - i]

RingInv == RingTypes /\ RingIsRecent /\ NothingMissed

----------------------------------------------------------------------------
(***************************************************************************)
(* The metrics stream: the inductive invariant.                            *)
(***************************************************************************)

StreamTypes ==
    /\ metrics_stream_tx \in 0 .. MaxStreams /\ streams \in 0 .. MaxStreams
    /\ DOMAIN clients = Clients /\ DOMAIN tasks = 1 .. MaxStreams
    /\ \A c \in Clients : clients[c] \in [pc : {"gone", "create", "connected"}, rx : 0 .. MaxStreams,
                                          fed : BOOLEAN]
    /\ \A k \in 1 .. MaxStreams : tasks[k] \in {"none", "tick", "clear", "send"}

FeederKnown ==
    /\ metrics_stream_tx = 0 => \A k \in 1 .. MaxStreams : tasks[k] = "none"
    /\ metrics_stream_tx # 0 =>
            \E k \in 1 .. MaxStreams : \A j \in 1 .. MaxStreams : tasks[j] # "none" <=> j = k
    /\ \A c \in Clients : clients[c].rx \in {0, metrics_stream_tx}

StreamInv == StreamTypes /\ FeederKnown

IInv == LoginInv /\ SessInv /\ RingInv /\ StreamInv

----------------------------------------------------------------------------
(***************************************************************************)
(* The metrics stream: the induction.                                      *)
(***************************************************************************)

(* In the first state nobody is connected and no task runs. *)
LEMMA StreamStart == StreamInit => StreamInv
  BY StreamAssumption DEF StreamInit, StreamInv, StreamTypes, FeederKnown, Gone

(* A channel without receivers is one that no client listens to. *)
LEMMA NobodyThere ==
  ASSUME receiver_count(metrics_stream_tx) = 0
  PROVE  \A c \in Clients : clients[c].rx # metrics_stream_tx
<1> DEFINE There == {c \in Clients : clients[c].rx = metrics_stream_tx}
<1>1. IsFiniteSet(There)
  BY FS_Subset, StreamAssumption, There \subseteq Clients
<1>2. There = {}
  BY <1>1, FS_EmptySet DEF receiver_count
<1> QED
  BY <1>2

(* A client is put in another state, its receiver one of the current       *)
(* channel if it has any.                                                  *)
LEMMA ClientMoves ==
  ASSUME StreamInv, NEW c \in Clients, NEW n,
         n \in [pc : {"gone", "create", "connected"}, rx : {0, metrics_stream_tx}, fed : BOOLEAN],
         clients' = [clients EXCEPT ![c] = n],
         UNCHANGED <<metrics_stream_tx, tasks, streams>>
  PROVE  StreamInv'
<1> USE DEF StreamInv, StreamTypes, FeederKnown
<1>1. n.rx \in {0, metrics_stream_tx} /\ n \in [pc : {"gone", "create", "connected"}, rx : 0 .. MaxStreams, fed : BOOLEAN]
  BY StreamAssumption
<1>2. \A d \in Clients : clients'[d] = IF d = c THEN n ELSE clients[d]
  OBVIOUS
<1>3. StreamTypes'
  BY <1>1, <1>2
<1>4. FeederKnown'
  BY <1>1, <1>2
<1> QED
  BY <1>3, <1>4

(* A task that runs goes on running. *)
LEMMA TaskMoves ==
  ASSUME StreamInv, NEW k \in 1 .. MaxStreams, NEW s \in {"tick", "clear", "send"},
         tasks[k] # "none", tasks' = [tasks EXCEPT ![k] = s],
         UNCHANGED <<metrics_stream_tx, clients, streams>>
  PROVE  StreamInv'
<1> USE DEF StreamInv, StreamTypes, FeederKnown
<1>1. \A j \in 1 .. MaxStreams : tasks'[j] # "none" <=> tasks[j] # "none"
  OBVIOUS
<1>2. StreamTypes'
  OBVIOUS
<1>3. metrics_stream_tx # 0 =>
            \E i \in 1 .. MaxStreams : \A j \in 1 .. MaxStreams : tasks'[j] # "none" <=> j = i
  BY <1>1
<1>4. FeederKnown'
  BY <1>1, <1>3
<1> QED
  BY <1>2, <1>4

(* Every step of the stream keeps its invariant. *)
LEMMA StreamStep == StreamInv /\ StreamNext => StreamInv'
<1> SUFFICES ASSUME StreamInv, StreamNext PROVE StreamInv'
  OBVIOUS
<1>1. ASSUME NEW c \in Clients, Connect(c) PROVE StreamInv'
  <2> DEFINE n == IF metrics_stream_tx # 0 THEN Subscribed(metrics_stream_tx) ELSE [Gone EXCEPT !.pc = "create"]
  <2>1. n \in [pc : {"gone", "create", "connected"}, rx : {0, metrics_stream_tx}, fed : BOOLEAN]
    BY DEF Subscribed, Gone
  <2>2. clients' = [clients EXCEPT ![c] = n] /\ UNCHANGED <<metrics_stream_tx, tasks, streams>>
    BY <1>1, Zenon DEF Connect
  <2> HIDE DEF n
  <2> QED
    BY <2>1, <2>2, ClientMoves
<1>2. ASSUME NEW c \in Clients, Create(c) PROVE StreamInv'
  <2>1. CASE metrics_stream_tx # 0
    <3>1. Subscribed(metrics_stream_tx) \in [pc : {"gone", "create", "connected"}, rx : {0, metrics_stream_tx}, fed : BOOLEAN]
      BY DEF Subscribed
    <3>2. clients' = [clients EXCEPT ![c] = Subscribed(metrics_stream_tx)] /\ UNCHANGED <<metrics_stream_tx, tasks, streams>>
      BY <1>2, <2>1, Zenon DEF Create
    <3> QED
      BY <3>1, <3>2, ClientMoves
  <2>2. CASE metrics_stream_tx = 0
    <3> DEFINE s == streams + 1
               n == Subscribed(s)
    <3>1. NewStream(c)
      BY <1>2, <2>2 DEF Create
    <3>2. s \in 1 .. MaxStreams
      BY <3>1, StreamAssumption DEF NewStream, StreamInv, StreamTypes
    <3>3. n.rx = s /\ n \in [pc : {"gone", "create", "connected"}, rx : 0 .. MaxStreams, fed : BOOLEAN]
      BY <3>2 DEF Subscribed
    <3>4. streams' = s /\ metrics_stream_tx' = s /\ tasks' = [tasks EXCEPT ![s] = "tick"]
      BY <3>1 DEF NewStream
    <3>5. clients' = [clients EXCEPT ![c] = n]
      BY <3>1, <3>4, Zenon DEF NewStream
    <3> HIDE DEF n, s
    <3>6. \A d \in Clients : clients'[d] = IF d = c THEN n ELSE clients[d]
      BY <3>5 DEF StreamInv, StreamTypes
    <3>7. \A j \in 1 .. MaxStreams : tasks'[j] # "none" <=> j = s
      BY <2>2, <3>2, <3>4 DEF StreamInv, StreamTypes, FeederKnown
    <3>8. StreamTypes'
      BY <3>2, <3>3, <3>4, <3>5, <3>6 DEF StreamInv, StreamTypes
    <3>9. \A d \in Clients : clients'[d].rx \in {0, s}
      BY <2>2, <3>3, <3>6 DEF StreamInv, FeederKnown
    <3>10. FeederKnown'
      BY <3>2, <3>4, <3>7, <3>9 DEF FeederKnown
    <3> QED
      BY <3>8, <3>10 DEF StreamInv
  <2> QED
    BY <2>1, <2>2
<1>3. ASSUME NEW c \in Clients, Disconnect(c) PROVE StreamInv'
  <2>1. Gone \in [pc : {"gone", "create", "connected"}, rx : {0, metrics_stream_tx}, fed : BOOLEAN]
    BY DEF Gone
  <2> QED
    BY <1>3, <2>1, ClientMoves DEF Disconnect
<1>4. ASSUME NEW k \in 1 .. MaxStreams, Tick(k) PROVE StreamInv'
  BY <1>4, TaskMoves DEF Tick
<1>5. ASSUME NEW k \in 1 .. MaxStreams, Clear(k) PROVE StreamInv'
  <2>1. CASE metrics_stream_tx # 0 /\ receiver_count(metrics_stream_tx) = 0
    <3>1. \A c \in Clients : clients[c].rx = 0
      BY <2>1, NobodyThere DEF StreamInv, FeederKnown
    <3>2. metrics_stream_tx' = 0 /\ tasks' = [tasks EXCEPT ![k] = "none"] /\ UNCHANGED <<clients, streams>> /\ tasks[k] = "clear"
      BY <1>5, <2>1 DEF Clear
    <3>3. \A j \in 1 .. MaxStreams : tasks'[j] = "none"
      BY <2>1, <3>2 DEF StreamInv, StreamTypes, FeederKnown
    <3>4. StreamTypes'
      BY <3>2, StreamAssumption DEF StreamInv, StreamTypes
    <3> QED
      BY <3>1, <3>2, <3>3, <3>4 DEF StreamInv, FeederKnown
  <2>2. CASE ~(metrics_stream_tx # 0 /\ receiver_count(metrics_stream_tx) = 0)
    BY <1>5, <2>2, TaskMoves DEF Clear
  <2> QED
    BY <2>1, <2>2
<1>6. ASSUME NEW k \in 1 .. MaxStreams, Send(k) PROVE StreamInv'
  <2>1. tasks' = [tasks EXCEPT ![k] = "tick"] /\ tasks[k] = "send" /\ UNCHANGED <<metrics_stream_tx, streams>>
    BY <1>6 DEF Send
  <2>2. \A c \in Clients : clients'[c].rx = clients[c].rx
                         /\ clients'[c] \in [pc : {"gone", "create", "connected"}, rx : 0 .. MaxStreams, fed : BOOLEAN]
    <3> SUFFICES ASSUME NEW c \in Clients
                 PROVE  clients'[c].rx = clients[c].rx
                         /\ clients'[c] \in [pc : {"gone", "create", "connected"}, rx : 0 .. MaxStreams, fed : BOOLEAN]
      OBVIOUS
    <3>1. clients'[c] = [clients[c] EXCEPT !.fed = TRUE] \/ clients'[c] = clients[c]
      BY <1>6 DEF Send
    <3> QED
      BY <3>1 DEF StreamInv, StreamTypes
  <2>3. DOMAIN clients' = Clients
    BY <1>6 DEF Send
  <2>4. StreamTypes'
    BY <2>1, <2>2, <2>3 DEF StreamInv, StreamTypes
  <2>5. \A j \in 1 .. MaxStreams : tasks'[j] # "none" <=> tasks[j] # "none"
    BY <2>1 DEF StreamInv, StreamTypes
  <2>6. metrics_stream_tx # 0 =>
            \E i \in 1 .. MaxStreams : \A j \in 1 .. MaxStreams : tasks'[j] # "none" <=> j = i
    BY <2>5 DEF StreamInv, FeederKnown
  <2>7. FeederKnown'
    BY <2>1, <2>2, <2>5, <2>6 DEF StreamInv, FeederKnown
  <2> QED
    BY <2>4, <2>7 DEF StreamInv
<1> QED
  BY <1>1, <1>2, <1>3, <1>4, <1>5, <1>6 DEF StreamNext, TaskNext

(* The invariant says what the stream promises of its channel. *)
LEMMA StreamImplied == StreamInv => StreamTypeOK /\ OneFeeder
<1> SUFFICES ASSUME StreamInv PROVE StreamTypeOK /\ OneFeeder
  OBVIOUS
<1> DEFINE Running == {k \in 1 .. MaxStreams : tasks[k] # "none"}
<1>1. StreamTypeOK
  BY DEF StreamInv, StreamTypes, StreamTypeOK
<1>2. CASE metrics_stream_tx = 0
  <2>1. Running = {}
    BY <1>2 DEF StreamInv, FeederKnown
  <2> QED
    BY <1>1, <1>2, <2>1, FS_EmptySet DEF StreamInv, FeederKnown, OneFeeder
<1>3. CASE metrics_stream_tx # 0
  <2>1. PICK k \in 1 .. MaxStreams : \A j \in 1 .. MaxStreams : tasks[j] # "none" <=> j = k
    BY <1>3 DEF StreamInv, FeederKnown
  <2>2. Running = {k}
    BY <2>1
  <2> QED
    BY <1>1, <1>3, <2>2, FS_Singleton DEF StreamInv, FeederKnown, OneFeeder
<1> QED
  BY <1>2, <1>3

----------------------------------------------------------------------------
(***************************************************************************)
(* The log ring: the induction.                                            *)
(***************************************************************************)

(* Going once around a circle. *)
LEMMA Circle == ASSUME NEW c \in Nat \ {0}, NEW a \in 0 .. c - 1 PROVE a % c = a /\ (a + c) % c = a
<1>1. a % c = a
  BY SMT
<1>2. (a + c) % c = a
  BY SMT
<1> QED
  BY <1>1, <1>2

(* The position that recent computes by a remainder. *)
LEMMA BackIsNewest ==
  ASSUME NEW a \in 0 .. RING_BUFFER_CAPACITY - 1, NEW i \in 0 .. RING_BUFFER_CAPACITY - 1
  PROVE  /\ (a + RING_BUFFER_CAPACITY - i) % RING_BUFFER_CAPACITY = Back(a, i)
         /\ Back(a, i) \in 0 .. RING_BUFFER_CAPACITY - 1
<1>1. CASE i <= a
  <2>1. a - i \in 0 .. RING_BUFFER_CAPACITY - 1 /\ a + RING_BUFFER_CAPACITY - i = (a - i) + RING_BUFFER_CAPACITY
    BY <1>1, RingAssumption
  <2> QED
    BY <1>1, <2>1, Circle, RingAssumption DEF Back
<1>2. CASE ~(i <= a)
  <2>1. a + RING_BUFFER_CAPACITY - i \in 0 .. RING_BUFFER_CAPACITY - 1
    BY <1>2, RingAssumption
  <2> QED
    BY <1>2, <2>1, Circle, RingAssumption DEF Back
<1> QED
  BY <1>1, <1>2

(* Step i of recent looks at the entry stored before the newest i. *)
LEMMA NewestIsRight ==
  ASSUME RingInv
  PROVE  /\ len \in 0 .. RING_BUFFER_CAPACITY /\ len <= Len(pushed)
         /\ len < RING_BUFFER_CAPACITY => len = Len(pushed)
         /\ \A i \in 0 .. len - 1 : Newest(i) = pushed[Len(pushed) - i]
<1> USE RingAssumption
<1>1. CASE len < RING_BUFFER_CAPACITY
  BY <1>1 DEF RingInv, RingTypes, RingIsRecent, Newest
<1>2. CASE len = RING_BUFFER_CAPACITY
  <2>1. \A i \in 0 .. len - 1 : Newest(i) = entries[Back(write_pos, i) + 1]
    <3> SUFFICES ASSUME NEW i \in 0 .. len - 1 PROVE Newest(i) = entries[Back(write_pos, i) + 1]
      OBVIOUS
    <3>1. write_pos \in 0 .. RING_BUFFER_CAPACITY - 1 /\ i \in 0 .. RING_BUFFER_CAPACITY - 1
      BY <1>2 DEF RingInv, RingIsRecent
    <3>2. (write_pos + RING_BUFFER_CAPACITY - i) % RING_BUFFER_CAPACITY = Back(write_pos, i)
      BY <3>1, BackIsNewest
    <3>3. Newest(i) = entries[((write_pos + RING_BUFFER_CAPACITY - i) % RING_BUFFER_CAPACITY) + 1]
      BY <1>2 DEF Newest
    <3> QED
      BY <3>2, <3>3, Zenon
  <2> QED
    BY <1>2, <2>1 DEF RingInv, RingTypes, RingIsRecent
<1> QED
  BY <1>1, <1>2 DEF RingInv, RingIsRecent

(* Nothing is logged in the first state. *)
LEMMA RingStart == LogsInit => RingInv
<1> SUFFICES ASSUME LogsInit PROVE RingInv
  OBVIOUS
<1>1. RingTypes
  BY DEF LogsInit, RingTypes, Away
<1>2. RingIsRecent
  BY RingAssumption DEF LogsInit, RingIsRecent
<1>3. NothingMissed
  BY DEF LogsInit, NothingMissed, Away
<1> QED
  BY <1>1, <1>2, <1>3 DEF RingInv

(* An entry is stored. *)
LEMMA PushKeeps ==
  ASSUME RingInv, NEW t \in Threads, NEW level \in Levels, NEW text \in Texts, Push(t, level, text)
  PROVE  RingInv'
<1> DEFINE e == [id |-> Len(pushed) + 1, level |-> level, text |-> text]
           n == Len(pushed)
           C == RING_BUFFER_CAPACITY
<1>1. e \in LogEntries /\ n \in Nat
  BY DEF RingInv, RingTypes, LogEntries
<1>2. /\ pushing[t] = None /\ Store(e) /\ pushed' = Append(pushed, e)
      /\ pushing' = [pushing EXCEPT ![t] = e] /\ UNCHANGED <<sent, follower>>
  BY Zenon DEF Push
<1> HIDE DEF e
<1>3. /\ Len(pushed') = n + 1 /\ pushed' \in Seq(LogEntries) /\ pushed'[n + 1] = e
      /\ \A i \in 1 .. n : pushed'[i] = pushed[i]
  BY <1>1, <1>2 DEF RingInv, RingTypes
<1>4. \A u \in Threads : pushing'[u] = IF u = t THEN e ELSE pushing[u]
  BY <1>2 DEF RingInv, RingTypes
<1>5. NothingMissed'
  <2> SUFFICES ASSUME follower.pc = "following", NEW i \in follower.from + 1 .. n + 1
               PROVE  \/ pushed'[i] \in follower.seen \cup follower.skipped
                      \/ \E u \in Threads : pushing'[u] = pushed'[i]
                      \/ \E k \in follower.next + 1 .. Len(sent) : sent[k] = pushed'[i]
    BY <1>2, <1>3 DEF NothingMissed
  <2>1. CASE i = n + 1
    BY <1>3, <1>4, <2>1
  <2>2. CASE i # n + 1
    <3>1. i \in follower.from + 1 .. n /\ i \in 1 .. n
      BY <2>2, <1>1 DEF RingInv, RingTypes
    <3>2. pushed'[i] = pushed[i] /\ pushed[i] # None
      BY <1>3, <3>1, RingAssumption DEF RingInv, RingTypes
    <3>3. \/ pushed[i] \in follower.seen \cup follower.skipped
          \/ \E u \in Threads : pushing[u] = pushed[i]
          \/ \E k \in follower.next + 1 .. Len(sent) : sent[k] = pushed[i]
      BY <3>1 DEF RingInv, NothingMissed
    <3> QED
      BY <1>2, <1>4, <3>2, <3>3
  <2> QED
    BY <2>1, <2>2
<1>6. CASE len < C
  <2>1. entries' = Append(entries, e) /\ write_pos' = len /\ len' = len + 1
    BY <1>2, <1>6 DEF Store
  <2>2. entries = pushed /\ len = n
    BY <1>6 DEF RingInv, RingIsRecent
  <2>3. RingTypes'
    BY <1>1, <1>2, <1>3, <2>1 DEF RingInv, RingTypes
  <2>4. Len(entries') = len'
    BY <2>1, <2>2, <1>2, <1>3
  <2>5. CASE len + 1 < C
    <3>1. len' < C /\ entries' = pushed' /\ write_pos' = IF len' = 0 THEN 0 ELSE len' - 1
      BY <1>1, <1>2, <2>1, <2>2, <2>5
    <3> QED
      BY <2>3, <2>4, <3>1, <1>5 DEF RingInv, RingIsRecent
  <2>6. CASE len + 1 = C
    <3>1. \A i \in 0 .. C - 1 : Back(write_pos', i) + 1 = Len(pushed') - i
      BY <1>1, <1>3, <2>1, <2>2, <2>6 DEF Back
    <3>2. entries' = pushed'
      BY <1>2, <2>1, <2>2
    <3>3. \A i \in 0 .. C - 1 : entries'[Back(write_pos', i) + 1] = pushed'[Len(pushed') - i]
      BY <3>1, <3>2, Zenon
    <3>4. len' = C /\ Len(pushed') >= len' /\ write_pos' \in 0 .. C - 1
      BY <1>1, <1>3, <2>1, <2>2, <2>6
    <3> QED
      BY <2>3, <2>4, <3>3, <3>4, <1>5 DEF RingInv, RingIsRecent, Back
  <2>7. len + 1 < C \/ len + 1 = C
    BY <1>6, <2>2, <1>1, RingAssumption
  <2> QED
    BY <2>3, <2>5, <2>6, <2>7, <1>5 DEF RingInv
<1>7. CASE ~(len < C)
  <2> DEFINE w == write_pos
             v == IF w + 1 = C THEN 0 ELSE w + 1
  <2>1. /\ len = C /\ n >= len /\ w \in 0 .. C - 1 /\ Len(entries) = C
        /\ \A i \in 0 .. C - 1 : entries[Back(w, i) + 1] = pushed[n - i]
    BY <1>7 DEF RingInv, RingIsRecent
  <2>2. v \in 0 .. C - 1 /\ (w + 1) % C = v
    <3>1. CASE w + 1 = C
      <4>1. 0 \in 0 .. C - 1 /\ w + 1 = 0 + C
        BY <3>1, <2>1, RingAssumption
      <4> QED
        BY <4>1, <3>1, Circle, RingAssumption
    <3>2. CASE w + 1 # C
      <4>1. w + 1 \in 0 .. C - 1
        BY <3>2, <2>1, RingAssumption
      <4> QED
        BY <4>1, <3>2, Circle, RingAssumption
    <3> QED
      BY <3>1, <3>2
  <2>3. entries' = [entries EXCEPT ![v + 1] = e] /\ write_pos' = v /\ len' = len
    BY <1>2, <1>7, <2>2 DEF Store
  <2>4. Back(v, 0) = v /\ \A i \in 1 .. C - 1 : Back(v, i) = Back(w, i - 1) /\ Back(v, i) # v /\ Back(v, i) \in 0 .. C - 1
    BY <2>1, <2>2, RingAssumption DEF Back
  <2> HIDE DEF v
  <2>5. entries' \in Seq(LogEntries) /\ Len(entries') = C
    BY <2>1, <2>2, <2>3, <1>1 DEF RingInv, RingTypes
  <2>6. \A j \in 0 .. C - 1 : entries'[j + 1] = IF j = v THEN e ELSE entries[j + 1]
    <3>1. DOMAIN entries = 1 .. C
      BY <2>1 DEF RingInv, RingTypes
    <3>2. \A j \in 0 .. C - 1 : j + 1 \in 1 .. C /\ (j + 1 = v + 1 <=> j = v)
      BY <2>2, RingAssumption
    <3> HIDE DEF C
    <3> QED
      BY <2>3, <3>1, <3>2
  <2>7. \A i \in 0 .. C - 1 : entries'[Back(v, i) + 1] = pushed'[n + 1 - i]
    <3> SUFFICES ASSUME NEW i \in 0 .. C - 1 PROVE entries'[Back(v, i) + 1] = pushed'[n + 1 - i]
      OBVIOUS
    <3>1. CASE i = 0
      BY <3>1, <2>2, <2>4, <2>6, <1>3, <1>1
    <3>2. CASE i # 0
      <4>1. i \in 1 .. C - 1 /\ i - 1 \in 0 .. C - 1 /\ n - (i - 1) \in 1 .. n /\ n - (i - 1) = n + 1 - i
        BY <3>2, <2>1, <1>1, RingAssumption
      <4>2. entries'[Back(v, i) + 1] = entries[Back(w, i - 1) + 1]
        BY <4>1, <2>4, <2>6
      <4>3. entries[Back(w, i - 1) + 1] = pushed[n - (i - 1)]
        BY <4>1, <2>1
      <4> QED
        BY <4>1, <4>2, <4>3, <1>3
    <3> QED
      BY <3>1, <3>2
  <2>8. RingTypes'
    BY <1>1, <1>2, <1>3, <2>5 DEF RingInv, RingTypes
  <2>9. \A i \in 0 .. C - 1 : entries'[Back(write_pos', i) + 1] = pushed'[Len(pushed') - i]
    BY <1>3, <2>3, <2>7
  <2>10. len' = C /\ Len(pushed') >= len' /\ write_pos' \in 0 .. C - 1 /\ Len(entries') = len'
    BY <1>1, <1>3, <2>1, <2>2, <2>3, <2>5
  <2> QED
    BY <2>8, <2>9, <2>10, <1>5 DEF RingInv, RingIsRecent, Back
<1> QED
  BY <1>6, <1>7

(* Without filters recent returns all that the ring keeps. *)
LEMMA RecentIsAll ==
  ASSUME RingInv, NEW limit \in Nat
  PROVE  \A i \in 0 .. len - 1 : (i = 0 \/ i < limit) => pushed[Len(pushed) - i] \in Range(recent(limit, None, None))
<1> SUFFICES ASSUME NEW i \in 0 .. len - 1, i = 0 \/ i < limit
             PROVE  pushed[Len(pushed) - i] \in Range(recent(limit, None, None))
  OBVIOUS
<1> DEFINE before == {j \in 0 .. i - 1 : passes(Newest(j), None, None)}
<1>1. \A x : passes(x, None, None)
  BY RingAssumption DEF passes
<1>2. before = 0 .. i - 1
  BY <1>1
<1>3. len \in 0 .. RING_BUFFER_CAPACITY /\ Newest(i) = pushed[Len(pushed) - i]
  BY NewestIsRight
<1>4. Cardinality(before) = i
  <2>1. Cardinality(0 .. i - 1) = IF 0 > i - 1 THEN 0 ELSE (i - 1) - 0 + 1
    BY <1>3, FS_Interval
  <2>2. i = IF 0 > i - 1 THEN 0 ELSE (i - 1) - 0 + 1
    BY <1>3
  <2> QED
    BY <1>2, <2>1, <2>2, Zenon
<1>5. before = {} \/ Cardinality(before) < limit
  BY <1>2, <1>3, <1>4, RingAssumption
<1>6. Takes(i, limit, None, None)
  BY <1>1, <1>5 DEF Takes
<1>7. /\ i \in DOMAIN recent(limit, None, None)
      /\ recent(limit, None, None)[i] = pushed[Len(pushed) - i]
  BY <1>3, <1>6 DEF recent
<1> QED
  BY <1>7 DEF Range

(* An entry is broadcast: it was on its way in a thread and now is in the  *)
(* channel.                                                                *)
LEMMA BroadcastKeeps ==
  ASSUME RingInv, NEW t \in Threads, Broadcast(t)
  PROVE  RingInv'
<1> DEFINE n == Len(sent)
<1>1. /\ pushing[t] # None /\ sent' = Append(sent, pushing[t]) /\ pushing' = [pushing EXCEPT ![t] = None]
      /\ UNCHANGED <<entries, write_pos, len, pushed, follower>>
  BY DEF Broadcast
<1>2. pushing[t] \in LogEntries /\ n \in Nat
  BY <1>1 DEF RingInv, RingTypes
<1>3. /\ Len(sent') = n + 1 /\ sent' \in Seq(LogEntries) /\ sent'[n + 1] = pushing[t]
      /\ \A k \in 1 .. n : sent'[k] = sent[k]
  BY <1>1, <1>2 DEF RingInv, RingTypes
<1>4. RingTypes'
  BY <1>1, <1>2, <1>3 DEF RingInv, RingTypes
<1>5. RingIsRecent'
  BY <1>1 DEF RingInv, RingIsRecent, Back
<1>6. NothingMissed'
  <2> SUFFICES ASSUME follower.pc = "following", NEW i \in follower.from + 1 .. Len(pushed)
               PROVE  \/ pushed[i] \in follower.seen \cup follower.skipped
                      \/ \E u \in Threads : pushing'[u] = pushed[i]
                      \/ \E k \in follower.next + 1 .. n + 1 : sent'[k] = pushed[i]
    <3>1. follower' = follower /\ pushed' = pushed /\ Len(sent') = n + 1
      BY <1>1, <1>3
    <3> QED
      BY <3>1, Zenon DEF NothingMissed
  <2>1. follower.next \in Nat /\ follower.next <= n
    BY DEF RingInv, RingTypes
  <2>2. \/ pushed[i] \in follower.seen \cup follower.skipped
        \/ \E u \in Threads : pushing[u] = pushed[i]
        \/ \E k \in follower.next + 1 .. n : sent[k] = pushed[i]
    BY DEF RingInv, NothingMissed
  <2>3. ASSUME NEW u \in Threads, pushing[u] = pushed[i]
        PROVE  (\E x \in Threads : pushing'[x] = pushed[i]) \/ (\E k \in follower.next + 1 .. n + 1 : sent'[k] = pushed[i])
    <3>1. CASE u = t
      BY <1>2, <1>3, <2>1, <2>3, <3>1
    <3>2. CASE u # t
      BY <1>1, <2>3, <3>2 DEF RingInv, RingTypes
    <3> QED
      BY <3>1, <3>2
  <2>4. ASSUME NEW k \in follower.next + 1 .. n, sent[k] = pushed[i]
        PROVE  \E j \in follower.next + 1 .. n + 1 : sent'[j] = pushed[i]
    BY <1>2, <1>3, <2>1, <2>4
  <2> QED
    BY <2>2, <2>3, <2>4
<1> QED
  BY <1>4, <1>5, <1>6 DEF RingInv

(* The client starts to follow, or reads the ring. *)
LEMMA SubscribeKeeps == RingInv /\ Subscribe => RingInv'
<1> SUFFICES ASSUME RingInv, Subscribe PROVE RingInv'
  OBVIOUS
<1> DEFINE f == [follower EXCEPT !.pc = "subscribed", !.next = Len(sent)]
<1>1. follower' = f /\ UNCHANGED <<entries, write_pos, len, pushing, pushed, sent>>
  BY Zenon DEF Subscribe
<1>2. /\ f \in [pc : {"away", "subscribed", "following"}, next : Nat, from : Nat,
                seen : SUBSET LogEntries, skipped : SUBSET LogEntries]
      /\ f.pc = "subscribed" /\ f.next = Len(sent)
  <2>1. Len(sent) \in Nat
    BY DEF RingInv, RingTypes
  <2>2. follower \in [pc : {"away", "subscribed", "following"}, next : Nat, from : Nat,
                      seen : SUBSET LogEntries, skipped : SUBSET LogEntries]
    BY DEF RingInv, RingTypes
  <2> QED
    BY <2>1, <2>2
<1> HIDE DEF f
<1>3. RingTypes'
  BY <1>1, <1>2 DEF RingInv, RingTypes
<1>4. RingIsRecent'
  BY <1>1 DEF RingInv, RingIsRecent, Back
<1>5. NothingMissed'
  BY <1>1, <1>2 DEF NothingMissed
<1> QED
  BY <1>3, <1>4, <1>5 DEF RingInv

LEMMA FetchKeeps ==
  ASSUME RingInv, NEW limit \in 0 .. RING_BUFFER_CAPACITY, Fetch(limit)
  PROVE  RingInv'
<1> DEFINE C == RING_BUFFER_CAPACITY
           n == Len(pushed)
           R == Range(recent(limit, None, None))
           top == Max({limit, 1})
           m == n - Min({top, len})
           f == [follower EXCEPT !.pc = "following", !.from = m, !.seen = @ \cup R]
<1>1. follower' = f /\ UNCHANGED <<entries, write_pos, len, pushing, pushed, sent>>
  BY Zenon DEF Fetch
<1>2. R \subseteq LogEntries
  <2>1. \A i \in DOMAIN recent(limit, None, None) : i \in 0 .. len - 1 /\ recent(limit, None, None)[i] = Newest(i)
    BY DEF recent
  <2>2. \A i \in 0 .. len - 1 : Newest(i) \in LogEntries
    <3> SUFFICES ASSUME NEW i \in 0 .. len - 1 PROVE Newest(i) \in LogEntries
      OBVIOUS
    <3>1. Newest(i) = pushed[n - i] /\ len \in Nat /\ len <= n
      BY NewestIsRight, RingAssumption
    <3>2. pushed \in Seq(LogEntries) /\ n \in Nat
      BY DEF RingInv, RingTypes
    <3>3. n - i \in 1 .. n
      BY <3>1, <3>2
    <3> QED
      BY <3>1, <3>2, <3>3
  <2> QED
    BY <2>1, <2>2, Zenon DEF Range
<1>3. \A i \in 0 .. len - 1 : (i = 0 \/ i < limit) => pushed[n - i] \in R
  BY RecentIsAll, RingAssumption
<1>4. n \in Nat /\ len \in 0 .. C /\ len <= n /\ (len < C => len = n)
  BY NewestIsRight DEF RingInv, RingTypes
<1>5. m \in Nat /\ n - m <= len /\ (n - m <= 1 \/ n - m <= limit)
  <2>1. top = IF limit >= 1 THEN limit ELSE 1
    BY RingAssumption DEF Max
  <2>2. top \in Nat
    BY <2>1, RingAssumption
  <2> HIDE DEF top
  <2>3. Min({top, len}) = IF top <= len THEN top ELSE len
    BY <1>4, <2>2 DEF Min
  <2>4. m = n - (IF top <= len THEN top ELSE len)
    BY <2>3
  <2> HIDE DEF m
  <2> QED
    BY <1>4, <2>1, <2>2, <2>4, RingAssumption
<1> HIDE DEF R, m, top
<1>6. /\ f \in [pc : {"away", "subscribed", "following"}, next : Nat, from : Nat,
                seen : SUBSET LogEntries, skipped : SUBSET LogEntries]
      /\ f.pc = "following" /\ f.next = follower.next /\ f.from = m /\ R \subseteq f.seen
  BY <1>2, <1>5 DEF RingInv, RingTypes
<1> HIDE DEF f
<1>7. RingTypes'
  BY <1>1, <1>6 DEF RingInv, RingTypes
<1>8. RingIsRecent'
  BY <1>1 DEF RingInv, RingIsRecent, Back
<1>9. \A i \in m + 1 .. n : pushed[i] \in R
  <2> SUFFICES ASSUME NEW i \in m + 1 .. n PROVE pushed[i] \in R
    OBVIOUS
  <2>1. n - i \in 0 .. len - 1 /\ n - (n - i) = i /\ (n - i = 0 \/ n - i < limit)
    BY <1>4, <1>5, RingAssumption
  <2> QED
    BY <1>3, <2>1
<1>10. NothingMissed'
  BY <1>1, <1>6, <1>9 DEF NothingMissed
<1> QED
  BY <1>7, <1>8, <1>10 DEF RingInv

(* An entry is received, or the client is told it fell behind. *)
LEMMA ReceiveKeeps == RingInv /\ Receive => RingInv'
<1> SUFFICES ASSUME RingInv, Receive PROVE RingInv'
  OBVIOUS
<1> DEFINE n == Len(sent)
           x == follower.next
           m == n - BROADCAST_CAPACITY
           lost == {sent[i] : i \in x + 1 .. m}
           f == [follower EXCEPT !.next = m, !.skipped = @ \cup lost]
           g == [follower EXCEPT !.next = x + 1, !.seen = @ \cup {sent[x + 1]}]
           Records == [pc : {"away", "subscribed", "following"}, next : Nat, from : Nat,
                       seen : SUBSET LogEntries, skipped : SUBSET LogEntries]
<1>1. UNCHANGED <<entries, write_pos, len, pushing, pushed, sent>> /\ x < n
  BY DEF Receive
<1>2. n \in Nat /\ x \in Nat /\ x <= n /\ follower \in Records /\ BROADCAST_CAPACITY \in Nat \ {0}
  BY RingAssumption DEF RingInv, RingTypes
<1>3. \A i \in 1 .. n : sent[i] \in LogEntries
  BY DEF RingInv, RingTypes
<1>4. RingIsRecent'
  BY <1>1 DEF RingInv, RingIsRecent, Back
<1>5. \A h \in Records : h.next <= n /\ follower' = h => RingTypes'
  BY <1>1 DEF RingInv, RingTypes
<1>6. ASSUME NEW i \in follower.from + 1 .. Len(pushed), follower.pc = "following"
      PROVE  \/ pushed[i] \in follower.seen \cup follower.skipped
             \/ \E u \in Threads : pushing[u] = pushed[i]
             \/ \E k \in x + 1 .. n : sent[k] = pushed[i]
  BY <1>6 DEF RingInv, NothingMissed
<1>7. CASE n - x > BROADCAST_CAPACITY
  <2>1. follower' = f
    BY <1>7, Zenon DEF Receive
  <2>2. m \in Nat /\ m <= n /\ lost \subseteq LogEntries
    BY <1>2, <1>3, <1>7
  <2> HIDE DEF lost
  <2>3. /\ f \in Records /\ f.pc = follower.pc /\ f.next = m /\ f.from = follower.from
        /\ f.seen = follower.seen /\ f.skipped = follower.skipped \cup lost
    BY <1>2, <2>2
  <2> HIDE DEF f
  <2>4. RingTypes'
    BY <1>5, <2>1, <2>2, <2>3
  <2>5. ASSUME NEW k \in x + 1 .. n PROVE sent[k] \in lost \/ k \in m + 1 .. n
    BY <1>2, <2>2 DEF lost
  <2>6. NothingMissed'
    BY <1>1, <1>6, <2>1, <2>3, <2>5 DEF NothingMissed
  <2> QED
    BY <1>4, <2>4, <2>6 DEF RingInv
<1>8. CASE ~(n - x > BROADCAST_CAPACITY)
  <2>1. follower' = g
    BY <1>8, Zenon DEF Receive
  <2>2. x + 1 \in Nat /\ x + 1 <= n /\ sent[x + 1] \in LogEntries
    BY <1>1, <1>2, <1>3
  <2>3. /\ g \in Records /\ g.pc = follower.pc /\ g.next = x + 1 /\ g.from = follower.from
        /\ g.seen = follower.seen \cup {sent[x + 1]} /\ g.skipped = follower.skipped
    BY <1>2, <2>2
  <2> HIDE DEF g
  <2>4. RingTypes'
    BY <1>5, <2>1, <2>2, <2>3
  <2>5. ASSUME NEW k \in x + 1 .. n PROVE k = x + 1 \/ k \in (x + 1) + 1 .. n
    BY <1>2
  <2>6. NothingMissed'
    BY <1>1, <1>6, <2>1, <2>3, <2>5 DEF NothingMissed
  <2> QED
    BY <1>4, <2>4, <2>6 DEF RingInv
<1> QED
  BY <1>7, <1>8

(* Every step of the log keeps its invariant. *)
LEMMA RingStep == RingInv /\ LogsNext => RingInv'
  BY PushKeeps, BroadcastKeeps, SubscribeKeeps, FetchKeeps, ReceiveKeeps DEF LogsNext

(* The invariant says that the ring is read exactly.  Fewer entries before *)
(* this one than the limit are as many with this one as the limit allows;  *)
(* the first is taken in any case.                                         *)
LEMMA RingImplied == RingInv => LogIsComplete
<1> SUFFICES ASSUME RingInv PROVE LogIsComplete
  OBVIOUS
<1> DEFINE C == RING_BUFFER_CAPACITY
           n == Len(pushed)
<1>1. /\ len \in 0 .. C /\ n \in Nat /\ len <= n /\ (len < C => len = n)
      /\ \A i \in 0 .. len - 1 : Newest(i) = pushed[n - i]
  BY NewestIsRight DEF RingInv, RingTypes
<1>2. RingTypeOK
  <2>1. write_pos \in 0 .. C - 1
    BY <1>1, RingAssumption DEF RingInv, RingIsRecent
  <2>2. Len(entries) = len /\ follower.pc \in {"away", "subscribed", "following"} /\ follower.next \in 0 .. Len(sent)
    BY DEF RingInv, RingIsRecent, RingTypes
  <2> QED
    BY <1>1, <2>1, <2>2 DEF RingTypeOK
<1>3. Min({n, C}) = len
  <2>1. Min({n, C}) = IF n <= C THEN n ELSE C
    BY <1>1, RingAssumption DEF Min
  <2> QED
    BY <1>1, <2>1, RingAssumption
<1>4. ASSUME NEW limit \in 0 .. C + 1, NEW min_level \in Levels \cup {"WARN", "bogus"},
             NEW search \in Texts \cup {None, "absent"}
      PROVE  LET NthNewest(i) == pushed[Len(pushed) - i]
                 Wanted(i) == {j \in 0 .. i : passes(NthNewest(j), min_level, search)}
                 kept == 0 .. Min({Len(pushed), C}) - 1
             IN recent(limit, min_level, search) =
                    [i \in {j \in kept : j \in Wanted(j) /\ Cardinality(Wanted(j)) <= Max({limit, 1})} |-> NthNewest(i)]
  <2> DEFINE top == Max({limit, 1})
             ok(x) == passes(x, min_level, search)
             Wanted(i) == {j \in 0 .. i : ok(pushed[n - j])}
             D == {j \in 0 .. len - 1 : Takes(j, limit, min_level, search)}
             E == {j \in 0 .. len - 1 : j \in Wanted(j) /\ Cardinality(Wanted(j)) <= top}
  <2>1. ASSUME NEW i \in 0 .. len - 1
        PROVE  Takes(i, limit, min_level, search) <=> (i \in Wanted(i) /\ Cardinality(Wanted(i)) <= top)
    <3> DEFINE before == {j \in 0 .. i - 1 : ok(Newest(j))}
    <3>1. before = {j \in 0 .. i - 1 : ok(pushed[n - j])}
      BY <1>1
    <3>2. ok(Newest(i)) <=> i \in Wanted(i)
      BY <1>1
    <3>3. IsFiniteSet(before) /\ Cardinality(before) \in Nat
      <4>1. IsFiniteSet(0 .. i - 1)
        BY <1>1, FS_Interval
      <4>2. before \subseteq 0 .. i - 1
        OBVIOUS
      <4> HIDE DEF before
      <4> QED
        BY <4>1, <4>2, FS_Subset, FS_CardinalityType
    <3>4. i \notin before
      BY <1>1
    <3>5. ok(pushed[n - i]) => Wanted(i) = before \cup {i}
      BY <1>1, <3>1
    <3>6. Takes(i, limit, min_level, search) <=> ok(Newest(i)) /\ (before = {} \/ Cardinality(before) < limit)
      BY DEF Takes
    <3>7. before = {} => Cardinality(before) = 0
      BY FS_EmptySet
    <3>8. i \in Wanted(i) => Cardinality(Wanted(i)) = Cardinality(before) + 1
      <4>1. i \in Wanted(i) => Wanted(i) = before \cup {i}
        BY <3>5
      <4> HIDE DEF before, Wanted
      <4>2. Cardinality(before \cup {i}) = Cardinality(before) + 1
        BY <3>3, <3>4, FS_AddElement
      <4> QED
        BY <4>1, <4>2, Zenon
    <3> HIDE DEF before, Wanted, ok
    <3>9. (before = {} \/ Cardinality(before) < limit) <=> Cardinality(before) + 1 <= top
      <4>1. top = IF limit >= 1 THEN limit ELSE 1
        BY <1>1, RingAssumption DEF Max
      <4>2. Cardinality(before) = 0 => before = {}
        BY <3>3, FS_EmptySet
      <4> HIDE DEF top
      <4> QED
        BY <3>3, <3>7, <4>1, <4>2, <1>1, RingAssumption
    <3> QED
      BY <3>2, <3>6, <3>8, <3>9
  <2>2. D = E
    BY <2>1
  <2>3. recent(limit, min_level, search) = [i \in D |-> Newest(i)]
    BY DEF recent
  <2>4. \A i \in D : Newest(i) = pushed[n - i]
    BY <1>1
  <2> HIDE DEF D
  <2>5. recent(limit, min_level, search) = [i \in D |-> pushed[n - i]]
    BY <2>3, <2>4
  <2>6. recent(limit, min_level, search) = [i \in E |-> pushed[n - i]]
    BY <2>2, <2>5, Zenon
  <2> QED
    BY <1>3, <2>6, Zenon
<1>5. RecentIsExact
  BY <1>4, Zenon DEF RecentIsExact
<1> QED
  BY <1>2, <1>5 DEF RingInv, LogIsComplete

----------------------------------------------------------------------------
(***************************************************************************)
(* Failed logins: the induction.                                           *)
(***************************************************************************)

(* The places of a sequence from which on its values count. *)
Since(s, t) == {i \in DOMAIN s : s[i] >= t}

LEMMA SinceCounts ==
  ASSUME NEW s \in Seq(Nat), NEW t \in Int
  PROVE  /\ IsFiniteSet(Since(s, t)) /\ Cardinality(Since(s, t)) \in Nat
         /\ (\A i \in DOMAIN s : s[i] < t) => Cardinality(Since(s, t)) = 0
<1>1. Len(s) \in Nat /\ DOMAIN s = 1 .. Len(s)
  OBVIOUS
<1>2. IsFiniteSet(1 .. Len(s))
  BY <1>1, FS_Interval
<1>3. Since(s, t) \subseteq 1 .. Len(s)
  BY <1>1 DEF Since
<1>4. IsFiniteSet(Since(s, t))
  BY <1>2, <1>3, FS_Subset
<1>5. ASSUME \A i \in DOMAIN s : s[i] < t PROVE Since(s, t) = {}
  <2>1. \A i \in DOMAIN s : s[i] \in Nat
    OBVIOUS
  <2> QED
    BY <1>5, <2>1 DEF Since
<1> QED
  BY <1>4, <1>5, FS_CardinalityType, FS_EmptySet

LEMMA SinceAppended ==
  ASSUME NEW s \in Seq(Nat), NEW t \in Int, NEW x \in Nat, x >= t
  PROVE  Cardinality(Since(Append(s, x), t)) = Cardinality(Since(s, t)) + 1
<1>1. Len(s) \in Nat /\ DOMAIN s = 1 .. Len(s)
  OBVIOUS
<1>2. Since(Append(s, x), t) = Since(s, t) \cup {Len(s) + 1}
  BY <1>1 DEF Since
<1>3. Len(s) + 1 \notin Since(s, t)
  BY <1>1 DEF Since
<1> QED
  BY <1>2, <1>3, SinceCounts, FS_AddElement

LEMMA SinceEarlier ==
  ASSUME NEW s \in Seq(Nat), NEW t \in Int, NEW w \in Int, w <= t
  PROVE  Cardinality(Since(s, t)) <= Cardinality(Since(s, w))
<1>1. Since(s, t) \subseteq Since(s, w)
  BY DEF Since
<1> QED
  BY <1>1, SinceCounts, FS_Subset

(* An entry of this second counts nothing, where none is in force: who     *)
(* failed in this second has one.                                          *)
LEMMA NewWindowIsEmpty ==
  ASSUME LoginInv, NEW u \in Names, ~(u \in DOMAIN login_attempts /\ ~Expired(login_attempts[u], now))
  PROVE  Cardinality(Since(failures[u], now)) = 0
<1>1. \A i \in DOMAIN failures[u] : failures[u][i] < now
  <2> SUFFICES ASSUME NEW i \in DOMAIN failures[u] PROVE failures[u][i] < now
    OBVIOUS
  <2>1. failures[u][i] # now
    BY DEF LoginInv, FailuresNoted
  <2>2. failures[u][i] \in Nat /\ failures[u][i] <= now /\ now \in Nat
    BY DEF LoginInv, LoginTypes
  <2> QED
    BY <2>1, <2>2
<1> QED
  BY <1>1, SinceCounts DEF LoginInv, LoginTypes

(* The logins still to fail, when one of them moves. *)
LEMMA PendingMoves ==
  ASSUME LoginInv, NEW l \in Logins, NEW n, logins' = [logins EXCEPT ![l] = n], NEW v
  PROVE  /\ IsFiniteSet(Pending(v)) /\ Cardinality(Pending(v)) \in 0 .. Cardinality(Logins)
         /\ Cardinality(Pending(v)') \in 0 .. Cardinality(Logins) /\ Cardinality(Logins) \in Nat
         /\ n.pc \notin {"retain", "verify"} \/ n.user # v \/ l \in Pending(v) =>
                Cardinality(Pending(v)') <= Cardinality(Pending(v))
         /\ n.pc \notin {"retain", "verify"} /\ l \in Pending(v) =>
                Cardinality(Pending(v)') = Cardinality(Pending(v)) - 1
<1>1. \A m \in Logins : logins'[m] = IF m = l THEN n ELSE logins[m]
  BY DEF LoginInv, LoginTypes
<1>2. Pending(v) \subseteq Logins /\ Pending(v)' \subseteq Logins
  BY DEF Pending
<1>3. IsFiniteSet(Pending(v)) /\ IsFiniteSet(Pending(v)') /\ IsFiniteSet(Logins)
  BY <1>2, FS_Subset, SessionsAssumption
<1>4. Cardinality(Pending(v)) \in 0 .. Cardinality(Logins) /\ Cardinality(Logins) \in Nat
  BY <1>2, <1>3, FS_Subset, FS_CardinalityType
<1>5. Cardinality(Pending(v)') \in 0 .. Cardinality(Logins)
  BY <1>2, <1>3, FS_Subset, FS_CardinalityType
<1>6. ASSUME n.pc \notin {"retain", "verify"} \/ n.user # v \/ l \in Pending(v)
      PROVE  Cardinality(Pending(v)') <= Cardinality(Pending(v))
  <2>1. Pending(v)' \subseteq Pending(v)
    BY <1>1, <1>6 DEF Pending
  <2> QED
    BY <1>3, <2>1, FS_Subset
<1>7. ASSUME n.pc \notin {"retain", "verify"}, l \in Pending(v)
      PROVE  Cardinality(Pending(v)') = Cardinality(Pending(v)) - 1
  <2>1. Pending(v)' = Pending(v) \ {l}
    BY <1>1, <1>7 DEF Pending
  <2> QED
    BY <1>3, <1>7, <2>1, FS_RemoveElement
<1> QED
  BY <1>3, <1>4, <1>5, <1>6, <1>7

(* Nobody has tried to log in. *)
LEMMA LoginStart == SessionsInit => LoginInv
<1> SUFFICES ASSUME SessionsInit PROVE LoginInv
  OBVIOUS
<1>1. login_attempts = << >> /\ now = 0 /\ logins = [l \in Logins |-> AtRest] /\ failures = [u \in Names |-> << >>]
  BY DEF SessionsInit
<1>2. DOMAIN login_attempts = {}
  BY <1>1
<1>3. LoginTypes
  <2>1. AtRest \in LoginRecords /\ AtRest.now = 0 /\ AtRest.pc = "idle"
    BY DEF LoginRecords, LoginPcs, AtRest
  <2> HIDE DEF AtRest
  <2>2. \A l \in Logins : /\ logins[l] \in LoginRecords /\ logins[l].now <= now
                          /\ logins[l].pc # "idle" => logins[l].user \in Names
    BY <1>1, <2>1
  <2>3. failures \in [Names -> Seq(Nat)] /\ \A u \in Names : \A i \in DOMAIN failures[u] : failures[u][i] <= now
    BY <1>1
  <2>4. now \in Nat /\ DOMAIN logins = Logins
    BY <1>1
  <2> QED
    BY <1>2, <2>2, <2>3, <2>4, Zenon DEF LoginTypes
<1>4. CountsAreTrue /\ Margin
  BY <1>2, Zenon DEF CountsAreTrue, Margin
<1>5. FailuresNoted
  BY <1>1 DEF FailuresNoted
<1> QED
  BY <1>3, <1>4, <1>5 DEF LoginInv

(* The check lets a login through and may start the window anew. *)
LEMMA LoginCheckKeeps ==
  ASSUME LoginInv, NEW l \in Logins, NEW u \in Names, NEW p \in {"own", "token", "wrong"}, LoginCheck(l, u, p)
  PROVE  LoginInv'
<1> DEFINE e == Checked(u)
           n == [pc |-> "retain", user |-> u, password |-> p, now |-> now]
<1>1. /\ logins[l].pc = "idle" /\ ~rate_limited(u) /\ login_attempts' = Inserted(login_attempts, u, e)
      /\ logins' = [logins EXCEPT ![l] = n] /\ UNCHANGED <<now, failures>>
  BY DEF LoginCheck, history
<1>2. /\ now \in Nat /\ MaxAttempts \in Nat \ {0} /\ Window \in Nat \ {0} /\ failures[u] \in Seq(Nat)
      /\ \A v \in DOMAIN login_attempts : login_attempts[v] \in AttemptRecords /\ login_attempts[v].window_start <= now
  BY SessionsAssumption DEF LoginInv, LoginTypes
<1>3. n \in LoginRecords /\ n.pc = "retain" /\ n.user = u /\ n.now = now
  BY <1>2 DEF LoginRecords, LoginPcs
<1>4. /\ e \in AttemptRecords /\ e.window_start <= now /\ ~Expired(e, now)
      /\ e.count = Cardinality(Since(failures[u], e.window_start))
  <2>1. CASE u \in DOMAIN login_attempts /\ ~Expired(login_attempts[u], now)
    BY <1>2, <2>1 DEF Checked, LoginInv, CountsAreTrue, FailuresSince, Since
  <2>2. CASE ~(u \in DOMAIN login_attempts /\ ~Expired(login_attempts[u], now))
    <3>1. e = [count |-> 0, window_start |-> now]
      BY <2>2 DEF Checked
    <3>2. Cardinality(Since(failures[u], now)) = 0
      BY <2>2, NewWindowIsEmpty
    <3>3. e.count = 0 /\ e.window_start = now /\ e \in AttemptRecords
      BY <1>2, <3>1 DEF AttemptRecords
    <3>4. ~Expired(e, now)
      BY <1>2, <3>3 DEF Expired
    <3> HIDE DEF e
    <3> QED
      BY <1>2, <3>2, <3>3, <3>4
  <2> QED
    BY <2>1, <2>2
<1>5. e.count \in Nat /\ e.count < MaxAttempts
  BY <1>1, <1>2, <1>4 DEF rate_limited, AttemptRecords
<1> HIDE DEF e, n
<1>6. /\ DOMAIN login_attempts' = DOMAIN login_attempts \cup {u} /\ login_attempts'[u] = e
      /\ \A v \in DOMAIN login_attempts : v # u => login_attempts'[v] = login_attempts[v]
  BY <1>1 DEF Inserted
<1>7. LoginTypes'
  <2>1. DOMAIN logins' = Logins /\ \A m \in Logins : logins'[m] = IF m = l THEN n ELSE logins[m]
    BY <1>1 DEF LoginInv, LoginTypes
  <2>3. \A m \in Logins : /\ logins'[m] \in LoginRecords /\ logins'[m].now <= now
                          /\ logins'[m].pc # "idle" => logins'[m].user \in Names
    BY <1>2, <1>3, <2>1 DEF LoginInv, LoginTypes
  <2>2. \A v \in DOMAIN login_attempts' : login_attempts'[v] \in AttemptRecords /\ login_attempts'[v].window_start <= now
    BY <1>2, <1>4, <1>6
  <2> QED
    <3>1. DOMAIN login_attempts' \subseteq Names
      BY <1>6 DEF LoginInv, LoginTypes
    <3>2. failures \in [Names -> Seq(Nat)] /\ \A v \in Names : \A i \in DOMAIN failures[v] : failures[v][i] <= now
      BY DEF LoginInv, LoginTypes
    <3>3. now' = now /\ failures' = failures
      BY <1>1
    <3> QED
      BY <1>2, <2>1, <2>2, <2>3, <3>1, <3>2, <3>3, Zenon DEF LoginTypes
<1>8. CountsAreTrue'
  <2> SUFFICES ASSUME NEW v \in DOMAIN login_attempts'
               PROVE  login_attempts'[v].count = Cardinality(Since(failures[v], login_attempts'[v].window_start))
    BY <1>1 DEF CountsAreTrue, FailuresSince, Since
  <2>1. CASE v = u
    BY <1>4, <1>6, <2>1
  <2>2. CASE v # u
    BY <1>6, <2>2 DEF LoginInv, CountsAreTrue, FailuresSince, Since
  <2> QED
    BY <2>1, <2>2
<1>9. FailuresNoted'
  <2> SUFFICES ASSUME NEW v \in Names, NEW i \in DOMAIN failures[v], failures[v][i] = now
               PROVE  v \in DOMAIN login_attempts' /\ ~Expired(login_attempts'[v], now)
    BY <1>1 DEF FailuresNoted, Expired
  <2>1. v \in DOMAIN login_attempts /\ ~Expired(login_attempts[v], now)
    BY DEF LoginInv, FailuresNoted
  <2> QED
    BY <1>4, <1>6, <2>1
<1>10. Margin'
  <2> SUFFICES ASSUME NEW v \in DOMAIN login_attempts'
               PROVE  login_attempts'[v].count + Cardinality(Pending(v)') < MaxAttempts + Cardinality(Logins)
    BY DEF Margin, Pending
  <2>1. CASE v = u
    <3>1. Cardinality(Pending(v)') \in 0 .. Cardinality(Logins) /\ Cardinality(Logins) \in Nat
      BY <1>1, PendingMoves
    <3> QED
      BY <1>2, <1>5, <1>6, <2>1, <3>1
  <2>2. CASE v # u
    <3>1. v \in DOMAIN login_attempts /\ login_attempts'[v] = login_attempts[v] /\ login_attempts[v].count \in Nat
      BY <1>2, <1>6, <2>2 DEF AttemptRecords
    <3>2. Cardinality(Pending(v)') <= Cardinality(Pending(v))
      BY <1>1, <1>3, <2>2, PendingMoves, Zenon
    <3>4. /\ Cardinality(Pending(v)) \in 0 .. Cardinality(Logins) /\ Cardinality(Logins) \in Nat
          /\ Cardinality(Pending(v)') \in 0 .. Cardinality(Logins)
      BY <1>1, PendingMoves, Zenon
    <3>3. login_attempts[v].count + Cardinality(Pending(v)) < MaxAttempts + Cardinality(Logins)
      BY <3>1 DEF LoginInv, Margin
    <3> QED
      BY <1>2, <3>1, <3>2, <3>3, <3>4
  <2> QED
    BY <2>1, <2>2
<1> QED
  BY <1>7, <1>8, <1>9, <1>10 DEF LoginInv

(* A login moves on and entries are dropped, but none in force that has a  *)
(* failure of this second.                                                 *)
LEMMA AttemptsDropped ==
  ASSUME LoginInv, NEW l \in Logins, NEW n \in LoginRecords, NEW K \in SUBSET DOMAIN login_attempts,
         logins' = [logins EXCEPT ![l] = n], n.now <= now, n.pc # "idle" => n.user \in Names,
         DOMAIN login_attempts' = K, \A u \in K : login_attempts'[u] = login_attempts[u], UNCHANGED now,
         n.pc \notin {"retain", "verify"} \/ (logins[l].pc \in {"retain", "verify"} /\ n.user = logins[l].user),
         failures' \in [Names -> Seq(Nat)],
         \A u \in Names : failures'[u] # failures[u] => u \notin K /\ failures'[u] = << >>,
         \A u \in DOMAIN login_attempts : ~Expired(login_attempts[u], now) => u \in K \/ failures'[u] = << >>
  PROVE  LoginInv'
<1>1. DOMAIN login_attempts' = K /\ \A v \in K : login_attempts'[v] = login_attempts[v]
  OBVIOUS
<1>2. /\ now \in Nat /\ MaxAttempts \in Nat \ {0} /\ K \subseteq Names
      /\ \A v \in K : login_attempts[v] \in AttemptRecords /\ login_attempts[v].window_start <= now
  BY SessionsAssumption DEF LoginInv, LoginTypes
<1>3. \A v \in K : failures'[v] = failures[v]
  BY <1>2
<1>4. LoginTypes'
  <2>1. DOMAIN logins' = Logins /\ \A m \in Logins : logins'[m] = IF m = l THEN n ELSE logins[m]
    BY DEF LoginInv, LoginTypes
  <2>3. \A m \in Logins : /\ logins'[m] \in LoginRecords /\ logins'[m].now <= now
                          /\ logins'[m].pc # "idle" => logins'[m].user \in Names
    BY <2>1 DEF LoginInv, LoginTypes
  <2>2. \A u \in Names : \A i \in DOMAIN failures'[u] : failures'[u][i] <= now
    <3> SUFFICES ASSUME NEW u \in Names, NEW i \in DOMAIN failures'[u] PROVE failures'[u][i] <= now
      OBVIOUS
    <3>1. failures'[u] # << >>
      OBVIOUS
    <3>2. failures'[u] = failures[u]
      BY <3>1
    <3> QED
      BY <3>2 DEF LoginInv, LoginTypes
  <2> QED
    <3>1. DOMAIN login_attempts' \subseteq Names /\ now' = now
      BY <1>1, <1>2
    <3>2. \A v \in DOMAIN login_attempts' :
            login_attempts'[v] \in AttemptRecords /\ login_attempts'[v].window_start <= now
      BY <1>1, <1>2
    <3> QED
      BY <1>2, <2>1, <2>2, <2>3, <3>1, <3>2, Zenon DEF LoginTypes
<1>5. CountsAreTrue'
  <2> SUFFICES ASSUME NEW v \in K
               PROVE  login_attempts'[v].count = Cardinality(Since(failures'[v], login_attempts'[v].window_start))
    BY <1>1 DEF CountsAreTrue, FailuresSince, Since
  <2>1. login_attempts[v].count = Cardinality(Since(failures[v], login_attempts[v].window_start))
    BY DEF LoginInv, CountsAreTrue, FailuresSince, Since
  <2> QED
    BY <1>1, <1>3, <2>1, Zenon
<1>6. FailuresNoted'
  <2> SUFFICES ASSUME NEW v \in Names, NEW i \in DOMAIN failures'[v], failures'[v][i] = now
               PROVE  v \in DOMAIN login_attempts' /\ ~Expired(login_attempts'[v], now)
    BY DEF FailuresNoted, Expired
  <2>1. failures'[v] # << >>
    OBVIOUS
  <2>2. failures'[v] = failures[v]
    BY <2>1
  <2>3. v \in DOMAIN login_attempts /\ ~Expired(login_attempts[v], now)
    BY <2>2 DEF LoginInv, FailuresNoted
  <2> QED
    BY <1>1, <2>1, <2>3
<1>7. Margin'
  <2> SUFFICES ASSUME NEW v \in K
               PROVE  login_attempts'[v].count + Cardinality(Pending(v)') < MaxAttempts + Cardinality(Logins)
    BY <1>1 DEF Margin, Pending
  <2>1. login_attempts'[v] = login_attempts[v] /\ login_attempts[v].count \in Nat
    BY <1>1, <1>2 DEF AttemptRecords
  <2>2. n.pc \notin {"retain", "verify"} \/ n.user # v \/ l \in Pending(v)
    BY DEF Pending
  <2>3. Cardinality(Pending(v)') <= Cardinality(Pending(v))
    BY <2>2, PendingMoves, Zenon
  <2>5. /\ Cardinality(Pending(v)) \in 0 .. Cardinality(Logins) /\ Cardinality(Logins) \in Nat
        /\ Cardinality(Pending(v)') \in 0 .. Cardinality(Logins)
    BY PendingMoves, Zenon
  <2>4. login_attempts[v].count + Cardinality(Pending(v)) < MaxAttempts + Cardinality(Logins)
    BY DEF LoginInv, Margin
  <2> QED
    BY <1>2, <2>1, <2>3, <2>4, <2>5
<1> QED
  BY <1>4, <1>5, <1>6, <1>7 DEF LoginInv

(* Dropping the expired entries: one that is in force now was in force     *)
(* when this login read the clock.                                         *)
LEMMA RetainKeeps ==
  ASSUME LoginInv, NEW l \in Logins, Retain(l)
  PROVE  LoginInv'
<1> DEFINE K == {u \in DOMAIN login_attempts : ~Expired(login_attempts[u], logins[l].now)}
           n == [logins[l] EXCEPT !.pc = "verify"]
<1>1. /\ logins[l].pc = "retain" /\ login_attempts' = Restrict(login_attempts, K)
      /\ logins' = [logins EXCEPT ![l] = n] /\ UNCHANGED <<now, failures>>
  BY DEF Retain, history
<1>2. logins[l] \in LoginRecords /\ logins[l].now <= now /\ logins[l].user \in Names /\ now \in Nat
  BY <1>1 DEF LoginInv, LoginTypes
<1>3. n \in LoginRecords /\ n.pc = "verify" /\ n.user = logins[l].user /\ n.now = logins[l].now
  BY <1>2 DEF LoginRecords, LoginPcs
<1>4. \A u \in DOMAIN login_attempts : ~Expired(login_attempts[u], now) => u \in K
  <2> SUFFICES ASSUME NEW u \in DOMAIN login_attempts, ~Expired(login_attempts[u], now) PROVE u \in K
    OBVIOUS
  <2>1. login_attempts[u].window_start \in Nat /\ Window \in Nat /\ logins[l].now \in Nat
    BY <1>2, SessionsAssumption DEF LoginInv, LoginTypes, AttemptRecords, LoginRecords
  <2> QED
    BY <1>2, <2>1 DEF Expired
<1>5. K \in SUBSET DOMAIN login_attempts
  OBVIOUS
<1>6. failures' \in [Names -> Seq(Nat)] /\ failures' = failures /\ now' = now
  BY <1>1 DEF LoginInv, LoginTypes
<1> HIDE DEF K, n
<1>7. DOMAIN login_attempts' = K /\ \A u \in K : login_attempts'[u] = login_attempts[u]
  BY <1>1 DEF Restrict
<1> QED
  BY <1>1, <1>2, <1>3, <1>4, <1>5, <1>6, <1>7, AttemptsDropped

(* A success forgets the failures. *)
LEMMA ClearAttemptsKeeps ==
  ASSUME LoginInv, NEW l \in Logins, ClearAttempts(l)
  PROVE  LoginInv'
<1> DEFINE x == logins[l].user
           K == DOMAIN login_attempts \ {x}
<1>1. /\ logins[l].pc = "clear" /\ login_attempts' = Restrict(login_attempts, K)
      /\ failures' = [failures EXCEPT ![x] = << >>] /\ logins' = [logins EXCEPT ![l] = AtRest] /\ now' = now
  BY DEF ClearAttempts
<1>2. x \in Names /\ now \in Nat /\ failures \in [Names -> Seq(Nat)]
  BY <1>1 DEF LoginInv, LoginTypes
<1>3. AtRest \in LoginRecords /\ AtRest.pc = "idle" /\ AtRest.now = 0
  BY DEF LoginRecords, LoginPcs, AtRest
<1>4. K \in SUBSET DOMAIN login_attempts /\ x \notin K /\ \A u \in DOMAIN login_attempts : u = x \/ u \in K
  OBVIOUS
<1>5. failures' \in [Names -> Seq(Nat)] /\ failures'[x] = << >> /\ \A u \in Names : u # x => failures'[u] = failures[u]
  BY <1>1, <1>2
<1> HIDE DEF K, x
<1>6. /\ \A u \in Names : failures'[u] # failures[u] => u \notin K /\ failures'[u] = << >>
      /\ \A u \in DOMAIN login_attempts : ~Expired(login_attempts[u], now) => u \in K \/ failures'[u] = << >>
  BY <1>4, <1>5
<1>7. AtRest.now <= now /\ AtRest.pc \notin {"retain", "verify"} /\ ~(AtRest.pc # "idle")
  BY <1>2, <1>3
<1>8. DOMAIN login_attempts' = K /\ \A u \in K : login_attempts'[u] = login_attempts[u]
  BY <1>1 DEF Restrict
<1> QED
  BY <1>1, <1>3, <1>4, <1>5, <1>6, <1>7, <1>8, AttemptsDropped

(* A failure is counted, in a new window if there is none in force; the    *)
(* login is no longer one that may fail.                                   *)
LEMMA FailKeeps ==
  ASSUME LoginInv, NEW l \in Logins, Fail(l)
  PROVE  LoginInv'
<1>0. PICK u : u = logins[l].user
  OBVIOUS
<1> DEFINE e == Failed(u)
           F == Append(failures[u], now)
<1>1. /\ logins[l].pc = "verify" /\ login_attempts' = Inserted(login_attempts, u, e)
      /\ failures' = [failures EXCEPT ![u] = F] /\ logins' = [logins EXCEPT ![l] = AtRest] /\ now' = now
  BY <1>0, Zenon DEF Fail
<1>2. /\ u \in Names /\ now \in Nat /\ MaxAttempts \in Nat \ {0} /\ Window \in Nat \ {0}
      /\ failures \in [Names -> Seq(Nat)] /\ failures[u] \in Seq(Nat)
      /\ \A v \in DOMAIN login_attempts : login_attempts[v] \in AttemptRecords /\ login_attempts[v].window_start <= now
  BY <1>0, <1>1, SessionsAssumption DEF LoginInv, LoginTypes
<1>3. AtRest \in LoginRecords /\ AtRest.pc = "idle" /\ AtRest.now = 0
  BY DEF LoginRecords, LoginPcs, AtRest
<1>4. l \in Pending(u)
  BY <1>0, <1>1 DEF Pending
<1>5. /\ Cardinality(Pending(u)) \in 0 .. Cardinality(Logins) /\ Cardinality(Logins) \in Nat
      /\ AtRest.pc \notin {"retain", "verify"} /\ l \in Pending(u) => Cardinality(Pending(u)') = Cardinality(Pending(u)) - 1
  BY <1>1, PendingMoves, Zenon
<1>6. /\ e \in AttemptRecords /\ e.window_start <= now /\ ~Expired(e, now)
      /\ e.count = Cardinality(Since(F, e.window_start))
      /\ e.count + Cardinality(Pending(u)') < MaxAttempts + Cardinality(Logins)
  <2> DEFINE a == login_attempts[u]
  <2>1. CASE u \in DOMAIN login_attempts /\ ~Expired(a, now)
    <3>1. e = [a EXCEPT !.count = a.count + 1] /\ a \in AttemptRecords /\ a.window_start <= now
      BY <1>2, <2>1 DEF Failed
    <3>2. e \in AttemptRecords /\ e.count = a.count + 1 /\ e.window_start = a.window_start /\ a.count \in Nat /\ a.window_start \in Nat
      BY <3>1 DEF AttemptRecords
    <3>3. a.count = Cardinality(Since(failures[u], a.window_start))
      BY <2>1 DEF LoginInv, CountsAreTrue, FailuresSince, Since
    <3>4. a.count + Cardinality(Pending(u)) < MaxAttempts + Cardinality(Logins)
      BY <2>1 DEF LoginInv, Margin
    <3>5. ~Expired(e, now)
      BY <2>1, <3>2 DEF Expired
    <3> HIDE DEF a, e, F
    <3>6. Cardinality(Since(F, a.window_start)) = a.count + 1
      BY <1>2, <3>1, <3>2, <3>3, SinceAppended DEF F
    <3>7. e.count + Cardinality(Pending(u)') < MaxAttempts + Cardinality(Logins)
      BY <1>2, <1>3, <1>4, <1>5, <3>2, <3>4
    <3> QED
      BY <3>1, <3>2, <3>5, <3>6, <3>7
  <2>2. CASE ~(u \in DOMAIN login_attempts /\ ~Expired(a, now))
    <3>1. e = [count |-> 1, window_start |-> now]
      BY <2>2 DEF Failed
    <3>2. Cardinality(Since(failures[u], now)) = 0
      BY <1>2, <2>2, NewWindowIsEmpty
    <3>3. e.count = 1 /\ e.window_start = now /\ e \in AttemptRecords
      BY <1>2, <3>1 DEF AttemptRecords
    <3>4. ~Expired(e, now)
      BY <1>2, <3>3 DEF Expired
    <3> HIDE DEF e, F
    <3>5. Cardinality(Since(F, now)) = 1
      BY <1>2, <3>2, SinceAppended DEF F
    <3>6. e.count + Cardinality(Pending(u)') < MaxAttempts + Cardinality(Logins)
      BY <1>2, <1>3, <1>4, <1>5, <3>3
    <3> QED
      BY <1>2, <3>3, <3>4, <3>5, <3>6
  <2> QED
    BY <2>1, <2>2
<1> HIDE DEF e
<1>7. /\ DOMAIN login_attempts' = DOMAIN login_attempts \cup {u} /\ login_attempts'[u] = e
      /\ \A v \in DOMAIN login_attempts : v # u => login_attempts'[v] = login_attempts[v]
  BY <1>1 DEF Inserted
<1>8. /\ F \in Seq(Nat) /\ \A i \in DOMAIN F : F[i] <= now
      /\ failures' \in [Names -> Seq(Nat)] /\ failures'[u] = F /\ \A v \in Names : v # u => failures'[v] = failures[v]
  <2>1. F \in Seq(Nat)
    BY <1>2
  <2>2. \A i \in DOMAIN failures[u] : failures[u][i] <= now
    BY <1>2 DEF LoginInv, LoginTypes
  <2>3. \A i \in DOMAIN F : F[i] <= now
    BY <1>2, <2>2
  <2> HIDE DEF F
  <2> QED
    BY <1>1, <1>2, <2>1, <2>3
<1> HIDE DEF F
<1>9. LoginTypes'
  <2>1. DOMAIN logins' = Logins /\ \A m \in Logins : logins'[m] = IF m = l THEN AtRest ELSE logins[m]
    BY <1>1 DEF LoginInv, LoginTypes
  <2>2. \A m \in Logins : /\ logins'[m] \in LoginRecords /\ logins'[m].now <= now
                          /\ logins'[m].pc # "idle" => logins'[m].user \in Names
    BY <1>2, <1>3, <2>1 DEF LoginInv, LoginTypes
  <2>3. \A v \in DOMAIN login_attempts' : login_attempts'[v] \in AttemptRecords /\ login_attempts'[v].window_start <= now
    BY <1>2, <1>6, <1>7
  <2>4. DOMAIN login_attempts' \subseteq Names
    BY <1>2, <1>7 DEF LoginInv, LoginTypes
  <2>5. \A v \in Names : \A i \in DOMAIN failures'[v] : failures'[v][i] <= now
    BY <1>8 DEF LoginInv, LoginTypes
  <2> QED
    BY <1>1, <1>2, <1>8, <2>1, <2>2, <2>3, <2>4, <2>5, Zenon DEF LoginTypes
<1>10. CountsAreTrue'
  <2> SUFFICES ASSUME NEW v \in DOMAIN login_attempts'
               PROVE  login_attempts'[v].count = Cardinality(Since(failures'[v], login_attempts'[v].window_start))
    BY DEF CountsAreTrue, FailuresSince, Since
  <2>1. CASE v = u
    BY <1>6, <1>7, <1>8, <2>1
  <2>2. CASE v # u
    <3>1. v \in DOMAIN login_attempts /\ v \in Names
      BY <1>7, <2>2 DEF LoginInv, LoginTypes
    <3> QED
      BY <1>7, <1>8, <2>2, <3>1 DEF LoginInv, CountsAreTrue, FailuresSince, Since
  <2> QED
    BY <2>1, <2>2
<1>11. FailuresNoted'
  <2> SUFFICES ASSUME NEW v \in Names, NEW i \in DOMAIN failures'[v], failures'[v][i] = now
               PROVE  v \in DOMAIN login_attempts' /\ ~Expired(login_attempts'[v], now)
    BY <1>1 DEF FailuresNoted, Expired
  <2>1. CASE v = u
    BY <1>6, <1>7, <2>1
  <2>2. CASE v # u
    <3>1. v \in DOMAIN login_attempts /\ ~Expired(login_attempts[v], now)
      BY <1>8, <2>2 DEF LoginInv, FailuresNoted
    <3> QED
      BY <1>7, <2>2, <3>1
  <2> QED
    BY <2>1, <2>2
<1>12. Margin'
  <2> SUFFICES ASSUME NEW v \in DOMAIN login_attempts'
               PROVE  login_attempts'[v].count + Cardinality(Pending(v)') < MaxAttempts + Cardinality(Logins)
    BY DEF Margin, Pending
  <2>1. CASE v = u
    BY <1>6, <1>7, <2>1, Zenon
  <2>2. CASE v # u
    <3>1. v \in DOMAIN login_attempts /\ login_attempts'[v] = login_attempts[v] /\ login_attempts[v].count \in Nat
      BY <1>2, <1>7, <2>2 DEF AttemptRecords
    <3>2. AtRest.pc \notin {"retain", "verify"}
      BY <1>3
    <3>3. Cardinality(Pending(v)') <= Cardinality(Pending(v))
      BY <1>1, <3>2, PendingMoves, Zenon
    <3>4. /\ Cardinality(Pending(v)) \in 0 .. Cardinality(Logins) /\ Cardinality(Logins) \in Nat
          /\ Cardinality(Pending(v)') \in 0 .. Cardinality(Logins)
      BY <1>1, PendingMoves, Zenon
    <3>5. login_attempts[v].count + Cardinality(Pending(v)) < MaxAttempts + Cardinality(Logins)
      BY <3>1 DEF LoginInv, Margin
    <3> QED
      BY <1>2, <3>1, <3>3, <3>4, <3>5
  <2> QED
    BY <2>1, <2>2
<1> QED
  BY <1>9, <1>10, <1>11, <1>12 DEF LoginInv

(* A success moves its login on; the attempts are cleared in a later step. *)
LEMMA SucceedKeepsLogins ==
  ASSUME LoginInv, NEW l \in Logins, Succeed(l)
  PROVE  LoginInv'
<1> DEFINE K == DOMAIN login_attempts
           n == [logins[l] EXCEPT !.pc = "clear"]
<1>1. logins[l].pc = "verify" /\ logins' = [logins EXCEPT ![l] = n] /\ UNCHANGED <<now, login_attempts, failures>>
  BY DEF Succeed
<1>2. logins[l] \in LoginRecords /\ logins[l].now <= now /\ logins[l].user \in Names
  BY <1>1 DEF LoginInv, LoginTypes
<1>3. n \in LoginRecords /\ n.pc = "clear" /\ n.user = logins[l].user /\ n.now = logins[l].now
  BY <1>2 DEF LoginRecords, LoginPcs
<1>4. failures' \in [Names -> Seq(Nat)] /\ failures' = failures /\ now' = now
  BY <1>1 DEF LoginInv, LoginTypes
<1>5. DOMAIN login_attempts' = K /\ \A u \in K : login_attempts'[u] = login_attempts[u]
  BY <1>1
<1>6. K \in SUBSET DOMAIN login_attempts /\ \A u \in DOMAIN login_attempts : u \in K
  OBVIOUS
<1> HIDE DEF K, n
<1> QED
  BY <1>1, <1>2, <1>3, <1>4, <1>5, <1>6, AttemptsDropped

(* When the clock moves on, no failure is of that second yet. *)
LEMMA ElapseKeepsLogins == LoginInv /\ Elapse => LoginInv'
<1> SUFFICES ASSUME LoginInv, Elapse PROVE LoginInv'
  OBVIOUS
<1>1. now' = now + 1 /\ UNCHANGED <<login_attempts, logins, failures>> /\ now \in Nat
  BY DEF Elapse, history, LoginInv, LoginTypes
<1>2. LoginTypes'
  <2>1. \A u \in DOMAIN login_attempts : login_attempts[u] \in AttemptRecords /\ login_attempts[u].window_start <= now + 1
    BY <1>1 DEF LoginInv, LoginTypes, AttemptRecords
  <2>2. \A l \in Logins : logins[l] \in LoginRecords /\ logins[l].now <= now + 1
    <3> SUFFICES ASSUME NEW l \in Logins PROVE logins[l] \in LoginRecords /\ logins[l].now <= now + 1
      OBVIOUS
    <3>1. logins[l] \in LoginRecords /\ logins[l].now <= now
      BY DEF LoginInv, LoginTypes
    <3>2. logins[l].now \in Nat
      BY <3>1 DEF LoginRecords
    <3> QED
      BY <1>1, <3>1, <3>2
  <2>3. \A l \in Logins : logins[l].pc # "idle" => logins[l].user \in Names
    BY DEF LoginInv, LoginTypes
  <2>4. \A u \in Names : \A i \in DOMAIN failures[u] : failures[u][i] <= now + 1
    BY <1>1 DEF LoginInv, LoginTypes
  <2>5. DOMAIN login_attempts \subseteq Names /\ DOMAIN logins = Logins /\ failures \in [Names -> Seq(Nat)] /\ now + 1 \in Nat
    BY <1>1 DEF LoginInv, LoginTypes
  <2> QED
    BY <1>1, <2>1, <2>2, <2>3, <2>4, <2>5, Zenon DEF LoginTypes
<1>3. CountsAreTrue' /\ Margin'
  BY <1>1 DEF LoginInv, CountsAreTrue, Margin, FailuresSince, Pending
<1>4. \A u \in Names : \A i \in DOMAIN failures[u] : failures[u][i] # now + 1
  BY <1>1 DEF LoginInv, LoginTypes
<1>5. FailuresNoted'
  BY <1>1, <1>4 DEF FailuresNoted
<1> QED
  BY <1>2, <1>3, <1>5 DEF LoginInv

(* Every step of the sessions keeps the invariant of the logins. *)
LEMMA LoginStep == LoginInv /\ SessionsNext => LoginInv'
<1> SUFFICES ASSUME LoginInv, SessionsNext PROVE LoginInv'
  OBVIOUS
<1>1. ASSUME UNCHANGED <<now, login_attempts, logins, failures>> PROVE LoginInv'
  BY <1>1 DEF LoginInv, LoginTypes, CountsAreTrue, FailuresNoted, Margin, FailuresSince, Pending, Expired
<1>2. ASSUME NEW t, Logout(t) PROVE LoginInv'
  BY <1>1, <1>2 DEF Logout
<1>3. CASE Cleanup
  BY <1>1, <1>3 DEF Cleanup, history
<1>4. CASE CleanupSkipped
  BY <1>1, <1>4 DEF CleanupSkipped, history
<1> QED
  BY <1>2, <1>3, <1>4, LoginCheckKeeps, RetainKeeps, SucceedKeepsLogins, ClearAttemptsKeeps, FailKeeps,
     ElapseKeepsLogins DEF SessionsNext

----------------------------------------------------------------------------
(***************************************************************************)
(* Sessions: the induction.                                                *)
(***************************************************************************)

(* The constants, one by one. *)
LEMMA Limits ==
  /\ Ttl \in Nat \ {0} /\ Capacity \in Nat \ {0} /\ Interval \in Nat \ {0}
  /\ MaxTokens \in Nat /\ MaxTime \in Nat
  BY SessionsAssumption

(* What skipped cleanups add up to. *)
LEMMA IntervalsAdd ==
  ASSUME NEW k \in Nat
  PROVE  /\ k * Interval \in Nat /\ 0 * Interval = 0
         /\ (k + 1) * Interval = k * Interval + Interval /\ (1 + k) * Interval = k * Interval + Interval
  BY Limits

(* Sessions only end: as long as they are of the same clock. *)
LEMMA SessionsEnded ==
  ASSUME SessInv, NEW K \in SUBSET DOMAIN sessions, sessions' = Restrict(sessions, K), UNCHANGED <<now, issued>>
  PROVE  /\ DOMAIN sessions' = K /\ \A t \in K : sessions'[t] = sessions[t]
         /\ IsFiniteSet(DOMAIN sessions) /\ SessionsBounded'
<1>1. DOMAIN sessions' = K /\ \A t \in K : sessions'[t] = sessions[t]
  BY DEF Restrict
<1>2. IsFiniteSet(1 .. issued)
  BY FS_Interval DEF SessInv, SessTypes
<1>3. IsFiniteSet(DOMAIN sessions)
  BY <1>2, FS_Subset DEF SessInv, SessTypes
<1>4. Cardinality(K) <= Cardinality(DOMAIN sessions) /\ Cardinality(K) \in Nat /\ Cardinality(DOMAIN sessions) \in Nat
  BY <1>3, FS_Subset, FS_CardinalityType
<1>5. Cardinality(DOMAIN sessions') <= Capacity + 1
  <2>1. Cardinality(DOMAIN sessions) <= Capacity + 1 /\ Capacity \in Nat
    BY Limits DEF SessInv, SessionsBounded
  <2>2. Cardinality(K) <= Capacity + 1
    BY <1>4, <2>1
  <2> QED
    BY <1>1, <2>2
<1> QED
  BY <1>1, <1>3, <1>5 DEF SessionsBounded

(* A login that succeeds adds one session to what the eviction left. *)
LEMMA SucceedKeeps ==
  ASSUME LoginInv, SessInv, NEW l \in Logins, Succeed(l)
  PROVE  SessInv'
<1> DEFINE D == DOMAIN sessions
           live == {t \in D : now - sessions[t].created_at < Ttl}
           excess == IF Cardinality(live) > Capacity THEN Cardinality(live) - Capacity ELSE 0
           r == [user |-> IF valid(l) THEN logins[l].user ELSE "admin", created_at |-> now]
<1>1. /\ issued < MaxTokens /\ issued' = issued + 1 /\ UNCHANGED <<now, cleaned, skips>>
      /\ \E left \in evict_expired_sessions(sessions) : sessions' = Inserted(left, issued', r)
  BY DEF Succeed
<1>2. PICK old \in SUBSET live : Cardinality(old) = excess /\ sessions' = Inserted(Restrict(sessions, live \ old), issued + 1, r)
  BY <1>1, Zenon DEF evict_expired_sessions
<1>3. IsFiniteSet(D)
  <2>1. IsFiniteSet(1 .. issued)
    BY FS_Interval DEF SessInv, SessTypes
  <2> QED
    BY <2>1, FS_Subset DEF SessInv, SessTypes
<1>4. live \subseteq D /\ IsFiniteSet(live) /\ Cardinality(live) \in Nat
  BY <1>3, FS_Subset, FS_CardinalityType, live \subseteq D
<1>5. Capacity \in Nat \ {0} /\ MaxTokens \in Nat /\ MaxTime \in Nat
  BY Limits
<1> HIDE DEF live
<1>6. IsFiniteSet(live \ old) /\ Cardinality(live \ old) <= Capacity /\ Cardinality(live \ old) \in Nat
  <2>1. live \cap old = old
    OBVIOUS
  <2>2. IsFiniteSet(live \ old) /\ Cardinality(live \ old) = Cardinality(live) - Cardinality(old)
    BY <1>4, <2>1, FS_Difference
  <2> QED
    BY <1>2, <1>4, <1>5, <2>2, FS_CardinalityType
<1>7. /\ DOMAIN sessions' = (live \ old) \cup {issued + 1} /\ sessions'[issued + 1] = r
      /\ \A t \in live \ old : t # issued + 1 => sessions'[t] = sessions[t]
  BY <1>2 DEF Inserted, Restrict
<1>8. r.user \in Users \cup {"admin"} /\ r.created_at = now
  BY DEF valid
<1> HIDE DEF r
<1>9. SessionsBounded'
  <2>1. Cardinality((live \ old) \cup {issued + 1}) <= Capacity + 1
    <3>1. Cardinality((live \ old) \cup {issued + 1}) =
            IF issued + 1 \in live \ old THEN Cardinality(live \ old) ELSE Cardinality(live \ old) + 1
      BY <1>6, FS_AddElement
    <3> QED
      BY <1>5, <1>6, <3>1
  <2> QED
    BY <1>7, <2>1 DEF SessionsBounded
<1>10. SessTypes'
  <2>1. DOMAIN sessions' \subseteq 1 .. issued + 1 /\ issued + 1 \in 0 .. MaxTokens
    BY <1>1, <1>4, <1>5, <1>7 DEF SessInv, SessTypes
  <2>2. \A t \in DOMAIN sessions' : sessions'[t].user \in Users \cup {"admin"} /\ sessions'[t].created_at \in 0 .. now
    BY <1>4, <1>7, <1>8 DEF SessInv, SessTypes
  <2> QED
    BY <1>1, <2>1, <2>2 DEF SessInv, SessTypes
<1>11. Ages'
  <2>1. /\ now \in Nat /\ cleaned \in Nat /\ cleaned <= now /\ skips * Interval \in Nat /\ Ttl \in Nat \ {0}
    <3>1. now \in Nat /\ cleaned \in Nat /\ cleaned <= now /\ skips \in Nat
      BY DEF SessInv, SessTypes
    <3> QED
      BY <3>1, IntervalsAdd, Limits
  <2>2. cleaned - now < Ttl + skips * Interval
    BY <2>1
  <2>3. \A t \in DOMAIN sessions' : cleaned - sessions'[t].created_at < Ttl + skips * Interval
    BY <1>4, <1>7, <1>8, <2>2 DEF SessInv, Ages
  <2> QED
    BY <1>1, <2>3 DEF SessInv, Ages
<1> QED
  BY <1>9, <1>10, <1>11 DEF SessInv

(* Every step of the sessions keeps their invariant. *)
LEMMA SessStep == LoginInv /\ SessInv /\ SessionsNext => SessInv'
<1> SUFFICES ASSUME LoginInv, SessInv, SessionsNext PROVE SessInv'
  OBVIOUS
<1>1. ASSUME UNCHANGED <<now, sessions, cleaned, skips, issued>> PROVE SessInv'
  BY <1>1 DEF SessInv, SessTypes, Ages, SessionsBounded
<1>2. ASSUME NEW l \in Logins, NEW u, NEW p, LoginCheck(l, u, p) PROVE SessInv'
  BY <1>1, <1>2 DEF LoginCheck, history
<1>3. ASSUME NEW l \in Logins, Retain(l) PROVE SessInv'
  BY <1>1, <1>3 DEF Retain, history
<1>4. ASSUME NEW l \in Logins, ClearAttempts(l) PROVE SessInv'
  BY <1>1, <1>4 DEF ClearAttempts
<1>5. ASSUME NEW l \in Logins, Fail(l) PROVE SessInv'
  BY <1>1, <1>5 DEF Fail
<1>6. ASSUME NEW t, Logout(t) PROVE SessInv'
  <2> DEFINE K == DOMAIN sessions \ {t}
  <2>1. sessions' = Restrict(sessions, K) /\ UNCHANGED <<now, cleaned, skips, issued>>
    BY <1>6 DEF Logout
  <2>2. /\ DOMAIN sessions' = K /\ \A s \in K : sessions'[s] = sessions[s]
        /\ SessionsBounded' /\ K \subseteq DOMAIN sessions
    BY <2>1, SessionsEnded
  <2> HIDE DEF K
  <2>3. SessTypes' /\ Ages'
    BY <2>1, <2>2 DEF SessInv, SessTypes, Ages
  <2> QED
    BY <2>2, <2>3 DEF SessInv
<1>7. CASE Cleanup
  <2> DEFINE K == {t \in DOMAIN sessions : now - sessions[t].created_at < Ttl}
  <2>1. sessions' = Restrict(sessions, K) /\ cleaned' = now /\ skips' = 0 /\ UNCHANGED <<now, issued>>
    BY <1>7 DEF Cleanup, history
  <2>2. /\ DOMAIN sessions' = K /\ \A s \in K : sessions'[s] = sessions[s]
        /\ SessionsBounded' /\ K \subseteq DOMAIN sessions
    BY <2>1, SessionsEnded
  <2>3. \A s \in K : now - sessions[s].created_at < Ttl
    OBVIOUS
  <2> HIDE DEF K
  <2>4. now \in 0 .. MaxTime /\ now \in 0 .. now /\ now - now <= Interval /\ Ttl + 0 * Interval = Ttl
    BY IntervalsAdd, Limits DEF SessInv, SessTypes
  <2>5. Ages'
    BY <2>1, <2>2, <2>3, <2>4 DEF Ages
  <2>6. SessTypes'
    BY <2>1, <2>2, <2>4 DEF SessInv, SessTypes
  <2> QED
    BY <2>2, <2>5, <2>6 DEF SessInv
<1>8. CASE CleanupSkipped
  <2>1. UNCHANGED <<now, sessions, issued>> /\ cleaned' = now /\ skips' = skips + 1
    BY <1>8 DEF CleanupSkipped, history
  <2>2. now \in Nat /\ cleaned \in Nat /\ skips \in Nat /\ now \in 0 .. now
    BY DEF SessInv, SessTypes
  <2>3. /\ Interval \in Nat /\ Ttl \in Nat /\ skips * Interval \in Nat
        /\ (skips + 1) * Interval = skips * Interval + Interval
    BY <2>2, IntervalsAdd, Limits
  <2>4. ASSUME NEW t \in DOMAIN sessions PROVE now - sessions[t].created_at < Ttl + (skips + 1) * Interval
    <3>1. sessions[t].created_at \in Nat /\ cleaned - sessions[t].created_at < Ttl + skips * Interval /\ now - cleaned <= Interval
      BY DEF SessInv, SessTypes, Ages
    <3> HIDE DEF SessInv
    <3> QED
      BY <2>2, <2>3, <3>1
  <2>5. now - now <= Interval
    BY <2>2, <2>3
  <2>6. Ages'
    BY <2>1, <2>4, <2>5 DEF Ages
  <2>7. SessTypes' /\ SessionsBounded'
    BY <2>1, <2>2 DEF SessInv, SessTypes, SessionsBounded
  <2> QED
    BY <2>6, <2>7 DEF SessInv
<1>9. CASE Elapse
  <2>1. now' = now + 1 /\ now < MaxTime /\ now - cleaned < Interval /\ UNCHANGED <<sessions, cleaned, skips, issued>>
    <3>1. Interval \in Nat /\ now \in Nat /\ cleaned \in Nat
      BY Limits DEF SessInv, SessTypes
    <3> QED
      BY <1>9, <3>1 DEF Elapse, Due, history
  <2>2. Ages' /\ SessionsBounded'
    BY <2>1, Limits DEF SessInv, SessTypes, Ages, SessionsBounded
  <2>3. SessTypes'
    BY <2>1, Limits DEF SessInv, SessTypes
  <2> QED
    BY <2>2, <2>3 DEF SessInv
<1> QED
  BY <1>2, <1>3, <1>4, <1>5, <1>6, <1>7, <1>8, <1>9, SucceedKeeps DEF SessionsNext

(* There are no sessions at the start. *)
LEMMA SessStart == SessionsInit => SessInv
<1> SUFFICES ASSUME SessionsInit PROVE SessInv
  OBVIOUS
<1>1. now = 0 /\ cleaned = 0 /\ skips = 0 /\ issued = 0 /\ DOMAIN sessions = {}
  BY DEF SessionsInit
<1>2. SessTypes
  BY <1>1, Limits DEF SessTypes
<1>3. Ages
  BY <1>1, Limits DEF Ages
<1>4. SessionsBounded
  BY <1>1, Limits, FS_EmptySet DEF SessionsBounded
<1> QED
  BY <1>2, <1>3, <1>4 DEF SessInv

(* What the invariants say of logins and sessions. *)
LEMMA SessImplied == LoginInv /\ SessInv => LoginsAreBounded
<1> SUFFICES ASSUME LoginInv, SessInv PROVE LoginsAreBounded
  OBVIOUS
<1>1. SessionsTypeOK
  <2>1. /\ now \in 0 .. MaxTime /\ cleaned \in 0 .. MaxTime /\ skips \in Nat /\ DOMAIN sessions \subseteq 1 .. MaxTokens
        /\ \A t \in DOMAIN sessions : sessions[t].user \in Users \cup {"admin"} /\ sessions[t].created_at \in 0 .. MaxTime
    BY Limits DEF SessInv, SessTypes
  <2>2. \A u \in DOMAIN login_attempts : login_attempts[u].count \in Nat /\ login_attempts[u].window_start \in 0 .. MaxTime
    <3> SUFFICES ASSUME NEW u \in DOMAIN login_attempts
                 PROVE  login_attempts[u].count \in Nat /\ login_attempts[u].window_start \in 0 .. MaxTime
      OBVIOUS
    <3>1. login_attempts[u] \in AttemptRecords /\ login_attempts[u].window_start <= now
      BY DEF LoginInv, LoginTypes
    <3>2. login_attempts[u].count \in Nat /\ login_attempts[u].window_start \in Nat
      BY <3>1 DEF AttemptRecords
    <3> QED
      BY <2>1, <3>1, <3>2, Limits
  <2>3. \A l \in Logins : logins[l].pc \in {"idle", "retain", "verify", "clear"}
    BY DEF LoginInv, LoginTypes, LoginRecords, LoginPcs
  <2>4. DOMAIN login_attempts \subseteq Names
    BY DEF LoginInv, LoginTypes
  <2> QED
    BY <2>1, <2>2, <2>3, <2>4 DEF SessionsTypeOK
<1>2. AttemptsBounded
  <2> SUFFICES ASSUME NEW u \in DOMAIN login_attempts
               PROVE  FailuresSince(u, login_attempts[u].window_start) < MaxAttempts + Cardinality(Logins)
    BY DEF AttemptsBounded
  <2>1. /\ login_attempts[u].count = FailuresSince(u, login_attempts[u].window_start)
        /\ login_attempts[u].count + Cardinality(Pending(u)) < MaxAttempts + Cardinality(Logins)
    BY DEF LoginInv, CountsAreTrue, Margin
  <2>2. login_attempts[u].count \in Nat /\ MaxAttempts \in Nat
    BY SessionsAssumption DEF LoginInv, LoginTypes, AttemptRecords
  <2>3. Pending(u) \subseteq Logins /\ IsFiniteSet(Logins)
    BY SessionsAssumption DEF Pending
  <2>4. Cardinality(Pending(u)) \in Nat /\ Cardinality(Logins) \in Nat
    BY <2>3, FS_Subset, FS_CardinalityType
  <2> QED
    BY <2>1, <2>2, <2>4
<1>3. RefusedForCause
  <2> SUFFICES ASSUME NEW u \in Names, rate_limited(u)
               PROVE  FailuresSince(u, now - Window + 1) >= MaxAttempts
    BY DEF RefusedForCause
  <2> DEFINE e == login_attempts[u]
             w == e.window_start
  <2>1. MaxAttempts \in Nat \ {0} /\ Window \in Nat \ {0} /\ now \in Nat /\ failures[u] \in Seq(Nat)
    BY SessionsAssumption DEF LoginInv, LoginTypes
  <2>2. u \in DOMAIN login_attempts /\ ~Expired(e, now) /\ e.count >= MaxAttempts
    <3>1. CASE u \in DOMAIN login_attempts /\ ~Expired(e, now)
      BY <3>1 DEF rate_limited, Checked
    <3>2. CASE ~(u \in DOMAIN login_attempts /\ ~Expired(e, now))
      <4>1. Checked(u).count = 0
        BY <3>2 DEF Checked
      <4> QED
        BY <2>1, <4>1 DEF rate_limited
    <3> QED
      BY <3>1, <3>2
  <2>3. e \in AttemptRecords /\ e.count = Cardinality(Since(failures[u], w))
    BY <2>2 DEF LoginInv, LoginTypes, CountsAreTrue, FailuresSince, Since
  <2>4. w \in Nat /\ e.count \in Nat
    BY <2>3 DEF AttemptRecords
  <2>5. now - Window + 1 <= w /\ now - Window + 1 \in Int
    BY <2>1, <2>2, <2>4 DEF Expired
  <2> HIDE DEF w, e
  <2>6. Cardinality(Since(failures[u], w)) <= Cardinality(Since(failures[u], now - Window + 1))
        /\ Cardinality(Since(failures[u], now - Window + 1)) \in Nat
    BY <2>1, <2>4, <2>5, SinceEarlier, SinceCounts
  <2>7. FailuresSince(u, now - Window + 1) = Cardinality(Since(failures[u], now - Window + 1))
    BY DEF FailuresSince, Since
  <2> QED
    BY <2>1, <2>2, <2>3, <2>4, <2>6, <2>7
<1>4. SessionsEnd
  <2> SUFFICES ASSUME NEW t \in 1 .. MaxTokens, NEW place \in {"header", "query"}, NEW method \in {"GET", "PUT"},
                      admin_auth_middleware(t, place, method)
               PROVE  now - sessions[t].created_at < Ttl + (1 + skips) * Interval
    BY DEF SessionsEnd
  <2>1. t \in DOMAIN sessions
    BY DEF admin_auth_middleware
  <2>2. /\ now \in Nat /\ cleaned \in Nat /\ skips \in Nat /\ sessions[t].created_at \in Nat
        /\ now - cleaned <= Interval /\ cleaned - sessions[t].created_at < Ttl + skips * Interval
    BY <2>1 DEF SessInv, SessTypes, Ages
  <2>3. skips * Interval \in Nat /\ (1 + skips) * Interval = skips * Interval + Interval
    BY <2>2, IntervalsAdd
  <2> QED
    BY <2>2, <2>3, Limits
<1> QED
  BY <1>1, <1>2, <1>3, <1>4 DEF LoginsAreBounded, SessInv

----------------------------------------------------------------------------
(***************************************************************************)
(* The admin API.                                                          *)
(***************************************************************************)

(* The state of each part of the admin API (AdminState of api.rs) keeps    *)
(* its invariant, whichever part moves.                                    *)
THEOREM Invariance == Spec => []IInv
<1>1. Init => IInv
  BY LoginStart, SessStart, RingStart, StreamStart DEF Init, AdminState, IInv
<1>2. IInv /\ [Next]_vars => IInv'
  <2> SUFFICES ASSUME IInv, [Next]_vars PROVE IInv'
    OBVIOUS
  <2>1. ASSUME UNCHANGED sessionVars PROVE LoginInv' /\ SessInv'
    <3>1. UNCHANGED <<now, sessions, login_attempts, logins, cleaned, skips, issued, failures>>
      BY <2>1 DEF sessionVars, history
    <3>2. LoginInv'
      BY <3>1 DEF IInv, LoginInv, LoginTypes, CountsAreTrue, FailuresNoted, Margin, FailuresSince, Pending, Expired
    <3>3. SessInv'
      BY <3>1 DEF IInv, SessInv, SessTypes, Ages, SessionsBounded
    <3> QED
      BY <3>2, <3>3
  <2>2. ASSUME UNCHANGED ringVars PROVE RingInv'
    BY <2>2 DEF IInv, ringVars, RingInv, RingTypes, RingIsRecent, NothingMissed, Back
  <2>3. ASSUME UNCHANGED streamVars PROVE StreamInv'
    BY <2>3 DEF IInv, streamVars, StreamInv, StreamTypes, FeederKnown
  <2>4. CASE SessionsNext /\ UNCHANGED <<ringVars, streamVars>>
    BY <2>2, <2>3, <2>4, LoginStep, SessStep DEF IInv
  <2>5. CASE LogsNext /\ UNCHANGED <<sessionVars, streamVars>>
    BY <2>1, <2>3, <2>5, RingStep DEF IInv
  <2>6. CASE StreamNext /\ UNCHANGED <<sessionVars, ringVars>>
    BY <2>1, <2>2, <2>6, StreamStep DEF IInv
  <2>7. CASE UNCHANGED vars
    BY <2>1, <2>2, <2>3, <2>7 DEF vars, IInv
  <2> QED
    BY <2>4, <2>5, <2>6, <2>7 DEF Next
<1> QED
  BY <1>1, <1>2, PTL DEF Spec

(* However many logins overlap, a user's failures in one window stay below *)
(* the limit plus the logins in progress, nobody is refused without as     *)
(* many failures in the window, no more sessions are kept than the         *)
(* capacity and one, and none is accepted longer than its lifetime and the *)
(* cleanups it missed (login_handler, admin_auth_middleware and            *)
(* SessionCleanupBackground::run of auth.rs).                              *)
THEOREM LoginsBounded == Spec => []LoginsAreBounded
<1>1. IInv => LoginsAreBounded
  BY SessImplied DEF IInv
<1> QED
  BY <1>1, Invariance, PTL

(* For any capacities of the ring and the channel, and any number of       *)
(* threads that log, recent returns exactly the newest entries that pass   *)
(* its filters, and a client that subscribes and then reads the ring       *)
(* misses nothing but what it was told it skipped (LogBuffer::push and     *)
(* recent of logs.rs).                                                     *)
THEOREM LogComplete == Spec => []LogIsComplete
<1>1. IInv => LogIsComplete
  BY RingImplied DEF IInv
<1> QED
  BY <1>1, Invariance, PTL

(* For any number of dashboards, exactly one task feeds the metrics while  *)
(* there is a channel and none when there is not, and no client listens to *)
(* a channel that was removed (metrics_stream_handler and its task): the   *)
(* safety that StreamFollowsClients asks for.                              *)
THEOREM FeederIsOne == Spec => [](StreamTypeOK /\ OneFeeder)
<1>1. IInv => StreamTypeOK /\ OneFeeder
  BY StreamImplied DEF IInv
<1> QED
  BY <1>1, Invariance, PTL
=============================================================================
