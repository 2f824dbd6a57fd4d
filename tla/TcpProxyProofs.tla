--------------------------- MODULE TcpProxyProofs ---------------------------
(***************************************************************************)
(* Proofs about the TCP proxy, for any set of ports, route tables and      *)
(* tasks, any finite set of connections, and any limit of connections.     *)
(***************************************************************************)
EXTENDS TcpProxy, FiniteSetTheorems, TLAPS

----------------------------------------------------------------------------
(***************************************************************************)
(* The inductive invariant.  What a connection has read off its client is  *)
(* determined by the step it is in, so that what it sends on can be        *)
(* compared with it; a guard is held exactly past the limit check.  The    *)
(* service has no handle and no task before it starts.                     *)
(***************************************************************************)
Kinds == {"disabled", "tcp", "tcp+sni", "https+tcp+sni", "tcp-dynamic"}
TaskSteps == {"none", "bind", "sleep", "accept", "done"}
ConnSteps == {"none", "head", "hello", "route", "slot", "connect", "fallback", "copy"}

TaskRecord == [pc : TaskSteps, port : Ports \cup {None}, stop : BOOLEAN, backoff : 1 .. MaxBackoff]
ConnRecord == [pc : ConnSteps, port : Ports \cup {None}, hello : Hellos \cup {None}, consumed : Nat,
               sent : Seq(Nat), to : Targets \cup {None}, guard : BOOLEAN]

StateInv ==
    /\ mode \in [kind : Kinds, port : Ports \cup {None}]
    /\ mode.kind \notin {"disabled", "tcp-dynamic"} => mode.port \in Ports
    /\ phase \in {"init", "running", "stopping", "returned"}
    /\ table \in Tables /\ taken \subseteq Ports
    /\ listeners \in [Ports -> Tasks \cup {None}]
    /\ tasks \in [Tasks -> TaskRecord]
    /\ conns \in [Conns -> ConnRecord]
    /\ slots \in [Targets -> Nat]

TasksInv ==
    /\ \A t \in Tasks : tasks[t].pc # "none" => tasks[t].port \in Ports
    /\ phase = "init" => /\ \A p \in Ports : listeners[p] = None
                         /\ \A t \in Tasks : tasks[t] = NoTask
    /\ HandlesMatchTasks

(* What a connection has taken off its client when it is routed. *)
LookedAt(k) ==
    LET Size == client_hello_buffer_size(Shape[k.hello])
    IN IF Plain THEN 0 ELSE IF Size = 0 THEN 9 ELSE Size

(* What goes to the other side before the copying. *)
Ahead(k) ==
    (IF k.to \in Proxied THEN <<0>> ELSE << >>)
        \o (IF LookedAt(k) > 0 THEN <<LookedAt(k)>> ELSE << >>)

Fits(k) ==
    /\ k.pc # "none" => k.port \in Ports /\ (Plain <=> k.hello = None)
    /\ k.pc \in {"head", "hello"} => ~Plain
    /\ k.pc = "hello" => client_hello_buffer_size(Shape[k.hello]) > 0
    /\ k.pc \in {"route", "slot", "connect", "fallback"} => k.consumed = LookedAt(k)
    /\ k.pc = "slot" => k.to \in Targets
    /\ k.guard => k.pc \in {"connect", "copy"} /\ k.to \in Targets
    /\ k.pc = "copy" => k.sent = Ahead(k)

ConnsInv == \A c \in Conns : Fits(conns[c])

WithinLimit == \A t \in Targets : MaxConnections > 0 => slots[t] <= MaxConnections

TcpInv == StateInv /\ TasksInv /\ ConnsInv /\ WithinLimit /\ SlotsMatchConnections

----------------------------------------------------------------------------
(* Lemmas on the operators. *)

\* The assumptions on the constants that the proofs use.
LEMMA Constants ==
  /\ MaxConnections \in Nat /\ MaxBackoff \in Nat /\ MaxBackoff # 0
  /\ IsFiniteSet(Conns) /\ None \notin Tasks
  /\ \A h \in Hellos : /\ Shape[h].content \in Nat /\ Shape[h].record \in Nat
                      /\ Shape[h].type \in Nat /\ Shape[h].handshake \in Nat
  BY TcpAssumption, Zenon

\* The size of a client hello is a natural.
LEMMA SizeOfShape ==
  ASSUME NEW s, s.handshake \in Nat, s.record \in Nat, s.type \in Nat, s.content \in Nat
  PROVE  client_hello_buffer_size(s) \in Nat
  BY SMT DEF client_hello_buffer_size

LEMMA SizeIsNat ==
  ASSUME NEW h \in Hellos
  PROVE  client_hello_buffer_size(Shape[h]) \in Nat
  BY Constants, SizeOfShape

\* Every mode the service resolves to is known, and one with a listener has
\* its port.
LEMMA ModeIsKnown ==
  ASSUME NEW setting, NEW listen
  PROVE  /\ ServiceMode(setting, listen) \in [kind : Kinds, port : Ports \cup {None}]
         /\ ServiceMode(setting, listen).kind \notin {"disabled", "tcp-dynamic"} =>
                ServiceMode(setting, listen).port \in Ports
  BY DEF ServiceMode, resolve_tcp_mode, Kinds

\* Records of tasks and connections that do not exist.
LEMMA Nothing == NoTask \in TaskRecord /\ NoConn \in ConnRecord
<1>1. NoTask \in TaskRecord
  BY Constants DEF NoTask, TaskRecord, TaskSteps
<1>2. NoConn \in ConnRecord
  BY DEF NoConn, ConnRecord, ConnSteps
<1> QED
  BY <1>1, <1>2

\* The backoff stays between one second and its cap.
LEMMA BackoffInRange ==
  ASSUME NEW b \in 1 .. MaxBackoff
  PROVE  Twice(b) \in 1 .. MaxBackoff
  BY Constants DEF Twice

\* The targets of a connection that is to be routed are targets.
LEMMA CandidatesAreTargets ==
  ASSUME StateInv, NEW c \in Conns, conns[c].port \in Ports
  PROVE  Candidates(c) \subseteq Targets
<1>1. CASE Plain
  BY <1>1 DEF Candidates, Targets, StateInv
<1>2. CASE ~Plain
  <2> DEFINE name == read_server_name(Shape[conns[c].hello])
  <2>1. CASE name \in DOMAIN SniRoutes[table]
    <3>1. SniRoutes[table][name] \in UNION {{SniRoutes[t][n] : n \in DOMAIN SniRoutes[t]} : t \in Tables}
      BY <2>1 DEF StateInv
    <3>2. SniRoutes[table][name] \subseteq Targets
      BY <3>1 DEF Targets
    <3> QED
      BY <1>2, <2>1, <3>2 DEF Candidates
  <2>2. CASE name \notin DOMAIN SniRoutes[table]
    BY <1>2, <2>2 DEF Candidates
  <2> QED
    BY <2>1, <2>2
<1> QED
  BY <1>1, <1>2

----------------------------------------------------------------------------
(* The initial states. *)

\* The invariant holds before the service starts.
LEMMA TcpInvInit == Init => TcpInv
<1> SUFFICES ASSUME Init PROVE TcpInv
  OBVIOUS
<1>1. StateInv
  <2>1. /\ mode \in [kind : Kinds, port : Ports \cup {None}]
        /\ mode.kind \notin {"disabled", "tcp-dynamic"} => mode.port \in Ports
    BY ModeIsKnown DEF Init
  <2>2. tasks \in [Tasks -> TaskRecord] /\ conns \in [Conns -> ConnRecord]
    BY Nothing DEF Init
  <2> QED
    BY <2>1, <2>2 DEF Init, StateInv
<1>2. TasksInv
  BY DEF Init, TasksInv, HandlesMatchTasks, NoTask
<1>3. ConnsInv
  BY DEF Init, ConnsInv, Fits, NoConn
<1>4. WithinLimit
  BY Constants DEF Init, WithinLimit
<1>5. SlotsMatchConnections
  <2> SUFFICES ASSUME NEW t \in Targets
               PROVE  slots[t] = Cardinality({c \in Conns : conns[c].guard /\ conns[c].to = t})
    BY DEF SlotsMatchConnections
  <2>1. {c \in Conns : conns[c].guard /\ conns[c].to = t} = {}
    BY DEF Init, NoConn
  <2> QED
    BY <2>1, FS_EmptySet DEF Init
<1> QED
  BY <1>1, <1>2, <1>3, <1>4, <1>5 DEF TcpInv

----------------------------------------------------------------------------
(* Connections.  Every step of a connection replaces one record. *)

\* The mode is settled at the start.
LEMMA ModeIsFixed == [Next]_vars => mode' = mode /\ (Plain' <=> Plain)
  BY DEF Next, vars, service, ChangeRoutes, Release, StopListener, Await, start, Refresh, Shutdown,
         Return, Bind, Wake, StopAccepting, Accept, ReadHead, ReadHello, ReadFails, Lookup, Acquire,
         Connect, Close, Plain

\* A record that fits, put in the place of one connection, keeps the types
\* and the steps of all connections.
LEMMA OneConnection ==
  ASSUME StateInv, ConnsInv, NEW c \in Conns, NEW k \in ConnRecord, Fits(k),
         mode' = mode, conns' = [conns EXCEPT ![c] = k]
  PROVE  conns' \in [Conns -> ConnRecord] /\ ConnsInv'
<1>1. conns' \in [Conns -> ConnRecord]
  BY DEF StateInv
<1>2. ASSUME NEW d \in Conns PROVE conns'[d] = IF d = c THEN k ELSE conns[d]
  BY DEF StateInv
<1>3. ASSUME NEW d \in Conns PROVE Fits(conns'[d])
  BY <1>2, <1>3 DEF ConnsInv
<1>4. ASSUME NEW d \in Conns PROVE Fits(conns[d])'
  BY <1>3, <1>4 DEF Fits, LookedAt, Ahead, Plain
<1> QED
  BY <1>1, <1>4 DEF ConnsInv

\* The record of a closed connection fits.
LEMMA NoConnFits == Fits(NoConn)
  BY DEF Fits, NoConn

\* A connection that closes.
LEMMA OneClosed ==
  ASSUME StateInv, ConnsInv, NEW c \in Conns, mode' = mode, conns' = Closed(c)
  PROVE  conns' \in [Conns -> ConnRecord] /\ ConnsInv'
  BY OneConnection, Nothing, NoConnFits DEF Closed

\* A connection that is accepted has been read nothing of.
LEMMA AcceptStep ==
  ASSUME StateInv, ConnsInv, TasksInv, NEW t \in Tasks, NEW h \in Hellos \cup {None}, Accept(t, h), mode' = mode
  PROVE  conns' \in [Conns -> ConnRecord] /\ ConnsInv'
<1> DEFINE c == CHOOSE d \in Conns : conns[d].pc = "none"
           step == IF Plain THEN "route" ELSE "head"
           k == [NoConn EXCEPT !.pc = step, !.port = tasks[t].port, !.hello = h]
<1>1. c \in Conns
  BY DEF Accept
<1>2. conns' = [conns EXCEPT ![c] = k]
  BY DEF Accept
<1>3. tasks[t].port \in Ports
  BY DEF Accept, TasksInv
<1> HIDE DEF step
<1>4. step \in ConnSteps
  BY DEF ConnSteps, step
<1>5. k \in ConnRecord /\ k.pc = step /\ k.port = tasks[t].port /\ k.hello = h
      /\ k.consumed = NoConn.consumed /\ k.guard = NoConn.guard
  BY <1>3, <1>4, Nothing DEF ConnRecord
<1>6. NoConn.consumed = 0 /\ ~NoConn.guard
  BY DEF NoConn
<1> HIDE DEF c, k
<1>7. Fits(k)
  BY <1>3, <1>5, <1>6 DEF Fits, Accept, LookedAt, step
<1> QED
  BY <1>1, <1>2, <1>5, <1>7, OneConnection

\* The first nine bytes: a hello, or the fallback that gets them.
LEMMA ReadHeadStep ==
  ASSUME StateInv, ConnsInv, NEW c \in Conns, ReadHead(c), mode' = mode
  PROVE  conns' \in [Conns -> ConnRecord] /\ ConnsInv'
<1> DEFINE Size == client_hello_buffer_size(Shape[conns[c].hello])
           k == [conns[c] EXCEPT !.pc = "hello", !.consumed = 9]
           l == [conns[c] EXCEPT !.pc = "fallback", !.consumed = 9]
<1>1. conns[c] \in ConnRecord /\ Fits(conns[c]) /\ conns[c].pc = "head"
  BY DEF StateInv, ConnsInv, ReadHead
<1>2. ~Plain /\ conns[c].hello \in Hellos
  BY <1>1 DEF Fits, ConnRecord
<1>3. Size \in Nat
  BY <1>2, SizeIsNat
<1>4. k \in ConnRecord /\ l \in ConnRecord
  BY <1>1 DEF ConnRecord, ConnSteps
<1>5. CASE Size > 0
  <2>1. conns' = [conns EXCEPT ![c] = k]
    BY <1>5 DEF ReadHead, StateInv
  <2>2. Fits(k)
    BY <1>1, <1>2, <1>5 DEF Fits, ConnRecord
  <2> QED
    BY <1>4, <2>1, <2>2, OneConnection
<1>6. CASE ~(Size > 0) /\ mode.kind = "tcp+sni"
  BY <1>6, OneClosed DEF ReadHead
<1>7. CASE ~(Size > 0) /\ mode.kind # "tcp+sni"
  <2>1. conns' = [conns EXCEPT ![c] = l]
    BY <1>7 DEF ReadHead, StateInv
  <2>2. Size = 0 /\ l.hello = conns[c].hello
    BY <1>1, <1>3, <1>7 DEF ConnRecord
  <2>3. LookedAt(l) = 9
    BY <1>2, <2>2 DEF LookedAt
  <2>4. Fits(l)
    BY <1>1, <1>2, <2>3 DEF Fits, ConnRecord
  <2> QED
    BY <1>4, <2>1, <2>4, OneConnection
<1> QED
  BY <1>5, <1>6, <1>7

\* The whole hello.
LEMMA ReadHelloStep ==
  ASSUME StateInv, ConnsInv, NEW c \in Conns, ReadHello(c), mode' = mode
  PROVE  conns' \in [Conns -> ConnRecord] /\ ConnsInv'
<1> DEFINE Size == client_hello_buffer_size(Shape[conns[c].hello])
           k == [conns[c] EXCEPT !.pc = "route", !.consumed = Size]
<1>1. conns[c] \in ConnRecord /\ Fits(conns[c]) /\ conns[c].pc = "hello"
  BY DEF StateInv, ConnsInv, ReadHello
<1>2. ~Plain /\ conns[c].hello \in Hellos /\ Size > 0
  BY <1>1 DEF Fits, ConnRecord
<1>3. Size \in Nat
  BY <1>2, SizeIsNat
<1>4. k \in ConnRecord
  BY <1>1, <1>3 DEF ConnRecord, ConnSteps
<1>5. conns' = [conns EXCEPT ![c] = k]
  BY DEF ReadHello, StateInv
<1>6. LookedAt(k) = Size
  BY <1>1, <1>2, <1>3 DEF LookedAt, ConnRecord
<1>7. Fits(k)
  BY <1>1, <1>2, <1>6 DEF Fits, ConnRecord
<1> QED
  BY <1>4, <1>5, <1>7, OneConnection

\* A target of the route, or the fallback.
LEMMA LookupStep ==
  ASSUME StateInv, ConnsInv, NEW c \in Conns, Lookup(c), mode' = mode
  PROVE  conns' \in [Conns -> ConnRecord] /\ ConnsInv'
<1>1. conns[c] \in ConnRecord /\ Fits(conns[c]) /\ conns[c].pc = "route" /\ conns[c].port \in Ports
  BY DEF StateInv, ConnsInv, Lookup, Fits
<1>2. CASE Candidates(c) = {} /\ mode.kind = "https+tcp+sni"
  <2> DEFINE k == [conns[c] EXCEPT !.pc = "fallback"]
  <2>1. conns' = [conns EXCEPT ![c] = k]
    BY <1>2 DEF Lookup, StateInv
  <2>2. k \in ConnRecord
    BY <1>1 DEF ConnRecord, ConnSteps
  <2>3. Fits(k)
    BY <1>1 DEF Fits, ConnRecord, LookedAt
  <2> QED
    BY <2>1, <2>2, <2>3, OneConnection
<1>3. CASE Candidates(c) = {} /\ mode.kind # "https+tcp+sni"
  BY <1>3, OneClosed DEF Lookup
<1>4. CASE Candidates(c) # {}
  <2>1. PICK t \in Candidates(c) : conns' = [conns EXCEPT ![c].pc = "slot", ![c].to = t]
    BY <1>4 DEF Lookup
  <2>2. t \in Targets
    BY <1>1, CandidatesAreTargets
  <2> DEFINE k == [conns[c] EXCEPT !.pc = "slot", !.to = t]
  <2>3. conns' = [conns EXCEPT ![c] = k]
    BY <2>1 DEF StateInv
  <2>4. k \in ConnRecord
    BY <1>1, <2>2 DEF ConnRecord, ConnSteps
  <2>5. Fits(k)
    BY <1>1, <2>2 DEF Fits, ConnRecord, LookedAt
  <2> QED
    BY <2>3, <2>4, <2>5, OneConnection
<1> QED
  BY <1>2, <1>3, <1>4

\* A slot, with its guard, or the end of the connection.
LEMMA AcquireStep ==
  ASSUME StateInv, ConnsInv, NEW c \in Conns, Acquire(c), mode' = mode
  PROVE  conns' \in [Conns -> ConnRecord] /\ ConnsInv'
<1> DEFINE k == [conns[c] EXCEPT !.pc = "connect", !.guard = TRUE]
<1>1. conns[c] \in ConnRecord /\ Fits(conns[c]) /\ conns[c].pc = "slot"
  BY DEF StateInv, ConnsInv, Acquire
<1>2. CASE conns' = Closed(c)
  BY <1>2, OneClosed
<1>3. CASE conns' = [conns EXCEPT ![c].pc = "connect", ![c].guard = TRUE]
  <2>1. conns' = [conns EXCEPT ![c] = k]
    BY <1>3 DEF StateInv
  <2>2. k \in ConnRecord
    BY <1>1 DEF ConnRecord, ConnSteps
  <2>3. Fits(k)
    BY <1>1 DEF Fits, ConnRecord, LookedAt
  <2> QED
    BY <2>1, <2>2, <2>3, OneConnection
<1> QED
  BY <1>2, <1>3 DEF Acquire

\* What is sent ahead is what was taken off the client.
LEMMA ConnectStep ==
  ASSUME StateInv, ConnsInv, NEW c \in Conns, Connect(c), mode' = mode
  PROVE  conns' \in [Conns -> ConnRecord] /\ ConnsInv'
<1> DEFINE sends == (IF conns[c].to \in Proxied THEN <<0>> ELSE << >>)
                    \o (IF conns[c].consumed > 0 THEN <<conns[c].consumed>> ELSE << >>)
           k == [conns[c] EXCEPT !.pc = "copy", !.sent = sends]
<1>1. conns[c] \in ConnRecord /\ Fits(conns[c]) /\ conns[c].pc \in {"connect", "fallback"}
  BY DEF StateInv, ConnsInv, Connect
<1>2. CASE conns' = Closed(c)
  BY <1>2, OneClosed
<1>3. CASE conns' = [conns EXCEPT ![c].pc = "copy", ![c].sent = sends]
  <2>1. conns' = [conns EXCEPT ![c] = k]
    BY <1>3 DEF StateInv
  <2>2. conns[c].consumed \in Nat /\ conns[c].consumed = LookedAt(conns[c])
    BY <1>1 DEF ConnRecord, Fits
  <2>3. sends \in Seq(Nat)
    <3>1. (IF conns[c].to \in Proxied THEN <<0>> ELSE << >>) \in Seq(Nat)
      OBVIOUS
    <3>2. (IF conns[c].consumed > 0 THEN <<conns[c].consumed>> ELSE << >>) \in Seq(Nat)
      BY <2>2
    <3> QED
      BY <3>1, <3>2
  <2>4. k.pc = "copy" /\ k.sent = sends /\ k.to = conns[c].to /\ k.hello = conns[c].hello
        /\ k.port = conns[c].port /\ k.guard = conns[c].guard
    BY <1>1 DEF ConnRecord
  <2>5. k \in ConnRecord
    BY <1>1, <2>3 DEF ConnRecord, ConnSteps
  <2>6. LookedAt(k) = LookedAt(conns[c])
    BY <2>4 DEF LookedAt
  <2>7. sends = Ahead(k)
    BY <2>2, <2>4, <2>6 DEF Ahead
  <2> HIDE DEF k, sends
  <2>8. Fits(k)
    BY <1>1, <2>4, <2>7 DEF Fits
  <2> QED
    BY <2>1, <2>5, <2>8, OneConnection
<1> QED
  BY <1>2, <1>3 DEF Connect, Finish

\* Every step keeps the records of the connections.
LEMMA ConnsStep ==
  ASSUME StateInv, ConnsInv, TasksInv, [Next]_vars
  PROVE  conns' \in [Conns -> ConnRecord] /\ ConnsInv'
<1> mode' = mode
  BY ModeIsFixed
<1>1. CASE \E t \in Tasks, h \in Hellos \cup {None} : Accept(t, h)
  BY <1>1, AcceptStep
<1>2. ASSUME NEW c \in Conns,
             ReadHead(c) \/ ReadHello(c) \/ ReadFails(c) \/ Lookup(c) \/ Acquire(c) \/ Connect(c) \/ Close(c)
      PROVE  conns' \in [Conns -> ConnRecord] /\ ConnsInv'
  <2>1. CASE ReadFails(c) \/ Close(c)
    BY <2>1, OneClosed DEF ReadFails, Close, Finish
  <2> QED
    BY <1>2, <2>1, ReadHeadStep, ReadHelloStep, LookupStep, AcquireStep, ConnectStep
<1>3. CASE UNCHANGED conns
  <2>1. conns' \in [Conns -> ConnRecord]
    BY <1>3 DEF StateInv
  <2>2. ASSUME NEW d \in Conns PROVE Fits(conns[d])'
    BY <1>3, <2>2 DEF Fits, LookedAt, Ahead, Plain, ConnsInv
  <2> QED
    BY <2>1, <2>2 DEF ConnsInv
<1>4. UNCHANGED conns \/ (\E t \in Tasks, h \in Hellos \cup {None} : Accept(t, h))
      \/ \E c \in Conns : ReadHead(c) \/ ReadHello(c) \/ ReadFails(c) \/ Lookup(c) \/ Acquire(c)
                          \/ Connect(c) \/ Close(c)
  BY DEF Next, vars, ChangeRoutes, Release, StopListener, Await, start, Refresh, Shutdown,
         Return, Bind, Wake, StopAccepting, Replace, reconcile_dynamic_listeners
<1> QED
  BY <1>1, <1>2, <1>3, <1>4

----------------------------------------------------------------------------
(* Slots. *)

Guards(t) == {c \in Conns : conns[c].guard /\ conns[c].to = t}

\* The guards of a target are finitely many.
LEMMA GuardsFinite ==
  ASSUME NEW t
  PROVE  IsFiniteSet(Guards(t)) /\ IsFiniteSet(Guards(t)')
<1>1. Guards(t) \subseteq Conns /\ Guards(t)' \subseteq Conns
  BY DEF Guards
<1> QED
  BY <1>1, Constants, FS_Subset

\* Connections that keep their guards keep the slots.
LEMMA SameGuards ==
  ASSUME SlotsMatchConnections, WithinLimit, slots' = slots,
         \A d \in Conns : (conns'[d].guard <=> conns[d].guard) /\ (conns[d].guard => conns'[d].to = conns[d].to)
  PROVE  SlotsMatchConnections' /\ WithinLimit'
<1>1. ASSUME NEW t \in Targets PROVE Guards(t)' = Guards(t)
  BY DEF Guards
<1>2. ASSUME NEW t \in Targets PROVE slots'[t] = Cardinality(Guards(t)')
  BY <1>1, <1>2 DEF SlotsMatchConnections, Guards
<1> QED
  BY <1>2 DEF SlotsMatchConnections, WithinLimit, Guards

\* A slot that is taken is taken by the guard, below the limit.
LEMMA AcquireSlot ==
  ASSUME StateInv, ConnsInv, SlotsMatchConnections, WithinLimit, NEW c \in Conns, Acquire(c)
  PROVE  slots' \in [Targets -> Nat] /\ SlotsMatchConnections' /\ WithinLimit'
<1> DEFINE u == conns[c].to
<1>1. conns[c] \in ConnRecord /\ u \in Targets /\ ~conns[c].guard
  BY DEF StateInv, ConnsInv, Fits, Acquire, ConnRecord
<1>2. CASE conns' = Closed(c) /\ UNCHANGED slots
  <2>1. \A d \in Conns : (conns'[d].guard <=> conns[d].guard) /\ (conns[d].guard => conns'[d].to = conns[d].to)
    BY <1>1, <1>2 DEF Closed, NoConn, StateInv
  <2> QED
    BY <1>2, <2>1, SameGuards DEF StateInv
<1>3. CASE /\ ~(MaxConnections > 0 /\ slots[u] >= MaxConnections)
           /\ slots' = [slots EXCEPT ![u] = @ + 1]
           /\ conns' = [conns EXCEPT ![c].pc = "connect", ![c].guard = TRUE]
  <2>1. slots' \in [Targets -> Nat]
    BY <1>1, <1>3 DEF StateInv
  <2>2. ASSUME NEW d \in Conns
        PROVE  /\ conns'[d].to = conns[d].to
               /\ conns'[d].guard <=> (d = c \/ conns[d].guard)
    BY <1>1, <1>3 DEF StateInv, ConnRecord
  <2>3. ASSUME NEW t \in Targets PROVE slots'[t] = Cardinality(Guards(t)')
    <3>1. slots[t] = Cardinality(Guards(t))
      BY DEF SlotsMatchConnections, Guards
    <3>2. CASE t = u
      <4>1. Guards(t)' = Guards(t) \cup {c} /\ c \notin Guards(t)
        BY <1>1, <2>2, <3>2 DEF Guards
      <4>2. Cardinality(Guards(t)') = Cardinality(Guards(t)) + 1
        BY <4>1, GuardsFinite, FS_AddElement
      <4> QED
        BY <1>1, <1>3, <3>1, <3>2, <4>2 DEF StateInv
    <3>3. CASE t # u
      <4>1. Guards(t)' = Guards(t)
        BY <1>1, <2>2, <3>3 DEF Guards
      <4> QED
        BY <1>1, <1>3, <3>1, <3>3, <4>1 DEF StateInv
    <3> QED
      BY <3>2, <3>3
  <2>4. WithinLimit'
    <3> SUFFICES ASSUME NEW t \in Targets, MaxConnections > 0 PROVE slots'[t] <= MaxConnections
      BY DEF WithinLimit
    <3> QED
      BY <1>1, <1>3, Constants DEF StateInv, WithinLimit
  <2> QED
    BY <2>1, <2>3, <2>4 DEF SlotsMatchConnections, Guards
<1> QED
  BY <1>2, <1>3 DEF Acquire

\* However a connection ends, its guard gives back one slot.
LEMMA FinishSlot ==
  ASSUME StateInv, ConnsInv, SlotsMatchConnections, WithinLimit, NEW c \in Conns, Finish(c)
  PROVE  slots' \in [Targets -> Nat] /\ SlotsMatchConnections' /\ WithinLimit'
<1> DEFINE u == conns[c].to
<1>1. conns[c] \in ConnRecord /\ conns' = Closed(c)
  BY DEF StateInv, Finish
<1>2. ASSUME NEW d \in Conns PROVE conns'[d] = IF d = c THEN NoConn ELSE conns[d]
  BY <1>1 DEF Closed, StateInv
<1>3. CASE ~conns[c].guard
  <2>1. \A d \in Conns : (conns'[d].guard <=> conns[d].guard) /\ (conns[d].guard => conns'[d].to = conns[d].to)
    BY <1>2, <1>3 DEF NoConn
  <2>2. slots' = slots
    BY <1>3 DEF Finish
  <2> QED
    BY <2>1, <2>2, SameGuards DEF StateInv
<1>4. CASE conns[c].guard
  <2>1. u \in Targets
    BY <1>4 DEF ConnsInv, Fits
  <2>2. slots' = [slots EXCEPT ![u] = @ - 1]
    BY <1>4 DEF Finish
  <2>3. ASSUME NEW t \in Targets PROVE slots'[t] = Cardinality(Guards(t)') /\ slots'[t] \in Nat
                                       /\ slots'[t] <= slots[t]
    <3>1. slots[t] = Cardinality(Guards(t)) /\ slots[t] \in Nat
      BY DEF SlotsMatchConnections, Guards, StateInv
    <3>2. Cardinality(Guards(t)') \in Nat
      BY GuardsFinite, FS_CardinalityType
    <3>3. CASE t = u
      <4>1. Guards(t)' = Guards(t) \ {c} /\ c \in Guards(t)
        BY <1>2, <1>4, <3>3 DEF Guards, NoConn
      <4>2. Cardinality(Guards(t)') = Cardinality(Guards(t)) - 1
        BY <4>1, GuardsFinite, FS_RemoveElement
      <4> QED
        BY <2>1, <2>2, <3>1, <3>2, <3>3, <4>2 DEF StateInv
    <3>4. CASE t # u
      <4>1. Guards(t)' = Guards(t)
        BY <1>2, <1>4, <3>4 DEF Guards, NoConn
      <4> QED
        BY <2>1, <2>2, <3>1, <3>4, <4>1 DEF StateInv
    <3> QED
      BY <3>3, <3>4
  <2>4. slots' \in [Targets -> Nat]
    BY <2>2, <2>3 DEF StateInv
  <2>5. WithinLimit'
    <3> SUFFICES ASSUME NEW t \in Targets, MaxConnections > 0 PROVE slots'[t] <= MaxConnections
      BY DEF WithinLimit
    <3> QED
      BY <2>3, Constants DEF StateInv, WithinLimit
  <2> QED
    BY <2>3, <2>4, <2>5 DEF SlotsMatchConnections, Guards
<1> QED
  BY <1>3, <1>4

\* Every other step leaves the slots and the guards alone.
LEMMA SlotsStep ==
  ASSUME StateInv, ConnsInv, SlotsMatchConnections, WithinLimit, [Next]_vars
  PROVE  slots' \in [Targets -> Nat] /\ SlotsMatchConnections' /\ WithinLimit'
<1> DEFINE Kept == /\ slots' = slots
                   /\ \A d \in Conns : /\ conns'[d].guard <=> conns[d].guard
                                       /\ conns[d].guard => conns'[d].to = conns[d].to
<1>1. CASE Kept
  BY <1>1, SameGuards DEF StateInv
<1>2. CASE \E t \in Tasks, h \in Hellos \cup {None} : Accept(t, h)
  <2>1. PICK t \in Tasks, h \in Hellos \cup {None} : Accept(t, h)
    BY <1>2
  <2> DEFINE c == CHOOSE d \in Conns : conns[d].pc = "none"
  <2>2. c \in Conns /\ conns[c].pc = "none"
    BY <2>1 DEF Accept
  <2>3. ~conns[c].guard
    BY <2>2 DEF ConnsInv, Fits
  <2>4. slots' = slots /\ conns' = [conns EXCEPT ![c] = [NoConn EXCEPT !.pc = IF Plain THEN "route" ELSE "head",
                                                             !.port = tasks[t].port, !.hello = h]]
    BY <2>1 DEF Accept
  <2> HIDE DEF c
  <2>5. Kept
    BY <2>2, <2>3, <2>4 DEF NoConn, StateInv
  <2> QED
    BY <1>1, <2>5
<1>3. ASSUME NEW c \in Conns, ReadHead(c) \/ ReadHello(c) \/ ReadFails(c) \/ Lookup(c)
      PROVE  slots' \in [Targets -> Nat] /\ SlotsMatchConnections' /\ WithinLimit'
  <2>1. slots' = slots /\ ~conns[c].guard /\ conns[c] \in ConnRecord
    BY <1>3 DEF ReadHead, ReadHello, ReadFails, Lookup, ConnsInv, Fits, StateInv
  <2>2. ~conns'[c].guard /\ \A d \in Conns \ {c} : conns'[d] = conns[d]
    <3>1. CASE ReadHead(c)
      BY <2>1, <3>1 DEF ReadHead, Closed, NoConn, StateInv, ConnRecord
    <3>2. CASE ReadHello(c)
      <4>1. PICK n : conns' = [conns EXCEPT ![c].pc = "route", ![c].consumed = n]
        BY <3>2 DEF ReadHello
      <4> QED
        BY <2>1, <4>1 DEF StateInv, ConnRecord
    <3>3. CASE conns' = Closed(c)
      BY <3>3 DEF Closed, NoConn, StateInv
    <3>4. CASE conns' = [conns EXCEPT ![c].pc = "fallback"]
      BY <2>1, <3>4 DEF StateInv, ConnRecord
    <3>5. CASE \E t : conns' = [conns EXCEPT ![c].pc = "slot", ![c].to = t]
      BY <2>1, <3>5 DEF StateInv, ConnRecord
    <3> QED
      BY <1>3, <3>1, <3>2, <3>3, <3>4, <3>5 DEF ReadFails, Lookup
  <2>3. Kept
    BY <2>1, <2>2
  <2> QED
    BY <1>1, <2>3
<1>4. ASSUME NEW c \in Conns, Acquire(c) \/ Connect(c) \/ Close(c)
      PROVE  slots' \in [Targets -> Nat] /\ SlotsMatchConnections' /\ WithinLimit'
  <2>1. CASE Acquire(c)
    BY <2>1, AcquireSlot
  <2>2. CASE Finish(c)
    BY <2>2, FinishSlot
  <2>3. CASE Connect(c) /\ ~Finish(c)
    <3>1. PICK s : conns' = [conns EXCEPT ![c].pc = "copy", ![c].sent = s]
      BY <2>3 DEF Connect
    <3>2. slots' = slots
      BY <2>3 DEF Connect
    <3>3. Kept
      BY <3>1, <3>2 DEF StateInv, ConnRecord
    <3> QED
      BY <1>1, <3>3
  <2> QED
    BY <1>4, <2>1, <2>2, <2>3 DEF Close
<1>5. CASE UNCHANGED <<conns, slots>>
  BY <1>1, <1>5
<1>6. UNCHANGED <<conns, slots>> \/ (\E t \in Tasks, h \in Hellos \cup {None} : Accept(t, h))
      \/ (\E c \in Conns : ReadHead(c) \/ ReadHello(c) \/ ReadFails(c) \/ Lookup(c))
      \/ \E c \in Conns : Acquire(c) \/ Connect(c) \/ Close(c)
  BY DEF Next, vars, ChangeRoutes, Release, StopListener, Await, start, Refresh, Shutdown,
         Return, Bind, Wake, StopAccepting, Replace, reconcile_dynamic_listeners
<1> QED
  BY <1>2, <1>3, <1>4, <1>5, <1>6

----------------------------------------------------------------------------
(* Handles and tasks. *)

Handles ==
    /\ \A p \in Owned : /\ tasks[listeners[p]].pc \in {"bind", "sleep", "accept"}
                        /\ tasks[listeners[p]].port = p /\ ~tasks[listeners[p]].stop
    /\ \A t \in Tasks : tasks[t].pc # "none" /\ ~tasks[t].stop => listeners[tasks[t].port] = t

HandlesInv ==
    /\ listeners \in [Ports -> Tasks \cup {None}]
    /\ tasks \in [Tasks -> TaskRecord]
    /\ \A t \in Tasks : tasks[t].pc # "none" => tasks[t].port \in Ports

\* The service before its start keeps its handles as a running one does.
LEMMA HandlesHold ==
  ASSUME StateInv, TasksInv, phase \in {"init", "running"}
  PROVE  HandlesInv /\ Handles
<1>1. CASE phase = "init"
  BY <1>1 DEF StateInv, TasksInv, HandlesInv, Handles, Owned, NoTask
<1>2. CASE phase = "running"
  BY <1>2 DEF StateInv, TasksInv, HandlesInv, Handles, HandlesMatchTasks
<1> QED
  BY <1>1, <1>2

\* A new task for a port.
LEMMA SpawnedTask ==
  ASSUME NEW p \in Ports
  PROVE  /\ Spawned(p) \in TaskRecord /\ Spawned(p).pc = "bind"
         /\ Spawned(p).port = p /\ ~Spawned(p).stop
<1>1. NoTask \in TaskRecord /\ ~NoTask.stop
  BY Nothing DEF NoTask
<1> QED
  BY <1>1 DEF Spawned, TaskRecord, TaskSteps

\* Stopping the listeners of some ports and starting those of others keeps
\* handles and tasks together.
LEMMA Replaced ==
  ASSUME HandlesInv, Handles, NEW stale, NEW new, stale \subseteq Owned, new \subseteq Ports \ Owned,
         Replace(stale, new)
  PROVE  HandlesInv' /\ Handles'
<1> DEFINE spawn == CHOOSE f \in Spawns(new) : TRUE
<1>1. spawn \in Spawns(new)
  BY DEF Replace
<1>2. /\ spawn \in [new -> Free] /\ DOMAIN spawn = new
      /\ \A p, q \in new : spawn[p] = spawn[q] => p = q
  BY <1>1 DEF Spawns
<1>3. Reconciled(stale, spawn)
  BY DEF Replace
<1> HIDE DEF spawn
<1>4. ASSUME NEW p \in Ports
      PROVE  listeners'[p] = IF p \in new THEN spawn[p] ELSE IF p \in stale THEN None ELSE listeners[p]
  BY <1>2, <1>3 DEF Reconciled
<1>5. listeners' \in [Ports -> Tasks \cup {None}]
  BY <1>2, <1>3 DEF Reconciled, Free, HandlesInv
<1>6. ASSUME NEW p \in new
      PROVE  spawn[p] \in Tasks /\ tasks'[spawn[p]] = Spawned(p)
  <2>1. spawn[p] \in Tasks
    BY <1>2 DEF Free
  <2>2. tasks'[spawn[p]] = Spawned(CHOOSE q \in new : spawn[q] = spawn[p])
    BY <1>2, <1>3, <2>1 DEF Reconciled
  <2>3. (CHOOSE q \in new : spawn[q] = spawn[p]) = p
    BY <1>2
  <2> QED
    BY <2>1, <2>2, <2>3
<1>7. ASSUME NEW t \in Tasks, \A p \in new : spawn[p] # t
      PROVE  tasks'[t] = IF \E p \in stale : listeners[p] = t THEN [tasks[t] EXCEPT !.stop = TRUE] ELSE tasks[t]
  BY <1>2, <1>3, <1>7 DEF Reconciled
<1>8. ASSUME NEW t \in Tasks PROVE tasks'[t] \in TaskRecord /\ (tasks'[t].pc # "none" => tasks'[t].port \in Ports)
  <2>1. CASE \E p \in new : spawn[p] = t
    <3>1. PICK p \in new : spawn[p] = t
      BY <2>1
    <3>2. tasks'[t] = Spawned(p) /\ p \in Ports
      BY <1>6, <3>1
    <3> QED
      BY <3>2, SpawnedTask
  <2>2. CASE \A p \in new : spawn[p] # t
    <3>1. tasks'[t] \in {tasks[t], [tasks[t] EXCEPT !.stop = TRUE]}
      BY <1>7, <2>2
    <3>2. tasks[t] \in TaskRecord /\ (tasks[t].pc # "none" => tasks[t].port \in Ports)
      BY DEF HandlesInv
    <3>3. [tasks[t] EXCEPT !.stop = TRUE] \in TaskRecord
      BY <3>2 DEF TaskRecord
    <3>4. [tasks[t] EXCEPT !.stop = TRUE].pc = tasks[t].pc /\ [tasks[t] EXCEPT !.stop = TRUE].port = tasks[t].port
      BY <3>2 DEF TaskRecord
    <3> QED
      BY <3>1, <3>2, <3>3, <3>4
  <2> QED
    BY <2>1, <2>2
<1>9. HandlesInv'
  <2>1. tasks' \in [Tasks -> TaskRecord]
    BY <1>3, <1>8 DEF Reconciled
  <2> QED
    BY <1>5, <1>8, <2>1 DEF HandlesInv
<1>10. ASSUME NEW p \in Ports, listeners'[p] # None
       PROVE  /\ tasks'[listeners'[p]].pc \in {"bind", "sleep", "accept"}
              /\ tasks'[listeners'[p]].port = p /\ ~tasks'[listeners'[p]].stop
  <2>1. CASE p \in new
    <3>1. tasks'[listeners'[p]] = Spawned(p)
      BY <1>4, <1>6, <2>1
    <3> QED
      BY <3>1, SpawnedTask
  <2>2. CASE p \notin new
    <3>1. p \notin stale /\ listeners'[p] = listeners[p] /\ p \in Owned
      BY <1>4, <1>10, <2>2 DEF Owned
    <3> DEFINE t == listeners[p]
    <3>2. t \in Tasks /\ tasks[t].pc # "none" /\ tasks[t].port = p /\ ~tasks[t].stop
          /\ tasks[t].pc \in {"bind", "sleep", "accept"}
      BY <3>1 DEF HandlesInv, Handles, Owned
    <3>3. \A q \in new : spawn[q] # t
      BY <1>2, <3>2 DEF Free
    <3>4. ~ \E q \in stale : listeners[q] = t
      BY <3>1, <3>2 DEF Handles
    <3>5. tasks'[t] = tasks[t]
      BY <1>7, <3>2, <3>3, <3>4
    <3> QED
      BY <3>1, <3>2, <3>5
  <2> QED
    BY <2>1, <2>2
<1>11. ASSUME NEW t \in Tasks, tasks'[t].pc # "none", ~tasks'[t].stop
       PROVE  listeners'[tasks'[t].port] = t
  <2>1. CASE \E p \in new : spawn[p] = t
    <3>1. PICK p \in new : spawn[p] = t
      BY <2>1
    <3>2. tasks'[t] = Spawned(p) /\ p \in Ports
      BY <1>6, <3>1
    <3> QED
      BY <1>4, <3>1, <3>2, SpawnedTask
  <2>2. CASE \A p \in new : spawn[p] # t
    <3>1. CASE \E p \in stale : listeners[p] = t
      <4>1. tasks'[t] = [tasks[t] EXCEPT !.stop = TRUE]
        BY <1>7, <2>2, <3>1
      <4> QED
        BY <1>11, <4>1 DEF HandlesInv, TaskRecord
    <3>2. CASE ~ \E p \in stale : listeners[p] = t
      <4>1. tasks'[t] = tasks[t]
        BY <1>7, <2>2, <3>2
      <4>2. listeners[tasks[t].port] = t /\ tasks[t].port \in Ports
        BY <1>11, <4>1 DEF Handles, HandlesInv
      <4>3. tasks[t].port \notin new /\ tasks[t].port \notin stale
        BY <3>2, <4>2, Constants DEF Owned
      <4> QED
        BY <1>4, <4>1, <4>2, <4>3
    <3> QED
      BY <3>1, <3>2
  <2> QED
    BY <2>1, <2>2
<1> QED
  BY <1>9, <1>10, <1>11 DEF Handles, Owned

\* A step of one task that keeps its port, and its handle as long as it has
\* not been told to stop.
LEMMA OneTask ==
  ASSUME StateInv, TasksInv, NEW t \in Tasks, NEW k \in TaskRecord, phase' = phase, listeners' = listeners,
         tasks[t].pc # "none", tasks' = [tasks EXCEPT ![t] = k],
         k.pc # "none" => k.port = tasks[t].port,
         ~tasks[t].stop => ~k.stop /\ k.pc \in {"bind", "sleep", "accept"},
         tasks[t].stop => k.stop \/ k.pc = "none"
  PROVE  HandlesInv' /\ TasksInv'
<1>1. ASSUME NEW u \in Tasks PROVE tasks'[u] = IF u = t THEN k ELSE tasks[u]
  BY DEF StateInv
<1>2. HandlesInv'
  BY <1>1 DEF StateInv, TasksInv, HandlesInv
<1>3. phase # "init"
  BY DEF TasksInv, NoTask
<1>4. HandlesMatchTasks'
  <2> SUFFICES ASSUME phase = "running" PROVE Handles'
    BY DEF HandlesMatchTasks, Handles
  <2>1. Handles
    BY DEF TasksInv, HandlesMatchTasks, Handles
  <2>2. ASSUME NEW p \in Ports, listeners[p] # None
        PROVE  /\ tasks'[listeners[p]].pc \in {"bind", "sleep", "accept"}
               /\ tasks'[listeners[p]].port = p /\ ~tasks'[listeners[p]].stop
    <3>1. listeners[p] \in Tasks /\ p \in Owned
      BY <2>2 DEF StateInv, Owned
    <3> QED
      BY <1>1, <2>1, <3>1 DEF Handles
  <2>3. ASSUME NEW u \in Tasks, tasks'[u].pc # "none", ~tasks'[u].stop
        PROVE  listeners[tasks'[u].port] = u
    BY <1>1, <2>1, <2>3 DEF Handles
  <2> QED
    BY <2>2, <2>3 DEF Handles, Owned
<1> QED
  BY <1>2, <1>3, <1>4 DEF TasksInv, HandlesInv

\* A task that ends: its record is kept as long as its handle is.
LEMMA EndedTask ==
  ASSUME StateInv, TasksInv, NEW t \in Tasks, tasks[t].pc # "none", tasks[t].stop,
         phase' = phase, listeners' = listeners, tasks' = [tasks EXCEPT ![t] = Ended(t)]
  PROVE  HandlesInv' /\ TasksInv'
<1>1. tasks[t] \in TaskRecord
  BY DEF StateInv
<1>2. CASE Ended(t) = NoTask
  <2>1. NoTask \in TaskRecord /\ NoTask.pc = "none"
    BY Nothing DEF NoTask
  <2> QED
    BY <1>2, <2>1, OneTask
<1>3. CASE Ended(t) = [tasks[t] EXCEPT !.pc = "done"]
  <2> DEFINE k == [tasks[t] EXCEPT !.pc = "done"]
  <2>1. k \in TaskRecord /\ k.pc = "done" /\ k.port = tasks[t].port /\ k.stop
    BY <1>1 DEF TaskRecord, TaskSteps
  <2> HIDE DEF k
  <2>2. tasks' = [tasks EXCEPT ![t] = k]
    BY <1>3 DEF k
  <2> QED
    BY <2>1, <2>2, OneTask
<1> QED
  BY <1>2, <1>3 DEF Ended

\* Binding, waiting and the end of a listener task.
LEMMA TaskStep ==
  ASSUME StateInv, TasksInv, NEW t \in Tasks, Bind(t) \/ Wake(t) \/ StopAccepting(t)
  PROVE  HandlesInv' /\ TasksInv'
<1>1. tasks[t] \in TaskRecord /\ tasks[t].pc # "none" /\ phase' = phase /\ listeners' = listeners
  BY DEF StateInv, Bind, Wake, StopAccepting, service
<1>2. CASE tasks[t].stop /\ tasks' = [tasks EXCEPT ![t] = Ended(t)]
  BY <1>1, <1>2, EndedTask
<1>3. CASE Bind(t)
  <2> DEFINE step == IF Taken(tasks[t].port) THEN "sleep" ELSE "accept"
             k == [tasks[t] EXCEPT !.pc = step]
  <2>1. tasks' = [tasks EXCEPT ![t] = k]
    BY <1>3 DEF Bind, StateInv
  <2>2. step \in {"sleep", "accept"}
    OBVIOUS
  <2> HIDE DEF step
  <2>3. k \in TaskRecord /\ k.pc = step /\ k.port = tasks[t].port /\ k.stop = tasks[t].stop
    BY <1>1, <2>2 DEF TaskRecord, TaskSteps
  <2> HIDE DEF k
  <2> QED
    BY <1>1, <2>1, <2>2, <2>3, OneTask
<1>4. CASE tasks' = [tasks EXCEPT ![t].pc = "bind", ![t].backoff = Twice(@)]
  <2> DEFINE wait == Twice(tasks[t].backoff)
             k == [tasks[t] EXCEPT !.pc = "bind", !.backoff = wait]
  <2>1. wait \in 1 .. MaxBackoff
    BY <1>1, BackoffInRange DEF TaskRecord
  <2>2. tasks' = [tasks EXCEPT ![t] = k]
    BY <1>1, <1>4 DEF StateInv, TaskRecord
  <2> HIDE DEF wait
  <2>3. k \in TaskRecord /\ k.pc = "bind" /\ k.port = tasks[t].port /\ k.stop = tasks[t].stop
    BY <1>1, <2>1 DEF TaskRecord, TaskSteps
  <2> HIDE DEF k
  <2> QED
    BY <1>1, <2>2, <2>3, OneTask
<1> QED
  BY <1>2, <1>3, <1>4 DEF Wake, StopAccepting

\* A step of the service that stops listeners, once it does not run any more.
LEMMA StoppingStep ==
  ASSUME StateInv, TasksInv, NEW p \in Ports, StopListener(p) \/ Await(p)
  PROVE  HandlesInv' /\ TasksInv'
<1>1. phase = "stopping" /\ phase' = phase /\ listeners[p] \in Tasks
  BY DEF StopListener, Await, StateInv, service
<1> DEFINE t == listeners[p]
<1>2. CASE StopListener(p)
  <2> DEFINE k == [tasks[t] EXCEPT !.stop = TRUE]
  <2>1. tasks' = [tasks EXCEPT ![t] = k] /\ listeners' = listeners
    BY <1>1, <1>2 DEF StopListener, StateInv
  <2>2. k \in TaskRecord /\ k.pc = tasks[t].pc /\ k.port = tasks[t].port
    BY <1>1 DEF StateInv, TaskRecord
  <2> HIDE DEF k
  <2> QED
    BY <1>1, <2>1, <2>2 DEF HandlesInv, TasksInv, HandlesMatchTasks, StateInv
<1>3. CASE Await(p)
  <2> DEFINE k == IF tasks[t].pc = "done" THEN NoTask ELSE tasks[t]
  <2>1. tasks' = [tasks EXCEPT ![t] = k] /\ listeners' = [listeners EXCEPT ![p] = None]
    BY <1>3 DEF Await, StateInv
  <2>2. k \in TaskRecord /\ (k.pc # "none" => k.port = tasks[t].port /\ k.pc = tasks[t].pc)
    BY <1>1, Nothing DEF StateInv, NoTask
  <2> HIDE DEF k
  <2> QED
    BY <1>1, <2>1, <2>2 DEF HandlesInv, TasksInv, HandlesMatchTasks, StateInv
<1> QED
  BY <1>2, <1>3

\* The start and the ticks of the manager.
LEMMA ServiceStep ==
  ASSUME StateInv, TasksInv, start \/ Refresh
  PROVE  HandlesInv' /\ TasksInv'
<1>1. phase \in {"init", "running"} /\ HandlesInv /\ Handles
  BY HandlesHold DEF start, Refresh
<1>2. CASE start /\ mode.kind = "disabled"
  BY <1>1, <1>2 DEF start, TasksInv, HandlesInv, HandlesMatchTasks
<1>3. CASE reconcile_dynamic_listeners /\ phase' = "running"
  <2>1. Owned \ tcp_listener_ports \subseteq Owned /\ tcp_listener_ports \ Owned \subseteq Ports \ Owned
    BY DEF tcp_listener_ports
  <2>2. HandlesInv' /\ Handles'
    BY <1>1, <1>3, <2>1, Replaced DEF reconcile_dynamic_listeners
  <2> QED
    BY <1>3, <2>2 DEF TasksInv, HandlesInv, HandlesMatchTasks, Handles
<1>4. CASE start /\ mode.kind \notin {"disabled", "tcp-dynamic"}
  <2>1. mode.port \in Ports \ Owned
    BY <1>4 DEF start, StateInv, TasksInv, Owned
  <2>2. Replace({}, {mode.port}) /\ phase' = "running"
    BY <1>4 DEF start
  <2>3. HandlesInv' /\ Handles'
    BY <1>1, <2>1, <2>2, Replaced
  <2> QED
    BY <2>2, <2>3 DEF TasksInv, HandlesInv, HandlesMatchTasks, Handles
<1> QED
  BY <1>2, <1>3, <1>4 DEF start, Refresh, service

\* Every step keeps handles and tasks.
LEMMA TasksStep ==
  ASSUME StateInv, TasksInv, [Next]_vars
  PROVE  HandlesInv' /\ TasksInv'
<1>1. CASE UNCHANGED <<listeners, tasks>> /\ (phase' = phase \/ phase' \in {"stopping", "returned"})
  BY <1>1 DEF HandlesInv, TasksInv, HandlesMatchTasks, Owned, StateInv
<1>2. CASE \E t \in Tasks : Bind(t) \/ Wake(t) \/ StopAccepting(t)
  BY <1>2, TaskStep
<1>3. CASE \E p \in Ports : StopListener(p) \/ Await(p)
  BY <1>3, StoppingStep
<1>4. CASE start \/ Refresh
  BY <1>4, ServiceStep
<1> QED
  BY <1>1, <1>2, <1>3, <1>4
     DEF Next, vars, service, ChangeRoutes, Release, Shutdown, Return, Accept, ReadHead, ReadHello,
         ReadFails, Lookup, Acquire, Connect, Close

----------------------------------------------------------------------------
(* The theorems. *)

\* Every step keeps the invariant.
LEMMA TcpInvNext == TcpInv /\ [Next]_vars => TcpInv'
<1> SUFFICES ASSUME TcpInv, [Next]_vars PROVE TcpInv'
  OBVIOUS
<1> USE DEF TcpInv
<1>1. conns' \in [Conns -> ConnRecord] /\ ConnsInv'
  BY ConnsStep
<1>2. slots' \in [Targets -> Nat] /\ SlotsMatchConnections' /\ WithinLimit'
  BY SlotsStep
<1>3. HandlesInv' /\ TasksInv'
  BY TasksStep
<1>4. mode' = mode
  BY ModeIsFixed
<1>5. /\ phase' \in {"init", "running", "stopping", "returned"}
      /\ table' \in Tables /\ taken' \subseteq Ports
  BY DEF StateInv, Next, vars, service, ChangeRoutes, Release, StopListener, Await, start, Refresh,
         Shutdown, Return, Bind, Wake, StopAccepting, Accept, ReadHead, ReadHello, ReadFails, Lookup,
         Acquire, Connect, Close
<1> QED
  BY <1>1, <1>2, <1>3, <1>4, <1>5 DEF StateInv, HandlesInv

(* The invariant, of which the two theorems below are consequences (start, *)
(* run_tcp_listener_with_watch, proxy_tcp_streams).                        *)
THEOREM TcpInvariance == Spec => []TcpInv
  BY TcpInvInit, TcpInvNext, PTL DEF Spec

(* Nothing is left behind (reconcile_dynamic_listeners, TcpConnectionGuard):*)
(* while the service runs, handles and living tasks correspond, and a      *)
(* target has as many slots taken as it has connections past the limit     *)
(* check, never more than the limit, for any tables, tasks and connections.*)
THEOREM NoLeak == Spec => []NothingLeaks
<1>1. TcpInv => NothingLeaks
  <2> SUFFICES ASSUME TcpInv PROVE NothingLeaks
    OBVIOUS
  <2> USE DEF TcpInv
  <2>1. \A p \in Ports : listeners[p] \in Tasks \cup {None}
    BY DEF StateInv
  <2>2. \A t \in Tasks : tasks[t].pc \in TaskSteps /\ tasks[t].backoff \in 1 .. MaxBackoff
    BY DEF StateInv, TaskRecord
  <2>3. \A c \in Conns : conns[c].guard => conns[c].to \in Targets
    BY DEF ConnsInv, Fits
  <2>4. TypeOK
    BY <2>1, <2>2, <2>3 DEF TypeOK, StateInv, TaskSteps, WithinLimit
  <2> QED
    BY <2>4 DEF NothingLeaks, TasksInv
<1> QED
  BY <1>1, TcpInvariance, PTL

(* What was read off a connection to find its target is sent on first, all *)
(* of it, once, on each of the ways a connection may take                  *)
(* (handle_https_tcp_sni_connection, proxy_tcp_streams).                   *)
THEOREM BytesPassOn == Spec => []NothingEaten
<1>1. TcpInv => NothingEaten
  <2> SUFFICES ASSUME TcpInv, NEW c \in Conns, conns[c].pc = "copy"
               PROVE  LET Size == client_hello_buffer_size(Shape[conns[c].hello])
                          looked_at == IF Plain THEN << >> ELSE IF Size = 0 THEN <<9>> ELSE <<Size>>
                      IN conns[c].sent = (IF conns[c].to \in Proxied THEN <<0>> ELSE << >>) \o looked_at
    BY DEF NothingEaten
  <2> DEFINE Size == client_hello_buffer_size(Shape[conns[c].hello])
  <2>1. conns[c].sent = Ahead(conns[c]) /\ (Plain <=> conns[c].hello = None) /\ conns[c].hello \in Hellos \cup {None}
    BY DEF TcpInv, ConnsInv, StateInv, ConnRecord, Fits
  <2>2. ~Plain => Size \in Nat
    BY <2>1, SizeIsNat
  <2> QED
    BY <2>1, <2>2 DEF Ahead, LookedAt
<1> QED
  BY <1>1, TcpInvariance, PTL
=============================================================================
