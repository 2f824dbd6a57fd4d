------------------------------ MODULE TcpProxy ------------------------------
(***************************************************************************)
(* The TCP proxy of src/proxy/tcp.rs: its service in each mode, the manager*)
(* that starts and stops listeners as the route table changes, the listener*)
(* tasks, and the connections they accept, from the first bytes of a TLS   *)
(* client hello to the copying.                                            *)
(*                                                                         *)
(* A listener task is spawned and told to stop through a channel; nobody   *)
(* waits for one the manager stops, so that its successor on the same port *)
(* may find the port taken.  Connections are tasks of their own and        *)
(* outlive their listener.                                                 *)
(***************************************************************************)
EXTENDS Integers, Sequences, FiniteSets, SequencesExt, TLC

CONSTANTS
    Modes,          \* settings of tcp.mode
    Addresses,      \* settings of tcp.listen: "", "bad", or a port
    Ports,
    Tables,         \* names of route tables, and what they hold:
    PortRoutes,     \*   for each port its targets,
    SniRoutes,      \*   for each server name its targets
    Unsafe, Proxied,  \* targets that fail is_host_safe; that have proxy_proto
    Hellos, Shape,  \* names of first bytes of connections, and their shapes
    Boundaries,     \* shapes, without server names, that the parser is tried on
    MaxConnections, \* the limit of connections of a target; 0: none
    MaxBackoff,     \* cap of backoff_secs (60 in the code)
    Tasks,          \* identities of listener tasks: a bound on those alive at once
    Conns,          \* connections
    MaxChanges,     \* bound on the changes of the table
    None

Targets ==
    (UNION {PortRoutes[t][p] : t \in Tables, p \in Ports})
        \cup (UNION UNION {{SniRoutes[t][n] : n \in DOMAIN SniRoutes[t]} : t \in Tables})

ASSUME TcpAssumption ==
    /\ Addresses \subseteq {"", "bad"} \cup Ports
    /\ MaxConnections \in Nat /\ MaxBackoff \in Nat \ {0} /\ MaxChanges \in Nat
    /\ IsFiniteSet(Conns) /\ None \notin Tasks
    /\ \A h \in Hellos : /\ Shape[h].content \in Nat /\ Shape[h].record \in Nat
                        /\ Shape[h].type \in Nat /\ Shape[h].handshake \in Nat

VARIABLES
    mode,       \* the service's TcpMode, with the port it listens on
    phase,      \* of the service: "init", "running", "stopping", "returned"
    table,      \* the current route table
    changes,
    taken,      \* ports that other processes hold
    listeners,  \* port |-> the task of its DynamicListenerHandle, or None
    tasks,      \* run_tcp_listener_with_watch
    conns,      \* the accepted connections
    slots       \* target |-> active connections

vars == <<mode, phase, table, changes, taken, listeners, tasks, conns, slots>>
service == <<mode, phase, table, changes, taken>>

NoTask == [pc |-> "none", port |-> None, stop |-> FALSE, backoff |-> 1]
NoConn == [pc |-> "none", port |-> None, hello |-> None, consumed |-> 0, sent |-> << >>,
           to |-> None, guard |-> FALSE]

----------------------------------------------------------------------------
(* resolve_tcp_mode and the checks of start: the mode the service runs in. *)

resolve_tcp_mode(setting, listen) ==
    CASE setting \in {"", "disabled"} -> "disabled"
      [] setting \in {"tcp", "tcp+sni"} -> IF listen = "" THEN "error" ELSE setting
      [] setting \in {"tcp-dynamic", "https+tcp+sni"} -> setting
      [] OTHER -> "error"

(* A configuration in error, or a bad address, leaves the service idle. *)
ServiceMode(setting, listen) ==
    LET kind == resolve_tcp_mode(setting, listen)
    IN IF kind \in {"disabled", "error"} \/ (kind # "tcp-dynamic" /\ listen \notin Ports)
       THEN [kind |-> "disabled", port |-> None]
       ELSE [kind |-> kind, port |-> IF kind = "tcp-dynamic" THEN None ELSE listen]

----------------------------------------------------------------------------
(* client_hello_buffer_size and read_server_name.  A shape gives what the  *)
(* length fields say, in the order the parser meets them.  What it would   *)
(* read beyond the end is Panic.                                           *)

Panic == "panic"

client_hello_buffer_size(h) ==
    IF \/ h.content # 22 \/ h.record \notin 1 .. 16384 \/ h.type # 1
       \/ h.handshake = 0 \/ h.handshake > (IF h.record < 4 THEN 0 ELSE h.record - 4)
    THEN 0 ELSE h.handshake + 9

(* Reading needs bytes of those left, and is preceded by a test that rejects. *)
Field(left, needs, reject, value) == IF reject THEN None ELSE IF left < needs THEN Panic ELSE value

(* The names of a server_name extension, in n bytes. *)
ServerNames(names, n) ==
    LET f[i \in 1 .. Len(names) + 1, r \in 0 .. n] ==
            IF r = 0 THEN ""
            ELSE Field(r, 3, r < 3 \/ i > Len(names),
                 Field(r - 3, names[i].length, r - 3 < names[i].length,
                 IF names[i].type = 0 THEN names[i].name ELSE f[i + 1, r - 3 - names[i].length]))
    IN f[1, n]

(* The extensions, in n bytes; what follows the list is zeros. *)
Extensions(exts, n) ==
    LET Ext(i) == IF i <= Len(exts) THEN exts[i]
                  ELSE [type |-> 0, length |-> 0, names_length |-> 0, names |-> << >>]
        f[i \in 1 .. Len(exts) + 1, r \in 0 .. n] ==
            IF r = 0 THEN ""
            ELSE Field(r, 4, r < 4,
                 Field(r - 4, Ext(i).length, r - 4 < Ext(i).length,
                 IF Ext(i).type # 0 THEN f[i + 1, r - 4 - Ext(i).length]
                 ELSE Field(Ext(i).length, 2, Ext(i).length < 2 \/ Ext(i).names_length # Ext(i).length - 2,
                      ServerNames(Ext(i).names, Ext(i).names_length))))
    IN f[1, n]

(* Bytes left from each field of a hello on. *)
Suites(h) == h.handshake + 4 - 39 - h.session
Compression(h) == Suites(h) - 2 - h.suites
Rest(h) == Compression(h) - 1 - h.compression

(* None if the message is malformed, "" if it names no server. *)
read_server_name(h) ==
    LET n == h.handshake + 4
    IN Field(n, 39, n < 42,
       Field(n, 39 + h.session, h.session > 32 \/ n < 39 + h.session,
       Field(Suites(h), 2, Suites(h) < 2,
       Field(Suites(h), 2 + h.suites, h.suites % 2 = 1 \/ Suites(h) < 2 + h.suites,
       Field(Compression(h), 1, Compression(h) = 0,
       Field(Compression(h), 1 + h.compression, Compression(h) < 1 + h.compression,
       IF Rest(h) = 0 THEN ""
       ELSE Field(Rest(h), 2, Rest(h) < 2 \/ h.extensions # Rest(h) - 2,
            Extensions(h.exts, Rest(h) - 2))))))))

----------------------------------------------------------------------------
Init ==
    /\ \E setting \in Modes, listen \in Addresses : mode = ServiceMode(setting, listen)
    /\ phase = "init"
    /\ table \in Tables /\ changes = 0
    /\ taken \in SUBSET Ports
    /\ listeners = [p \in Ports |-> None]
    /\ tasks = [t \in Tasks |-> NoTask]
    /\ conns = [c \in Conns |-> NoConn]
    /\ slots = [t \in Targets |-> 0]

(* The route table is replaced (ManagedRoutes). *)
ChangeRoutes(t) ==
    /\ changes < MaxChanges /\ t # table
    /\ table' = t /\ changes' = changes + 1
    /\ UNCHANGED <<mode, phase, taken, listeners, tasks, conns, slots>>

Release(p) ==
    /\ p \in taken
    /\ taken' = taken \ {p}
    /\ UNCHANGED <<mode, phase, table, changes, listeners, tasks, conns, slots>>

----------------------------------------------------------------------------
(* The service. *)

tcp_listener_ports == {p \in Ports : PortRoutes[table][p] # {}}

Owned == {p \in Ports : listeners[p] # None}
Free == {t \in Tasks : tasks[t].pc = "none"}
Spawned(p) == [NoTask EXCEPT !.pc = "bind", !.port = p]

(* The handles after stopping the listeners of stale ports and starting    *)
(* those of new ones: spawn gives each new port a task.                    *)
Reconciled(stale, spawn) ==
    /\ listeners' = [p \in Ports |-> IF p \in DOMAIN spawn THEN spawn[p]
                                     ELSE IF p \in stale THEN None ELSE listeners[p]]
    /\ tasks' = [t \in Tasks |->
                    IF \E p \in DOMAIN spawn : spawn[p] = t
                    THEN Spawned(CHOOSE p \in DOMAIN spawn : spawn[p] = t)
                    ELSE IF \E p \in stale : listeners[p] = t THEN [tasks[t] EXCEPT !.stop = TRUE]
                    ELSE tasks[t]]

(* A task for each new port; which identities the tasks get does not matter. *)
Spawns(new) == {f \in [new -> Free] : \A p, q \in new : f[p] = f[q] => p = q}

Replace(stale, new) ==
    /\ Spawns(new) # {}
    /\ Reconciled(stale, CHOOSE f \in Spawns(new) : TRUE)
    /\ UNCHANGED <<conns, slots>>

(* reconcile_dynamic_listeners, on one reading of the table. *)
reconcile_dynamic_listeners == Replace(Owned \ tcp_listener_ports, tcp_listener_ports \ Owned)

start ==
    /\ phase = "init"
    /\ IF mode.kind = "disabled"
       THEN phase' = "returned" /\ UNCHANGED <<listeners, tasks, conns, slots>>
       ELSE /\ phase' = "running"
            /\ IF mode.kind = "tcp-dynamic" THEN reconcile_dynamic_listeners ELSE Replace({}, {mode.port})
    /\ UNCHANGED <<mode, table, changes, taken>>

(* A tick of the manager; one that finds nothing to do is a stuttering step. *)
Refresh ==
    /\ phase = "running" /\ mode.kind = "tcp-dynamic"
    /\ reconcile_dynamic_listeners
    /\ UNCHANGED service

Shutdown ==
    /\ phase = "running"
    /\ phase' = "stopping"
    /\ UNCHANGED <<mode, table, changes, taken, listeners, tasks, conns, slots>>

(* Each listener in turn is told to stop and waited for, five seconds at   *)
(* most: then its handle is dropped, ended or not.                         *)
StopListener(p) ==
    /\ phase = "stopping" /\ listeners[p] # None /\ ~tasks[listeners[p]].stop
    /\ \A q \in Owned : ~tasks[listeners[q]].stop
    /\ tasks' = [tasks EXCEPT ![listeners[p]].stop = TRUE]
    /\ UNCHANGED <<service, listeners, conns, slots>>

Await(p) ==
    /\ phase = "stopping" /\ listeners[p] # None
    /\ tasks[listeners[p]].stop
    /\ tasks' = [tasks EXCEPT ![listeners[p]] = IF @.pc = "done" THEN NoTask ELSE @]
    /\ listeners' = [listeners EXCEPT ![p] = None]
    /\ UNCHANGED <<mode, phase, table, changes, taken, conns, slots>>

Return ==
    /\ phase = "stopping" /\ Owned = {}
    /\ phase' = "returned"
    /\ UNCHANGED <<mode, table, changes, taken, listeners, tasks, conns, slots>>

----------------------------------------------------------------------------
(* A listener task. *)

Taken(p) == p \in taken \/ \E t \in Tasks : tasks[t].pc = "accept" /\ tasks[t].port = p

(* A task that ends is forgotten, unless its handle is still kept. *)
Ended(t) == IF \E p \in Ports : listeners[p] = t THEN [tasks[t] EXCEPT !.pc = "done"] ELSE NoTask

(* Mutant: a listener that cannot bind gives up. *)
Bind_GiveUp(t) ==
    /\ tasks[t].pc = "bind"
    /\ tasks' = [tasks EXCEPT ![t] = IF Taken(@.port) THEN Ended(t) ELSE [@ EXCEPT !.pc = "accept"]]
    /\ UNCHANGED <<service, listeners, conns, slots>>

Bind(t) ==
    /\ tasks[t].pc = "bind"
    /\ tasks' = [tasks EXCEPT ![t].pc = IF Taken(tasks[t].port) THEN "sleep" ELSE "accept"]
    /\ UNCHANGED <<service, listeners, conns, slots>>

Twice(backoff) == IF 2 * backoff < MaxBackoff THEN 2 * backoff ELSE MaxBackoff

(* Mutant: only the signal ends the wait. *)
Wake_OnlySignal(t) ==
    /\ tasks[t].pc = "sleep" /\ tasks[t].stop
    /\ tasks' = [tasks EXCEPT ![t] = Ended(t)]
    /\ UNCHANGED <<service, listeners, conns, slots>>

(* The wait before the next attempt ends, or is cut short by the signal. *)
Wake(t) ==
    /\ tasks[t].pc = "sleep"
    /\ \/ tasks' = [tasks EXCEPT ![t].pc = "bind", ![t].backoff = Twice(@)]
       \/ tasks[t].stop /\ tasks' = [tasks EXCEPT ![t] = Ended(t)]
    /\ UNCHANGED <<service, listeners, conns, slots>>

(* The signal to stop ends the loop and closes the socket. *)
StopAccepting(t) ==
    /\ tasks[t].pc = "accept" /\ tasks[t].stop
    /\ tasks' = [tasks EXCEPT ![t] = Ended(t)]
    /\ UNCHANGED <<service, listeners, conns, slots>>

(* A connection is accepted and handed to a task of its own, the signal to *)
(* stop notwithstanding: select! takes either branch.  A plain listener    *)
(* looks at no bytes.                                                      *)
Plain == mode.kind \in {"tcp", "tcp-dynamic"}

Accept(t, hello) ==
    /\ tasks[t].pc = "accept" /\ (Plain <=> hello = None)
    /\ \E c \in Conns : conns[c].pc = "none"
    /\ conns' = [conns EXCEPT ![CHOOSE c \in Conns : conns[c].pc = "none"] =
                    [NoConn EXCEPT !.pc = IF Plain THEN "route" ELSE "head",
                                   !.port = tasks[t].port, !.hello = hello]]
    /\ UNCHANGED <<service, listeners, tasks, slots>>

----------------------------------------------------------------------------
(* A connection. *)

Closed(c) == [conns EXCEPT ![c] = NoConn]

(* Mutant: the bytes read to look at are not passed to the fallback. *)
ReadHead_Forgets(c) ==
    LET size == client_hello_buffer_size(Shape[conns[c].hello])
    IN /\ conns[c].pc = "head"
       /\ conns' = IF size > 0 THEN [conns EXCEPT ![c].pc = "hello", ![c].consumed = 9]
                   ELSE IF mode.kind = "tcp+sni" THEN Closed(c)
                   ELSE [conns EXCEPT ![c].pc = "fallback"]
       /\ UNCHANGED <<service, listeners, tasks, slots>>

(* The first nine bytes; what is no client hello ends the connection, or   *)
(* goes to the HTTPS listener.                                             *)
ReadHead(c) ==
    LET size == client_hello_buffer_size(Shape[conns[c].hello])
    IN /\ conns[c].pc = "head"
       /\ conns' = IF size > 0 THEN [conns EXCEPT ![c].pc = "hello", ![c].consumed = 9]
                   ELSE IF mode.kind = "tcp+sni" THEN Closed(c)
                   ELSE [conns EXCEPT ![c].pc = "fallback", ![c].consumed = 9]
       /\ UNCHANGED <<service, listeners, tasks, slots>>

(* The whole hello. *)
ReadHello(c) ==
    LET size == client_hello_buffer_size(Shape[conns[c].hello])
    IN /\ conns[c].pc = "hello"
       /\ conns' = [conns EXCEPT ![c].pc = "route", ![c].consumed = size]
       /\ UNCHANGED <<service, listeners, tasks, slots>>

(* The client ends or the read times out before the bytes have come. *)
ReadFails(c) ==
    /\ conns[c].pc \in {"head", "hello"}
    /\ conns' = Closed(c)
    /\ UNCHANGED <<service, listeners, tasks, slots>>

(* The targets a connection may go to: by its port, or by the server name. *)
Candidates(c) ==
    IF Plain THEN PortRoutes[table][conns[c].port]
    ELSE LET name == read_server_name(Shape[conns[c].hello])
         IN IF name \in DOMAIN SniRoutes[table] THEN SniRoutes[table][name] ELSE {}

(* lookup_target, lookup_sni_target: any target of the route, as the       *)
(* strategy has it; without one the connection ends, or falls back.        *)
Lookup(c) ==
    /\ conns[c].pc = "route"
    /\ IF Candidates(c) = {}
       THEN conns' = IF mode.kind = "https+tcp+sni" THEN [conns EXCEPT ![c].pc = "fallback"] ELSE Closed(c)
       ELSE \E t \in Candidates(c) : conns' = [conns EXCEPT ![c].pc = "slot", ![c].to = t]
    /\ UNCHANGED <<service, listeners, tasks, slots>>

(* proxy_tcp_streams: a slot, which a guard gives back. *)
Acquire(c) ==
    LET t == conns[c].to
    IN /\ conns[c].pc = "slot"
       /\ IF MaxConnections > 0 /\ slots[t] >= MaxConnections THEN conns' = Closed(c) /\ UNCHANGED slots
          ELSE /\ slots' = [slots EXCEPT ![t] = @ + 1]
               /\ conns' = [conns EXCEPT ![c].pc = "connect", ![c].guard = TRUE]
       /\ UNCHANGED <<service, listeners, tasks>>

(* The end of a connection drops its guard. *)
Finish(c) ==
    /\ conns' = Closed(c)
    /\ slots' = IF conns[c].guard THEN [slots EXCEPT ![conns[c].to] = @ - 1] ELSE slots

(* The host is not safe, connecting fails or times out, or what was read   *)
(* is sent on: after the header of the PROXY protocol, if the target wants *)
(* it.                                                                     *)
Connect(c) ==
    /\ conns[c].pc \in {"connect", "fallback"}
    /\ \/ Finish(c)
       \/ /\ conns[c].to \notin Unsafe
          /\ conns' = [conns EXCEPT ![c].pc = "copy",
                        ![c].sent = (IF conns[c].to \in Proxied THEN <<0>> ELSE << >>)
                                    \o (IF conns[c].consumed > 0 THEN <<conns[c].consumed>> ELSE << >>)]
          /\ UNCHANGED slots
    /\ UNCHANGED <<service, listeners, tasks>>

(* copy_bidirectional ends. *)
Close(c) ==
    /\ conns[c].pc = "copy"
    /\ Finish(c)
    /\ UNCHANGED <<service, listeners, tasks>>

----------------------------------------------------------------------------
Next ==
    \/ \E t \in Tables : ChangeRoutes(t)
    \/ \E p \in Ports : Release(p) \/ StopListener(p) \/ Await(p)
    \/ start \/ Refresh \/ Shutdown \/ Return
    \/ \E t \in Tasks : Bind(t) \/ Wake(t) \/ StopAccepting(t)
    \/ \E t \in Tasks, h \in Hellos \cup {None} : Accept(t, h)
    \/ \E c \in Conns :
        ReadHead(c) \/ ReadHello(c) \/ ReadFails(c) \/ Lookup(c) \/ Acquire(c) \/ Connect(c) \/ Close(c)

(* The interval ticks, spawned tasks run, sleeps end; select! chooses its  *)
(* branches at random, so the signal to stop is seen however many clients  *)
(* connect; other processes let go of the port some day.                   *)
Fairness ==
    /\ WF_vars(start) /\ WF_vars(Refresh) /\ WF_vars(Return)
    /\ \A p \in Ports : WF_vars(Release(p)) /\ WF_vars(StopListener(p)) /\ WF_vars(Await(p))
    /\ \A t \in Tasks : WF_vars(Bind(t)) /\ WF_vars(Wake(t)) /\ WF_vars(StopAccepting(t))

Spec == Init /\ [][Next]_vars /\ Fairness

----------------------------------------------------------------------------
(* Properties. *)

(* Every variable has its type; a guard goes with a connection to a target. *)
TypeOK ==
    /\ phase \in {"init", "running", "stopping", "returned"}
    /\ table \in Tables /\ taken \subseteq Ports
    /\ \A p \in Ports : listeners[p] \in Tasks \cup {None}
    /\ \A t \in Tasks : tasks[t].pc \in {"none", "bind", "sleep", "accept", "done"}
                        /\ tasks[t].backoff \in 1 .. MaxBackoff
    /\ \A c \in Conns : conns[c].guard => conns[c].to \in Targets
    /\ \A t \in Targets : slots[t] \in Nat /\ (MaxConnections > 0 => slots[t] <= MaxConnections)

(***************************************************************************)
(* Handles and tasks agree (reconcile_dynamic_listeners and the bind loop: *)
(* "the reconciler still believed the port was owned"): while the service  *)
(* runs, the task of a kept handle is alive and not told to stop, and a    *)
(* task not told to stop has its handle kept, so that it can be.           *)
(***************************************************************************)
HandlesMatchTasks ==
    phase = "running" =>
        /\ \A p \in Owned : /\ tasks[listeners[p]].pc \in {"bind", "sleep", "accept"}
                            /\ tasks[listeners[p]].port = p /\ ~tasks[listeners[p]].stop
        /\ \A t \in Tasks : tasks[t].pc # "none" /\ ~tasks[t].stop => listeners[tasks[t].port] = t

(***************************************************************************)
(* The bytes go through unchanged (handle_https_tcp_sni_connection and the *)
(* rest): what was read off the connection to find its target is sent      *)
(* first, all of it, once, on each of the ways a connection may take; the  *)
(* PROXY header comes before, and only a target gets one.                  *)
(***************************************************************************)
NothingEaten ==
    \A c \in Conns : conns[c].pc = "copy" =>
        LET Size == client_hello_buffer_size(Shape[conns[c].hello])
            looked_at == IF Plain THEN << >> ELSE IF Size = 0 THEN <<9>> ELSE <<Size>>
        IN conns[c].sent = (IF conns[c].to \in Proxied THEN <<0>> ELSE << >>) \o looked_at

(***************************************************************************)
(* Slots are given back (TcpConnectionGuard): a target has as many slots   *)
(* taken as there are connections to it past the limit check, whichever    *)
(* way connections ended, listeners stopped and tables changed.            *)
(***************************************************************************)
SlotsMatchConnections ==
    \A t \in Targets : slots[t] = Cardinality({c \in Conns : conns[c].guard /\ conns[c].to = t})

(***************************************************************************)
(* The parser is exact (read_server_name): over all combinations of lengths*)
(* at their boundaries it reads nothing beyond the end of the message, and *)
(* accepts a hello that names no server exactly if its lengths add up.     *)
(***************************************************************************)
AddsUp(h) ==
    LET names_end == 39 + h.session + 2 + h.suites + 1 + h.compression
        Lengths == FoldSeq(LAMBDA e, sum : 4 + e.length + sum, 0, h.exts)
    IN /\ h.handshake + 4 >= 42 /\ h.session <= 32 /\ h.suites % 2 = 0
       /\ \/ h.handshake + 4 = names_end
          \/ h.handshake + 4 = names_end + 2 + h.extensions /\ h.extensions \in {0, Lengths}

ParserIsExact ==
    phase = "init" =>
        \A h \in Boundaries : read_server_name(h) = IF AddsUp(h) THEN "" ELSE None

(***************************************************************************)
(* The ports follow the routes (run_dynamic_tcp_manager): once the table   *)
(* rests, the ports that accept connections are those that have routes,    *)
(* also when a listener was stopped and started again while its old task   *)
(* still held the port, or another process did.                            *)
(***************************************************************************)
Accepting == {p \in Ports : \E t \in Tasks : tasks[t].pc = "accept" /\ tasks[t].port = p}
PortsFollowRoutes ==
    <>[](phase = "running" /\ mode.kind = "tcp-dynamic" => Accepting = tcp_listener_ports)

(* A service told to stop returns, and no listener of it lives on (StopListener, Await). *)
ServiceStops == <>[](phase # "stopping" /\ (phase = "returned" => Accepting = {}))

(* Nothing is left behind: a listener's handle and task, and a target's    *)
(* slots and connections, go together.                                     *)
NothingLeaks == TypeOK /\ HandlesMatchTasks /\ SlotsMatchConnections

(* A connection is parsed within its bounds and passed on unchanged.       *)
BytesAreRespected == NothingEaten /\ ParserIsExact

(* Listeners follow the table while the service runs, and end with it.     *)
ListenersFollow == PortsFollowRoutes /\ ServiceStops
=============================================================================
