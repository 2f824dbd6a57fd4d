--------------------------- MODULE MetricsStream ---------------------------
(***************************************************************************)
(* The live metrics of the dashboard (src/admin/metrics_handler.rs): the   *)
(* first client creates a channel and the task that feeds it, later ones   *)
(* subscribe to it, and the task removes the channel and stops when all    *)
(* clients are gone.  metrics_stream_tx is behind a lock that is released  *)
(* between the looks at it.                                                *)
(***************************************************************************)
EXTENDS Integers, FiniteSets

CONSTANTS
    Clients,     \* dashboards
    MaxStreams   \* bound on the channels created

ASSUME StreamAssumption == MaxStreams \in Nat \ {0} /\ IsFiniteSet(Clients)

VARIABLES
    metrics_stream_tx,  \* the number of the current channel, 0 for None
    clients,            \* client -> [pc, rx, fed]
    tasks,              \* task -> where it is; a task has its channel's number
    streams             \* the channels created so far

streamVars == <<metrics_stream_tx, clients, tasks, streams>>

Gone == [pc |-> "gone", rx |-> 0, fed |-> FALSE]

StreamInit ==
    /\ metrics_stream_tx = 0 /\ streams = 0
    /\ clients = [c \in Clients |-> Gone]
    /\ tasks = [k \in 1 .. MaxStreams |-> "none"]

receiver_count(tx) == Cardinality({c \in Clients : clients[c].rx = tx})

Subscribed(tx) == [pc |-> "connected", rx |-> tx, fed |-> FALSE]

----------------------------------------------------------------------------
(* metrics_stream_handler, under the read lock. *)
Connect(c) ==
    /\ clients[c].pc = "gone" /\ (metrics_stream_tx = 0 => streams < MaxStreams)
    /\ clients' = [clients EXCEPT ![c] = IF metrics_stream_tx # 0 THEN Subscribed(metrics_stream_tx)
                                         ELSE [Gone EXCEPT !.pc = "create"]]
    /\ UNCHANGED <<metrics_stream_tx, tasks, streams>>

NewStream(c) ==
    /\ streams < MaxStreams
    /\ streams' = streams + 1 /\ metrics_stream_tx' = streams'
    /\ tasks' = [tasks EXCEPT ![streams'] = "tick"]
    /\ clients' = [clients EXCEPT ![c] = Subscribed(streams')]

(* Under the write lock: another client may have been first. *)
Create(c) ==
    /\ clients[c].pc = "create"
    /\ \/ /\ metrics_stream_tx # 0
          /\ clients' = [clients EXCEPT ![c] = Subscribed(metrics_stream_tx)]
          /\ UNCHANGED <<metrics_stream_tx, tasks, streams>>
       \/ metrics_stream_tx = 0 /\ NewStream(c)

(* The client's connection ends and its receiver is dropped. *)
Disconnect(c) ==
    /\ clients[c].pc = "connected"
    /\ clients' = [clients EXCEPT ![c] = Gone]
    /\ UNCHANGED <<metrics_stream_tx, tasks, streams>>

----------------------------------------------------------------------------

(* The task, each second: is anybody there?  Under the read lock. *)
Tick(k) ==
    /\ tasks[k] = "tick"
    /\ tasks' = [tasks EXCEPT ![k] = IF metrics_stream_tx = 0 \/ receiver_count(metrics_stream_tx) = 0
                                     THEN "clear" ELSE "send"]
    /\ UNCHANGED <<metrics_stream_tx, clients, streams>>

(* Mutant: the receivers are not counted again under the write lock. *)
Clear_NoSecondLook(k) ==
    /\ tasks[k] = "clear"
    /\ metrics_stream_tx' = 0 /\ tasks' = [tasks EXCEPT ![k] = "none"]
    /\ UNCHANGED <<clients, streams>>

(* Under the write lock: only if no receiver appeared in between. *)
Clear(k) ==
    /\ tasks[k] = "clear"
    /\ IF metrics_stream_tx # 0 /\ receiver_count(metrics_stream_tx) = 0
       THEN metrics_stream_tx' = 0 /\ tasks' = [tasks EXCEPT ![k] = "none"]
       ELSE tasks' = [tasks EXCEPT ![k] = "send"] /\ UNCHANGED metrics_stream_tx
    /\ UNCHANGED <<clients, streams>>

(* To whichever channel is current. *)
Send(k) ==
    /\ tasks[k] = "send"
    /\ tasks' = [tasks EXCEPT ![k] = "tick"]
    /\ clients' = [c \in Clients |-> IF clients[c].rx # 0 /\ clients[c].rx = metrics_stream_tx
                                     THEN [clients[c] EXCEPT !.fed = TRUE] ELSE clients[c]]
    /\ UNCHANGED <<metrics_stream_tx, streams>>

TaskNext(k) == Tick(k) \/ Clear(k) \/ Send(k)

StreamNext ==
    \/ \E c \in Clients : Connect(c) \/ Create(c) \/ Disconnect(c)
    \/ \E k \in 1 .. MaxStreams : TaskNext(k)

(* The task is a spawned tokio task, a client's handler a request's. *)
StreamFairness ==
    /\ \A k \in 1 .. MaxStreams : WF_streamVars(TaskNext(k))
    /\ \A c \in Clients : WF_streamVars(Create(c))

----------------------------------------------------------------------------
StreamTypeOK ==
    /\ metrics_stream_tx \in 0 .. MaxStreams /\ streams \in 0 .. MaxStreams
    /\ \A c \in Clients : clients[c].pc \in {"gone", "create", "connected"} /\ clients[c].rx \in 0 .. MaxStreams
    /\ \A k \in 1 .. MaxStreams : tasks[k] \in {"none", "tick", "clear", "send"}

(* One task runs while there is a channel, and none without; and no client *)
(* listens to a channel that was removed (the second looks of              *)
(* metrics_stream_handler and of its task).                                *)
OneFeeder ==
    /\ Cardinality({k \in 1 .. MaxStreams : tasks[k] # "none"}) = IF metrics_stream_tx = 0 THEN 0 ELSE 1
    /\ \A c \in Clients : clients[c].rx \in {0, metrics_stream_tx}

(* A client that stays connected is sent metrics, also one that comes      *)
(* while the task is about to stop (the task of metrics_stream_handler).   *)
ClientsAreFed == \A c \in Clients : clients[c].pc = "connected" ~> (clients[c].fed \/ clients[c].pc # "connected")

(* When all clients stay away the task does not go on forever and the      *)
(* channel is removed (the task of metrics_stream_handler).                *)
FeederStops == <>[](\A c \in Clients : clients[c].pc = "gone") => <>[](metrics_stream_tx = 0)
=============================================================================
