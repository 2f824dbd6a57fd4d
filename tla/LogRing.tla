------------------------------ MODULE LogRing ------------------------------
(***************************************************************************)
(* The log ring and its live stream (src/admin/logs.rs).  A thread that    *)
(* logs stores its entry in the ring under the lock and broadcasts it      *)
(* after the lock is released, so the two orders may differ.  A client of  *)
(* the API follows the stream and then reads the ring once for what was    *)
(* logged before.  (The repository's own dashboard reads first and opens   *)
(* the stream later: what is logged in between it gets with its next read.)*)
(***************************************************************************)
EXTENDS Integers, Sequences, FiniteSets, SequencesExt

CONSTANTS
    Threads,             \* threads that log
    Texts,               \* what an entry's fields contain
    RING_BUFFER_CAPACITY,
    BROADCAST_CAPACITY,
    MaxEntries,          \* bound on the entries logged
    None                 \* no filter given

Levels == {"ERROR", "INFO"}

level_order == [ERROR |-> 0, WARN |-> 1, INFO |-> 2, DEBUG |-> 3, TRACE |-> 4]

LogEntries == [id : Nat, level : Levels, text : Texts]

ASSUME RingAssumption ==
    /\ RING_BUFFER_CAPACITY \in Nat \ {0} /\ BROADCAST_CAPACITY \in Nat \ {0}
    /\ None \notin Texts \cup LogEntries \cup DOMAIN level_order

VARIABLES
    entries,    \* the ring
    write_pos,  \* where the newest entry is, from 0
    len,
    pushing,    \* thread -> the entry it stored and has not broadcast, or None
    pushed,     \* every entry in the order stored (history variable)
    sent,       \* every entry in the order broadcast (history variable)
    follower    \* the client: [pc, next, from, seen, skipped]

ringVars == <<entries, write_pos, len, pushing, pushed, sent, follower>>

Away == [pc |-> "away", next |-> 0, from |-> 0, seen |-> {}, skipped |-> {}]

LogsInit ==
    /\ entries = << >> /\ write_pos = 0 /\ len = 0
    /\ pushing = [t \in Threads |-> None]
    /\ pushed = << >> /\ sent = << >>
    /\ follower = Away

----------------------------------------------------------------------------
(* Under the lock: the ring is filled and then overwritten from its start. *)
Store(e) ==
    IF len < RING_BUFFER_CAPACITY
    THEN /\ entries' = Append(entries, e)
         /\ write_pos' = len /\ len' = len + 1
    ELSE /\ write_pos' = (write_pos + 1) % RING_BUFFER_CAPACITY
         /\ entries' = [entries EXCEPT ![write_pos' + 1] = e]
         /\ UNCHANGED len

(* LogCaptureLayer::on_event and the locked part of LogBuffer::push. *)
Push(t, level, text) ==
    /\ pushing[t] = None /\ Len(pushed) < MaxEntries
    /\ LET e == [id |-> Len(pushed) + 1, level |-> level, text |-> text] IN
        /\ Store(e)
        /\ pushed' = Append(pushed, e)
        /\ pushing' = [pushing EXCEPT ![t] = e]
    /\ UNCHANGED <<sent, follower>>

(* After the lock is released. *)
Broadcast(t) ==
    /\ pushing[t] # None
    /\ sent' = Append(sent, pushing[t])
    /\ pushing' = [pushing EXCEPT ![t] = None]
    /\ UNCHANGED <<entries, write_pos, len, pushed, follower>>

----------------------------------------------------------------------------
(* The filters of recent; an unknown level filters nothing. *)
passes(e, min_level, search) ==
    /\ min_level \in DOMAIN level_order => level_order[e.level] <= level_order[min_level]
    /\ search # None => e.text = search

(* Mutant: a full ring is read as one that is not yet full. *)
Newest_FromStart(i) == entries[len - i]

(* The entry that recent looks at in step i = 0, 1, ... *)
Newest(i) ==
    IF len < RING_BUFFER_CAPACITY THEN entries[len - i]
    ELSE entries[((write_pos + RING_BUFFER_CAPACITY - i) % RING_BUFFER_CAPACITY) + 1]

(* Whether step i takes its entry.  The limit is looked at after an entry  *)
(* was taken: 0 acts as 1.                                                 *)
Takes(i, limit, min_level, search) ==
    LET before == {j \in 0 .. i - 1 : passes(Newest(j), min_level, search)}
    IN passes(Newest(i), min_level, search) /\ (before = {} \/ Cardinality(before) < limit)

(* The entries, each with the step that takes it. *)
recent(limit, min_level, search) ==
    [i \in {j \in 0 .. len - 1 : Takes(j, limit, min_level, search)} |-> Newest(i)]

----------------------------------------------------------------------------
(* logs_stream_handler, then logs_handler without filters. *)
Subscribe ==
    /\ follower.pc = "away"
    /\ follower' = [follower EXCEPT !.pc = "subscribed", !.next = Len(sent)]
    /\ UNCHANGED <<entries, write_pos, len, pushing, pushed, sent>>

(* The limit is at most 1000, as the capacity is; the client may give any, *)
(* and gets 100 if it gives none.                                          *)
Fetch(limit) ==
    /\ follower.pc = "subscribed"
    /\ follower' = [follower EXCEPT !.pc = "following",
                        !.from = Len(pushed) - Min({Max({limit, 1}), len}),
                        !.seen = @ \cup Range(recent(limit, None, None))]
    /\ UNCHANGED <<entries, write_pos, len, pushing, pushed, sent>>

(* A receiver that fell behind skips to the oldest entry still kept; the   *)
(* error it gets is dropped and the stream goes on.                        *)
Receive ==
    /\ follower.pc # "away" /\ follower.next < Len(sent)
    /\ follower' = IF Len(sent) - follower.next > BROADCAST_CAPACITY
                   THEN [follower EXCEPT !.next = Len(sent) - BROADCAST_CAPACITY,
                            !.skipped = @ \cup {sent[i] : i \in follower.next + 1 .. Len(sent) - BROADCAST_CAPACITY}]
                   ELSE [follower EXCEPT !.next = @ + 1, !.seen = @ \cup {sent[follower.next + 1]}]
    /\ UNCHANGED <<entries, write_pos, len, pushing, pushed, sent>>

LogsNext ==
    \/ \E t \in Threads :
        \/ \E level \in Levels, text \in Texts : Push(t, level, text)
        \/ Broadcast(t)
    \/ Subscribe \/ Receive
    \/ \E limit \in 0 .. RING_BUFFER_CAPACITY : Fetch(limit)

----------------------------------------------------------------------------
RingTypeOK ==
    /\ len \in 0 .. RING_BUFFER_CAPACITY /\ Len(entries) = len
    /\ write_pos \in 0 .. RING_BUFFER_CAPACITY - 1
    /\ follower.pc \in {"away", "subscribed", "following"}
    /\ follower.next \in 0 .. Len(sent)

(* Through every wrap of the ring, recent returns the newest entries that  *)
(* pass the filters, newest first, and as many of them as were asked for   *)
(* and are kept (the positions that push and recent compute).  Who asks    *)
(* for none gets one.                                                      *)
RecentIsExact ==
    \A limit \in 0 .. RING_BUFFER_CAPACITY + 1,
       min_level \in Levels \cup {"WARN", "bogus"}, search \in Texts \cup {None, "absent"} :
        LET NthNewest(i) == pushed[Len(pushed) - i]
            Wanted(i) == {j \in 0 .. i : passes(NthNewest(j), min_level, search)}
            kept == 0 .. Min({Len(pushed), RING_BUFFER_CAPACITY}) - 1
        IN recent(limit, min_level, search) =
                [i \in {j \in kept : j \in Wanted(j) /\ Cardinality(Wanted(j)) <= Max({limit, 1})} |-> NthNewest(i)]

(* A client that follows the stream and then reads the ring misses nothing *)
(* logged since the oldest entry it asked for: each has reached it, is on  *)
(* its way, or was skipped because the client fell behind (push stores and *)
(* broadcasts in two steps, and entries overtake each other between them). *)
NothingMissed ==
    follower.pc = "following" =>
        \A i \in follower.from + 1 .. Len(pushed) :
            \/ pushed[i] \in follower.seen \cup follower.skipped
            \/ \E t \in Threads : pushing[t] = pushed[i]
            \/ \E k \in follower.next + 1 .. Len(sent) : sent[k] = pushed[i]
=============================================================================
