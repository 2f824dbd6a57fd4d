------------------------------ MODULE AdminApi ------------------------------
(***************************************************************************)
(* The parts of the admin API (src/admin/api.rs) that keep state of their  *)
(* own: the sessions, the log ring and the metrics stream.  AdminState     *)
(* holds the three side by side and no handler touches two of them, so a   *)
(* behaviour is one of a single part, chosen at the start.                 *)
(***************************************************************************)
EXTENDS AdminSessions, LogRing, MetricsStream

VARIABLE part

vars == <<part, sessionVars, ringVars, streamVars>>

AdminState == SessionsInit /\ LogsInit /\ StreamInit

Init == part \in {"sessions", "logs", "stream"} /\ AdminState

Next ==
    /\ \/ part = "sessions" /\ SessionsNext /\ UNCHANGED <<ringVars, streamVars>>
       \/ part = "logs" /\ LogsNext /\ UNCHANGED <<sessionVars, streamVars>>
       \/ part = "stream" /\ StreamNext /\ UNCHANGED <<sessionVars, ringVars>>
    /\ UNCHANGED part

Spec == Init /\ [][Next]_vars /\ (part = "stream" => StreamFairness)

----------------------------------------------------------------------------
(* Sessions and login attempts keep their bounds, and lock out or let in   *)
(* nobody they should not (AdminSessions).                                 *)
LoginsAreBounded == SessionsTypeOK /\ SessionsBounded /\ AttemptsBounded /\ RefusedForCause /\ SessionsEnd

(* The log is read and followed without loss (LogRing).                    *)
LogIsComplete == RingTypeOK /\ RecentIsExact /\ NothingMissed

(* There is one feeder exactly while it is needed, and it feeds every      *)
(* client (MetricsStream).                                                 *)
StreamFollowsClients == [](StreamTypeOK /\ OneFeeder) /\ ClientsAreFed /\ FeederStops
=============================================================================
