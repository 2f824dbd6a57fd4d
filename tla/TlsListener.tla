---------------------------- MODULE TlsListener ----------------------------
(***************************************************************************)
(* One TLS listener, from its configuration to its handshakes: how main    *)
(* sets it up (src/main.rs), the stores of certificates and client CAs and *)
(* the tasks that refresh them (src/proxy/tls.rs, src/main.rs), the watcher*)
(* of certificate files (src/proxy/tls/watcher.rs), the reload of the admin*)
(* API (src/admin/certs_handler.rs) and the certificate callback           *)
(* (src/proxy/tls/selector.rs).                                            *)
(*                                                                         *)
(* A file is read in one step, but a certificate and its key are two files *)
(* and are written, and read, one after the other.  A query of Consul      *)
(* returns at any time with what Consul holds then.                        *)
(***************************************************************************)
EXTENDS CertStore

CONSTANTS
    Configs, Conf,     \* configurations of the listener
    FileBlobs,         \* what is written to the two files (None: deleted)
    KvStates, KvBlobs, \* contents below consul_cert_prefix: key -> blob
    CaStates, CaBlobs, CaRefused, \* contents of the client CA source, and the
                       \*   entries whose certificate the store refuses
    ServerNames,       \* names clients ask for (None: no name)
    MaxBackoff,        \* the cap of backoff_secs (60 in the code)
    MaxWrites,         \* bound on writes of files and changes in Consul
    MaxFaults          \* bound on failed queries and reads

ASSUME TlsAssumption ==
    /\ MaxBackoff \in Nat \ {0} /\ MaxWrites \in Nat /\ MaxFaults \in Nat
    /\ \A c \in Configs : Conf[c].strict_sni \in BOOLEAN /\ Conf[c].primary \in BOOLEAN
    /\ FileBlobs \subseteq DOMAIN Pem
    /\ \A k \in KvStates : DOMAIN KvBlobs[k] \subseteq Range(KeyOrder) /\ Range(KvBlobs[k]) \subseteq DOMAIN Pem

VARIABLES
    conf,      \* the configuration
    stage,     \* how far main has come, then "serving" or how it ended
    files,     \* [cert, key]: [blob, mtime] of the two files
    kv, ca,    \* what Consul holds (ca: also the client CA file)
    writes, faults,
    served,    \* the certificate of a file listener (SharedFileCert)
    store,     \* DynamicCertStore's snapshot
    clientCa,  \* DynamicClientCaStore's snapshot: the entries in its store
    status,    \* what the two stores report
    refresh,   \* the refreshing tasks, "tls" and "client_ca"
    watcher,   \* FileCertWatcherService
    reload,    \* certs_reload_handler
    shake,     \* a handshake
    overtaken  \* served was read before the last write, and the watcher has
               \*   not noticed (history variable)

world == <<files, kv, ca, writes, faults>>
vars == <<conf, stage, world, served, store, clientCa, status, refresh, watcher, reload, shake, overtaken>>

Tasks == {"tls", "client_ca"}
Config == Conf[conf]

----------------------------------------------------------------------------
(* The configuration. *)

TlsMode(c) ==
    CASE c.source = ""          -> IF c.has_files THEN "file" ELSE "none"
      [] c.source = "file"      -> "file"
      [] c.source = "consul_kv" -> IF c.has_prefix THEN "consul_kv" ELSE "invalid"
      [] OTHER                  -> "invalid"

ClientAuth(c) ==
    CASE c.client_auth = "off" -> "none"
      [] c.client_auth \in {"optional", "required"} /\ c.client_ca_source \in {"file", "consul_kv"} ->
            IF c.has_ca_path THEN c.client_ca_source ELSE "invalid"
      [] OTHER -> "invalid"

(* FileMeta::read: the time of a file that is not there is None. *)
Mtime(f) == IF files[f].blob = None THEN None ELSE files[f].mtime
Mtimes == [cert |-> Mtime("cert"), key |-> Mtime("key")]
FileCert == IF None \in {files.cert.blob, files.key.blob} THEN None
            ELSE from_pem_pair("static-file", files.cert.blob, files.key.blob)

Resting == [pc |-> "query", backoff |-> 1, report |-> None]
Unread == [cert |-> 0, key |-> 0]
NoStatus == [loaded |-> EmptySnapshot, error |-> FALSE]

Init ==
    /\ conf \in Configs
    /\ stage = "client_ca"
    /\ \E b \in FileBlobs : files = [cert |-> [blob |-> b, mtime |-> 1], key |-> [blob |-> b, mtime |-> 1]]
    /\ kv \in KvStates /\ ca \in CaStates
    /\ TlsMode(Config) # "file" => files.cert.blob = CHOOSE b \in FileBlobs : TRUE
    /\ TlsMode(Config) # "consul_kv" => kv = CHOOSE k \in KvStates : TRUE
    /\ ClientAuth(Config) \in {"none", "invalid"} => ca = CHOOSE c \in CaStates : TRUE
    /\ writes = 0 /\ faults = 0
    /\ served = None /\ store = EmptySnapshot /\ clientCa = {}
    /\ status = [t \in Tasks |-> NoStatus]
    /\ refresh = [t \in Tasks |-> Resting]
    /\ watcher = [pc |-> "off", last_meta |-> Unread, current_meta |-> Unread, cert_pem |-> None]
    /\ reload = [pc |-> "idle", cert_pem |-> None, cert |-> None, meta |-> Unread]
    /\ shake = [pc |-> "idle", name |-> None, verify |-> "none", cert |-> None]
    /\ overtaken = FALSE

(***************************************************************************)
(* The world outside: files are written and deleted one at a time, Consul's*)
(* data changes.                                                           *)
(***************************************************************************)

(* Every write changes the file's time, which is all that the watcher looks *)
(* at: one that keeps it, or falls into the same tick of it, goes unseen.   *)
Write(f, b) ==
    /\ writes < MaxWrites /\ TlsMode(Config) = "file"
    /\ files' = [files EXCEPT ![f] = [blob |-> b, mtime |-> @.mtime + 1]]
    /\ writes' = writes + 1
    /\ UNCHANGED <<conf, stage, kv, ca, faults, served, store, clientCa, status, refresh, watcher, reload, shake, overtaken>>

ChangeKv(k) ==
    /\ writes < MaxWrites /\ TlsMode(Config) = "consul_kv" /\ k # kv
    /\ kv' = k /\ writes' = writes + 1
    /\ UNCHANGED <<conf, stage, files, ca, faults, served, store, clientCa, status, refresh, watcher, reload, shake, overtaken>>

ChangeCa(c) ==
    /\ writes < MaxWrites /\ ClientAuth(Config) = "consul_kv" /\ c # ca
    /\ ca' = c /\ writes' = writes + 1
    /\ UNCHANGED <<conf, stage, files, kv, faults, served, store, clientCa, status, refresh, watcher, reload, shake, overtaken>>

(***************************************************************************)
(* main: the client CAs first, then the certificates, then the listener.   *)
(* The primary listener's failure ends the process, another's only skips   *)
(* it.                                                                     *)
(***************************************************************************)
GivenUp == IF Config.primary THEN "exited" ELSE "skipped"

(* The entries in a store of client CAs, which are in the order of their names. *)
CaNames(entries) == [k \in entries |-> k]

(* DynamicClientCaStore::apply_snapshot.  An empty reply, one without a    *)
(* valid certificate and one the store refuses leave the store alone.      *)
ApplyCa(c) ==
    LET next == IF DOMAIN CaBlobs[c] = {} THEN None ELSE ca_from_entries(CaBlobs[c], CaRefused)
    IN IF next = None \/ (next # None /\ next.store = {})
       THEN [store |-> clientCa, report |-> [status["client_ca"] EXCEPT !.error = TRUE]]
       ELSE [store |-> next.store, report |-> [loaded |-> CaNames(next.store), error |-> next.warned]]

(* load_from_path: read once, at startup. *)
LoadClientCaFile ==
    /\ stage = "client_ca" /\ ClientAuth(Config) = "file"
    /\ clientCa' = ApplyCa(ca).store
    /\ status' = [status EXCEPT !["client_ca"] = ApplyCa(ca).report]
    /\ stage' = IF DOMAIN status'["client_ca"].loaded = {} THEN GivenUp ELSE "tls"
    /\ UNCHANGED <<conf, world, served, store, refresh, watcher, reload, shake, overtaken>>

(* No client authentication, or an invalid one. *)
NoClientCa ==
    /\ stage = "client_ca" /\ ClientAuth(Config) \in {"none", "invalid"}
    /\ stage' = IF ClientAuth(Config) = "invalid" THEN GivenUp ELSE "tls"
    /\ UNCHANGED <<conf, world, served, store, clientCa, status, refresh, watcher, reload, shake, overtaken>>

(* No certificate source, an invalid one, or files that are not there. *)
NoCertificates ==
    /\ stage = "tls"
    /\ \/ TlsMode(Config) = "none" /\ stage' = "none"
       \/ TlsMode(Config) = "invalid" /\ stage' = GivenUp
       \/ TlsMode(Config) = "file" /\ None \in {files.cert.blob, files.key.blob} /\ stage' = GivenUp
    /\ UNCHANGED <<conf, world, served, store, clientCa, status, refresh, watcher, reload, shake, overtaken>>

(* TlsCertConfig::validate, then load_static_certificate: the certificate, *)
(* and in a later step the key.                                            *)
LoadFirstCert ==
    /\ stage = "tls" /\ TlsMode(Config) = "file"
    /\ None \notin {files.cert.blob, files.key.blob}
    /\ stage' = "load_key"
    /\ watcher' = [watcher EXCEPT !.cert_pem = files.cert.blob, !.current_meta.cert = Mtime("cert")]
    /\ UNCHANGED <<conf, world, served, store, clientCa, status, refresh, reload, shake, overtaken>>

(* The pair is complete, or it is not: the certificate from cert_pem and   *)
(* the key file as it is now.                                              *)
LoadedWith(cert_pem) ==
    IF None \in {cert_pem, files.key.blob} THEN None
    ELSE from_pem_pair("static-file", cert_pem, files.key.blob)

LoadFirstKey ==
    /\ stage = "load_key"
    /\ LET cert == LoadedWith(watcher.cert_pem) IN
        IF cert = None
        THEN stage' = GivenUp /\ UNCHANGED <<served, watcher>>
        ELSE /\ stage' = "serving" /\ served' = cert
             /\ watcher' = [watcher EXCEPT !.pc = "start", !.current_meta.key = Mtime("key"), !.cert_pem = None]
    /\ UNCHANGED <<conf, world, store, clientCa, status, refresh, reload, shake, overtaken>>

----------------------------------------------------------------------------
(***************************************************************************)
(* refresh_from_consul, called by main at startup and then in a loop by a  *)
(* background service.                                                     *)
(***************************************************************************)
Refreshed(t) == IF t = "tls" THEN TlsMode(Config) = "consul_kv" ELSE ClientAuth(Config) = "consul_kv"

Asking(t) == refresh[t].pc = "query" /\ Refreshed(t) /\ stage \in {t, "serving", "shutdown"}

(* The reply is applied: the new snapshot is in place before the status    *)
(* says so.                                                                *)
Apply(t, next) ==
    /\ refresh' = [refresh EXCEPT ![t] = [@ EXCEPT !.pc = "status", !.report = next]]
    /\ UNCHANGED <<conf, stage, world, served, status, watcher, reload, shake, overtaken>>

(* DynamicCertStore::apply_consul_snapshot.  An empty reply, and one       *)
(* without a valid certificate, leave the store alone.                     *)
ReplyTls ==
    /\ Asking("tls")
    /\ \E next \in {from_fabio_entries(KvBlobs[kv], store)} :
        IF DOMAIN KvBlobs[kv] = {} \/ DOMAIN next.snapshot = {}
        THEN UNCHANGED store /\ Apply("tls", [status["tls"] EXCEPT !.error = TRUE])
        ELSE /\ store' = next.snapshot
             /\ Apply("tls", [loaded |-> EntryNames(next.snapshot), error |-> next.warned])
    /\ UNCHANGED clientCa

ReplyClientCa ==
    /\ Asking("client_ca")
    /\ clientCa' = ApplyCa(ca).store
    /\ Apply("client_ca", ApplyCa(ca).report)
    /\ UNCHANGED store

(* Mutant: a listener starts without client CAs. *)
Gate_NoClientCa(t, ready) ==
    IF t = "client_ca" THEN "tls"
    ELSE IF ready \/ ~Config.require_initial_snapshot THEN "serving" ELSE GivenUp

(* Where main goes from here when the first refresh of t is over. *)
Gate(t, ready) ==
    IF t = "client_ca" THEN IF ready THEN "tls" ELSE GivenUp
    ELSE IF ready \/ ~Config.require_initial_snapshot THEN "serving" ELSE GivenUp

Report(t) ==
    /\ refresh[t].pc = "status"
    /\ status' = [status EXCEPT ![t] = refresh[t].report]
    /\ refresh' = [refresh EXCEPT ![t] = Resting]
    /\ stage' = IF stage = t THEN Gate(t, DOMAIN status'[t].loaded # {}) ELSE stage
    /\ UNCHANGED <<conf, world, served, store, clientCa, watcher, reload, shake, overtaken>>

(* The query fails: main goes on without, the service backs off. *)
Fail(t) ==
    /\ Asking(t) /\ faults < MaxFaults
    /\ faults' = faults + 1
    /\ IF stage = t
       THEN stage' = Gate(t, FALSE) /\ UNCHANGED refresh
       ELSE refresh' = [refresh EXCEPT ![t] = [@ EXCEPT !.pc = "sleep"]] /\ UNCHANGED stage
    /\ UNCHANGED <<conf, files, kv, ca, writes, served, store, clientCa, status, watcher, reload, shake, overtaken>>

Wake(t) ==
    /\ refresh[t].pc = "sleep"
    /\ LET b == refresh[t].backoff IN
        refresh' = [refresh EXCEPT ![t] =
                        [@ EXCEPT !.pc = "query", !.backoff = IF 2 * b < MaxBackoff THEN 2 * b ELSE MaxBackoff]]
    /\ UNCHANGED <<conf, stage, world, served, store, clientCa, status, watcher, reload, shake, overtaken>>

----------------------------------------------------------------------------
(***************************************************************************)
(* FileCertWatcherService::start.  The modification times are read, one    *)
(* file after the other, before the files are.                             *)
(***************************************************************************)
watcherOnly == <<conf, stage, world, store, clientCa, status, refresh, reload, shake>>

(* last_meta at the start: what was written since main loaded the          *)
(* certificate is taken for loaded.                                        *)
StartWatcher ==
    /\ watcher.pc = "start"
    /\ watcher' = [watcher EXCEPT !.pc = "tick", !.last_meta = Mtimes]
    /\ overtaken' = (watcher.current_meta # Mtimes)
    /\ UNCHANGED <<served, watcherOnly>>

ReadCertMeta ==
    /\ watcher.pc = "tick"
    /\ watcher' = [watcher EXCEPT !.pc = "key_meta", !.current_meta.cert = Mtime("cert")]
    /\ UNCHANGED <<served, overtaken, watcherOnly>>

ReadKeyMeta ==
    /\ watcher.pc = "key_meta"
    /\ LET meta == [watcher.current_meta EXCEPT !.key = Mtime("key")]
       IN watcher' = [watcher EXCEPT !.pc = IF meta = watcher.last_meta THEN "tick" ELSE "load_cert",
                                     !.current_meta = meta]
    /\ UNCHANGED <<served, overtaken, watcherOnly>>

LoadCert ==
    /\ watcher.pc = "load_cert"
    /\ watcher' = [watcher EXCEPT !.pc = IF files.cert.blob = None THEN "tick" ELSE "load_key",
                                  !.cert_pem = files.cert.blob]
    /\ UNCHANGED <<served, overtaken, watcherOnly>>

(* On failure last_meta stays, so that the next tick tries again. *)
LoadKey ==
    /\ watcher.pc = "load_key"
    /\ LET cert == LoadedWith(watcher.cert_pem) IN
        IF cert = None
        THEN watcher' = [watcher EXCEPT !.pc = "tick", !.cert_pem = None] /\ UNCHANGED <<served, overtaken>>
        ELSE /\ served' = cert /\ overtaken' = FALSE
             /\ watcher' = [watcher EXCEPT !.pc = "tick", !.cert_pem = None, !.last_meta = watcher.current_meta]
    /\ UNCHANGED watcherOnly

(* Mutant: a failed reload is not tried again. *)
ReadFails_Forgets ==
    /\ watcher.pc \in {"load_cert", "load_key"} /\ faults < MaxFaults
    /\ faults' = faults + 1
    /\ watcher' = [watcher EXCEPT !.pc = "tick", !.cert_pem = None, !.last_meta = watcher.current_meta]
    /\ UNCHANGED <<conf, stage, files, kv, ca, writes, served, store, clientCa, status, refresh, reload, shake, overtaken>>

(* A read fails although the file is there. *)
ReadFails ==
    /\ watcher.pc \in {"load_cert", "load_key"} /\ faults < MaxFaults
    /\ faults' = faults + 1
    /\ watcher' = [watcher EXCEPT !.pc = "tick", !.cert_pem = None]
    /\ UNCHANGED <<conf, stage, files, kv, ca, writes, served, store, clientCa, status, refresh, reload, shake, overtaken>>

(***************************************************************************)
(* certs_reload_handler, which runs beside the watcher: it loads the pair  *)
(* and stores it in a later step.                                          *)
(***************************************************************************)
reloadOnly == <<conf, stage, world, store, clientCa, status, refresh, watcher, shake>>

ReloadCert ==
    /\ reload.pc = "idle" /\ stage = "serving" /\ TlsMode(Config) = "file"
    /\ files.cert.blob # None
    /\ reload' = [reload EXCEPT !.pc = "load_key", !.cert_pem = files.cert.blob, !.meta.cert = Mtime("cert")]
    /\ UNCHANGED <<served, overtaken, reloadOnly>>

ReloadKey ==
    /\ reload.pc = "load_key"
    /\ LET cert == LoadedWith(reload.cert_pem) IN
        reload' = [reload EXCEPT !.pc = IF cert = None THEN "idle" ELSE "store", !.cert_pem = None,
                                 !.cert = cert, !.meta.key = Mtime("key")]
    /\ UNCHANGED <<served, overtaken, reloadOnly>>

ReloadStore ==
    /\ reload.pc = "store"
    /\ served' = reload.cert
    /\ overtaken' = (reload.meta # Mtimes)
    /\ reload' = [pc |-> "idle", cert_pem |-> None, cert |-> None, meta |-> Unread]
    /\ UNCHANGED reloadOnly

----------------------------------------------------------------------------
(***************************************************************************)
(* certificate_callback: the client CAs, then the certificate.             *)
(***************************************************************************)
shakeOnly == <<conf, stage, world, served, store, clientCa, status, refresh, watcher, reload, overtaken>>

(* How the client is verified: against the store, or not at all; "fail"    *)
(* ends the handshake.                                                     *)
configure_ssl ==
    IF Config.client_auth = "off" THEN "none"
    ELSE IF clientCa # {} THEN "store"
    ELSE IF Config.client_auth = "required" THEN "fail" ELSE "unverified"

Hello(name) ==
    /\ shake.pc # "select" /\ stage = "serving"
    /\ shake' = [pc |-> IF configure_ssl = "fail" THEN "done" ELSE "select",
                 name |-> IF TlsMode(Config) = "file" THEN None ELSE name,
                 verify |-> configure_ssl, cert |-> None]
    /\ UNCHANGED shakeOnly

Select ==
    /\ shake.pc = "select"
    /\ shake' = [shake EXCEPT !.pc = "done", !.name = None,
                    !.cert = IF TlsMode(Config) = "file" THEN served
                             ELSE select(store, shake.name, Config.strict_sni)]
    /\ UNCHANGED shakeOnly

(* The tasks leave their loops at an await; a handler is not interrupted. *)
Shutdown ==
    /\ stage = "serving"
    /\ stage' = "shutdown"
    /\ refresh' = [t \in Tasks |-> IF refresh[t].pc = "status" THEN refresh[t] ELSE [refresh[t] EXCEPT !.pc = "off"]]
    /\ watcher' = IF watcher.pc = "tick" THEN [watcher EXCEPT !.pc = "off"] ELSE watcher
    /\ UNCHANGED <<conf, world, served, store, clientCa, status, reload, shake, overtaken>>

----------------------------------------------------------------------------
Startup == NoClientCa \/ LoadClientCaFile \/ NoCertificates \/ LoadFirstCert \/ LoadFirstKey
Watch == StartWatcher \/ ReadCertMeta \/ ReadKeyMeta \/ LoadCert \/ LoadKey
Reload == ReloadCert \/ ReloadKey \/ ReloadStore
Handshake == (\E n \in ServerNames : Hello(n)) \/ Select
Outside ==
    \/ \E f \in {"cert", "key"}, b \in FileBlobs \cup {None} : Write(f, b)
    \/ \E k \in KvStates : ChangeKv(k)
    \/ \E c \in CaStates : ChangeCa(c)
    \/ Shutdown

Next ==
    \/ Startup \/ Watch \/ Reload \/ Handshake \/ Outside
    \/ ReplyTls \/ ReplyClientCa \/ ReadFails
    \/ \E t \in Tasks : Report(t) \/ Fail(t) \/ Wake(t)

(* Files are polled, queries are answered, and sleeps end. *)
Spec ==
    /\ Init /\ [][Next]_vars
    /\ WF_vars(Watch)
    /\ WF_vars(ReloadStore)
    /\ WF_vars(ReplyTls) /\ WF_vars(ReplyClientCa)
    /\ \A t \in Tasks : WF_vars(Report(t)) /\ WF_vars(Wake(t))

----------------------------------------------------------------------------
Pairs == {Pem[b].cert : b \in DOMAIN Pem} \cup {Pem[b].key : b \in DOMAIN Pem}
Loaded(entries) == [entry : entries, leaf : Pairs \ {None}, key : Pairs \ {None}]

(* Every variable holds values of its type; the pause of a refreshing task *)
(* stays at or below its cap.                                              *)
TypeOK ==
    /\ conf \in Configs
    /\ stage \in {"client_ca", "tls", "load_key", "serving", "shutdown", "none", "exited", "skipped"}
    /\ served = None \/ served \in Loaded({"static-file"})
    /\ DOMAIN store \subseteq DOMAIN KeyOrder /\ Range(store) \subseteq Loaded(Range(KeyOrder))
    /\ \A t \in Tasks :
        /\ refresh[t].pc \in {"query", "status", "sleep", "off"}
        /\ refresh[t].backoff \in 1 .. MaxBackoff
        /\ status[t].error \in BOOLEAN
    /\ watcher.pc \in {"off", "start", "tick", "key_meta", "load_cert", "load_key"}
    /\ reload.pc \in {"idle", "load_key", "store"}
    /\ shake.pc \in {"idle", "select", "done"}
    /\ shake.verify \in {"none", "store", "fail", "unverified"}
    /\ overtaken \in BOOLEAN

(* Whatever a listener serves, or holds ready, is a certificate with its   *)
(* own key, although certificate and key are written and read one after    *)
(* the other (from_pem_pair).                                              *)
PairsMatch ==
    \A c \in Range(store) \cup {served, shake.cert, reload.cert} : c # None => c.leaf = c.key

(* A listener that asks its clients for certificates verifies them in      *)
(* every handshake that is given a certificate: it does not start without  *)
(* client CAs, and never loses them (configure_ssl, apply_snapshot, main). *)
ClientsAreVerified ==
    shake.cert # None /\ Config.client_auth # "off" => shake.verify = "store"

(* Outside an update, the status names the entries that are in the store,  *)
(* in the store's order; main decides on it whether to listen              *)
(* (apply_consul_snapshot).                                                *)
StatusIsCurrent ==
    /\ refresh["tls"].pc # "status" =>
        status["tls"].loaded = EntryNames(store)
    /\ refresh["client_ca"].pc # "status" => DOMAIN status["client_ca"].loaded = clientCa

Holds(k, entry) == \E key \in DOMAIN KvBlobs[k] : key.kind # "other" /\ classify_fabio_entry(key).cert = entry

(* A reload loses no certificate without cause: a store that has           *)
(* certificates, or client CAs, keeps some; an entry leaves it only when   *)
(* Consul holds neither half of it; and its certificate is replaced only   *)
(* by the one Consul holds (from_fabio_entries, maybe_reuse_previous).     *)
KeepsLastGood ==
    [][/\ DOMAIN store # {} => DOMAIN store' # {}
       /\ clientCa # {} => clientCa' # {}
       /\ \A c \in Range(store) :
            \/ c \in Range(store')
            \/ ~Holds(kv, c.entry)
            \/ \E d \in Range(store') :
                    d.entry = c.entry /\ d = LoadEntry(KvBlobs[kv], classify_fabio_entry(d.entry))]_vars

Bears(c, n) == n # None /\ n \in CertNames[c.leaf]

(* A handshake gets a certificate that bears the name asked for if there   *)
(* is one, else one for its wildcard, and among those the first entry's;   *)
(* else a strict listener gives none and another its first (select).       *)
BestCertificate ==
    [][shake.pc = "select" /\ shake'.pc = "done" /\ TlsMode(Config) = "consul_kv" =>
        LET held == store
            wildcard == IF shake.name = None THEN None ELSE Wildcard[shake.name]
            exact == {i \in DOMAIN held : Bears(held[i], shake.name)}
            close == {i \in DOMAIN held : Bears(held[i], wildcard)}
            fit == IF exact # {} THEN exact ELSE close
        IN IF fit # {} THEN shake'.cert = held[Min(fit)]
           ELSE shake'.cert = IF Config.strict_sni \/ DOMAIN held = {} THEN None ELSE held[Min(DOMAIN held)]]_vars

(* Once the files stop changing and hold a pair, the listener serves it    *)
(* from then on, whatever the order of writes, polls and reloads, unless   *)
(* the watcher has been overtaken: by a write between main's load and its  *)
(* own start, or by a manual reload that read older files                  *)
(* (FileCertWatcherService::start).                                        *)
FilesCatchUp ==
    <>[](stage = "serving" /\ FileCert # None /\ TlsMode(Config) = "file" /\ ~overtaken => served = FileCert)

(* Once Consul's data stops changing, the store holds every entry that is  *)
(* complete there, and, if there is one, none that is gone                 *)
(* (ConsulTlsBackgroundService, ConsulClientCaBackgroundService).          *)
StoresCatchUp ==
    LET complete(k) == Range(from_fabio_entries(KvBlobs[k], EmptySnapshot).snapshot)
    IN <>[](stage = "serving" =>
            /\ TlsMode(Config) = "consul_kv" =>
                /\ complete(kv) \subseteq Range(store)
                /\ complete(kv) # {} => \A e \in Entries(store) : Holds(kv, e)
            /\ ClientAuth(Config) = "consul_kv" =>
                LET next == ca_from_entries(CaBlobs[ca], CaRefused)
                IN next # None => next.store \in {{}, clientCa})

(* What main sees when it decides to listen is true, and a listener that   *)
(* is to verify its clients does.                                          *)
ListenersAreSafe == StatusIsCurrent /\ ClientsAreVerified

(* A handshake gets a certificate with its own key, and the best there is. *)
RightCertificate == [](TypeOK /\ PairsMatch) /\ BestCertificate

(* Served certificates catch up with the files and with Consul.            *)
CertificatesCatchUp == FilesCatchUp /\ StoresCatchUp
=============================================================================
