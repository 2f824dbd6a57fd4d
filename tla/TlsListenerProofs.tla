------------------------- MODULE TlsListenerProofs -------------------------
(***************************************************************************)
(* Proofs about a TLS listener, for any configurations, any contents of the*)
(* files and of Consul, and any number of writes and failures.             *)
(***************************************************************************)
EXTENDS TlsListener, WellFoundedInduction, TLAPS

----------------------------------------------------------------------------
(***************************************************************************)
(* The inductive invariant.  A snapshot holds one certificate per entry,   *)
(* each with its own key.                                                  *)
(***************************************************************************)
GoodCert(c) == c # None /\ c \in Loaded(Range(KeyOrder)) /\ c.leaf = c.key
GoodFileCert(c) == c \in Loaded({"static-file"}) /\ c.leaf = c.key

GoodSnapshot(s) ==
    /\ DOMAIN s \subseteq DOMAIN KeyOrder
    /\ \A i \in DOMAIN s : GoodCert(s[i])
    /\ \A i, j \in DOMAIN s : s[i].entry = s[j].entry => i = j

(***************************************************************************)
(* What is read from the files, by the watcher and by a reload.            *)
(***************************************************************************)
Times == Nat \cup {None}
Metas == [cert : Times, key : Times]
FileStates == [blob : FileBlobs \cup {None}, mtime : Nat]

WatcherRecord ==
    [pc : {"off", "start", "tick", "key_meta", "load_cert", "load_key"}, last_meta : Metas,
     current_meta : Metas, cert_pem : FileBlobs \cup {None}]

ReloadInv ==
    /\ reload = [pc |-> reload.pc, cert_pem |-> reload.cert_pem, cert |-> reload.cert, meta |-> reload.meta]
    /\ reload.pc \in {"idle", "load_key", "store"}
    /\ reload.cert_pem \in FileBlobs \cup {None} /\ reload.meta \in Metas
    /\ reload.cert = None \/ GoodFileCert(reload.cert)
    /\ reload.pc = "store" => reload.cert # None

FilesInv ==
    /\ conf \in Configs /\ kv \in KvStates /\ ca \in CaStates
    /\ files \in [cert : FileStates, key : FileStates]
    /\ watcher \in WatcherRecord
    /\ served = None \/ GoodFileCert(served)
    /\ overtaken \in BOOLEAN

(***************************************************************************)
(* What a store reports is on its way while its task is about to set the   *)
(* status, and is the status else.                                         *)
(***************************************************************************)
IsReport(r) == r = [loaded |-> r.loaded, error |-> r.error] /\ r.error \in BOOLEAN

IsTask(r) ==
    /\ r = [pc |-> r.pc, backoff |-> r.backoff, report |-> r.report]
    /\ r.pc \in {"query", "status", "sleep", "off"} /\ r.backoff \in 1 .. MaxBackoff

Told(task, reported) == IF task.pc = "status" THEN task.report ELSE reported

TaskInv(task, reported, names) ==
    /\ IsTask(task) /\ IsReport(reported)
    /\ IsReport(Told(task, reported)) /\ Told(task, reported).loaded = names

TasksInv ==
    /\ refresh = [t \in Tasks |-> refresh[t]] /\ status = [t \in Tasks |-> status[t]]
    /\ TaskInv(refresh["tls"], status["tls"], EntryNames(store))
    /\ TaskInv(refresh["client_ca"], status["client_ca"], CaNames(clientCa))
    /\ refresh["client_ca"].pc = "status" => ClientAuth(Config) = "consul_kv"

(***************************************************************************)
(* Main goes beyond the client CAs only with some, if they are to be used. *)
(***************************************************************************)
Beyond == {"tls", "load_key", "serving", "shutdown"}
StageInv ==
    /\ stage \in Beyond \cup {"client_ca", "none", "exited", "skipped"}
    /\ stage \in Beyond /\ Config.client_auth # "off" => clientCa # {}

ShakeInv ==
    /\ shake = [pc |-> shake.pc, name |-> shake.name, verify |-> shake.verify, cert |-> shake.cert]
    /\ shake.pc \in {"idle", "select", "done"}
    /\ shake.verify \in {"none", "store", "fail", "unverified"}
    /\ shake.cert = None \/ shake.cert.leaf = shake.cert.key
    /\ shake.pc = "select" => stage \in {"serving", "shutdown"}
    /\ (shake.pc = "select" \/ shake.cert # None) /\ Config.client_auth # "off" => shake.verify = "store"

TlsInv ==
    /\ FilesInv /\ ReloadInv /\ GoodSnapshot(store) /\ TasksInv /\ StageInv /\ ShakeInv

----------------------------------------------------------------------------
(***************************************************************************)
(* Snapshots: what from_fabio_entries builds.                              *)
(***************************************************************************)

\* The keys come in a sequence.
LEMMA KeysInOrder == DOMAIN KeyOrder \subseteq Nat /\ DOMAIN KeyOrder = 1 .. Len(KeyOrder) /\ Len(KeyOrder) \in Nat
<1>1. KeyOrder \in Seq(Range(KeyOrder))
  BY CertAssumption DEF CertAssumption
<1> QED
  BY <1>1

\* The blobs of an entry and of the files can be parsed.
LEMMA BlobsKnown ==
  /\ FileBlobs \subseteq DOMAIN Pem
  /\ \A k \in KvStates : DOMAIN KvBlobs[k] \subseteq Range(KeyOrder)
  /\ \A k \in KvStates : \A key \in DOMAIN KvBlobs[k] : KvBlobs[k][key] \in DOMAIN Pem
<1>1. /\ FileBlobs \subseteq DOMAIN Pem
      /\ \A k \in KvStates : DOMAIN KvBlobs[k] \subseteq Range(KeyOrder) /\ Range(KvBlobs[k]) \subseteq DOMAIN Pem
  BY TlsAssumption DEF TlsAssumption
<1>2. \A f, x : x \in DOMAIN f => f[x] \in Range(f)
  BY Zenon DEF Range
<1> QED
  BY <1>1, <1>2

\* A certificate is loaded only with its own key.
LEMMA PairLoads ==
  ASSUME NEW entries, NEW entry \in entries, NEW c \in DOMAIN Pem, NEW k \in DOMAIN Pem,
         from_pem_pair(entry, c, k) # None
  PROVE  /\ from_pem_pair(entry, c, k) \in Loaded(entries)
         /\ from_pem_pair(entry, c, k).leaf = from_pem_pair(entry, c, k).key
         /\ from_pem_pair(entry, c, k).entry = entry
<1>1. from_pem_pair(entry, c, k) = [entry |-> entry, leaf |-> Pem[c].cert, key |-> Pem[k].key]
  BY DEF from_pem_pair
<1>2. Pem[k].key = Pem[c].cert /\ Pem[c].cert # None
  BY DEF from_pem_pair
<1>3. Pem[c].cert \in Pairs \ {None}
  BY <1>2 DEF Pairs
<1> QED
  BY <1>1, <1>2, <1>3 DEF Loaded

\* What an entry of Consul holds is a certificate with its key.
LEMMA EntryLoads ==
  ASSUME NEW k \in KvStates, NEW e, LoadEntry(KvBlobs[k], e) # None
  PROVE  GoodCert(LoadEntry(KvBlobs[k], e)) /\ LoadEntry(KvBlobs[k], e).entry = e.cert
<1>1. e.cert \in DOMAIN KvBlobs[k] /\ e.key \in DOMAIN KvBlobs[k]
      /\ LoadEntry(KvBlobs[k], e) = from_pem_pair(e.cert, KvBlobs[k][e.cert], KvBlobs[k][e.key])
  BY DEF LoadEntry
<1>2. e.cert \in Range(KeyOrder) /\ KvBlobs[k][e.cert] \in DOMAIN Pem /\ KvBlobs[k][e.key] \in DOMAIN Pem
  BY <1>1, BlobsKnown
<1> QED
  BY <1>1, <1>2, PairLoads DEF GoodCert

\* A certificate that is kept was there, under the name of its entry.
LEMMA ReuseKeeps ==
  ASSUME NEW previous, NEW entry, maybe_reuse_previous(previous, entry) # None
  PROVE  \E i \in DOMAIN previous : maybe_reuse_previous(previous, entry) = previous[i] /\ previous[i].entry = entry
<1>1. entry \in Entries(previous)
  BY DEF maybe_reuse_previous
<1>2. PICK j \in DOMAIN previous : previous[j].entry = entry
  BY <1>1 DEF Entries
<1>3. previous[j] \in Range(previous)
  BY DEF Range
<1> DEFINE c == CHOOSE c \in Range(previous) : c.entry = entry
<1>4. c \in Range(previous) /\ c.entry = entry
  BY <1>2, <1>3
<1>5. maybe_reuse_previous(previous, entry) = c
  BY <1>1 DEF maybe_reuse_previous
<1> HIDE DEF c
<1> QED
  BY <1>4, <1>5 DEF Range

\* The one certificate of an entry is the one that is kept.
LEMMA ReuseIsUnique ==
  ASSUME NEW previous, GoodSnapshot(previous), NEW i \in DOMAIN previous
  PROVE  maybe_reuse_previous(previous, previous[i].entry) = previous[i]
<1> DEFINE c == CHOOSE c \in Range(previous) : c.entry = previous[i].entry
<1>1. previous[i] \in Range(previous) /\ previous[i].entry \in Entries(previous)
  BY DEF Range, Entries
<1>2. maybe_reuse_previous(previous, previous[i].entry) = c
  BY <1>1 DEF maybe_reuse_previous
<1>3. c \in Range(previous) /\ c.entry = previous[i].entry
  BY <1>1
<1> HIDE DEF c
<1>4. PICK j \in DOMAIN previous : c = previous[j]
  BY <1>3 DEF Range
<1>5. i = j
  BY <1>3, <1>4 DEF GoodSnapshot
<1> QED
  BY <1>2, <1>4, <1>5

\* What an entry gives to a snapshot, if it gives something.
LEMMA CertificateGiven ==
  ASSUME NEW k \in KvStates, NEW previous, GoodSnapshot(previous), NEW i \in DOMAIN KeyOrder,
         CertificateAt(KvBlobs[k], previous, i) # None
  PROVE  /\ Handled(KvBlobs[k], i)
         /\ GoodCert(CertificateAt(KvBlobs[k], previous, i))
         /\ CertificateAt(KvBlobs[k], previous, i).entry = EntryAt(i).cert
<1>1. Handled(KvBlobs[k], i)
  BY DEF CertificateAt
<1>2. CASE LoadEntry(KvBlobs[k], EntryAt(i)) # None
  <2>1. CertificateAt(KvBlobs[k], previous, i) = LoadEntry(KvBlobs[k], EntryAt(i))
    BY <1>1, <1>2 DEF CertificateAt
  <2> QED
    BY <1>1, <1>2, <2>1, EntryLoads
<1>3. CASE LoadEntry(KvBlobs[k], EntryAt(i)) = None
  <2>1. CertificateAt(KvBlobs[k], previous, i) = maybe_reuse_previous(previous, EntryAt(i).cert)
    BY <1>1, <1>3 DEF CertificateAt
  <2>2. PICK j \in DOMAIN previous : CertificateAt(KvBlobs[k], previous, i) = previous[j]
                                    /\ previous[j].entry = EntryAt(i).cert
    BY <2>1, ReuseKeeps
  <2> QED
    BY <1>1, <2>2 DEF GoodSnapshot
<1> QED
  BY <1>2, <1>3

\* An entry is handled once.
LEMMA HandledOnce ==
  ASSUME NEW entries, NEW i \in DOMAIN KeyOrder, NEW j \in DOMAIN KeyOrder,
         Handled(entries, i), Handled(entries, j), EntryAt(i).cert = EntryAt(j).cert
  PROVE  i = j
<1>1. i \in 1 .. Len(KeyOrder) /\ j \in 1 .. Len(KeyOrder) /\ Len(KeyOrder) \in Nat
  BY KeysInOrder
<1>2. ~(i < j)
  <2>1. i < j => i \in 1 .. j - 1
    BY <1>1
  <2> QED
    BY <2>1 DEF Handled
<1>3. ~(j < i)
  <2>1. j < i => j \in 1 .. i - 1
    BY <1>1
  <2> QED
    BY <2>1 DEF Handled
<1> QED
  BY <1>1, <1>2, <1>3

\* The snapshot built from a good one is good.
LEMMA BuiltIsGood ==
  ASSUME NEW k \in KvStates, NEW previous, GoodSnapshot(previous)
  PROVE  GoodSnapshot(from_fabio_entries(KvBlobs[k], previous).snapshot)
<1> DEFINE c(i) == CertificateAt(KvBlobs[k], previous, i)
           kept == {i \in DOMAIN KeyOrder : c(i) # None}
           s == [i \in kept |-> c(i)]
<1>1. from_fabio_entries(KvBlobs[k], previous).snapshot = s
  BY DEF from_fabio_entries
<1>2. \A i \in kept : Handled(KvBlobs[k], i) /\ GoodCert(c(i)) /\ c(i).entry = EntryAt(i).cert
  BY CertificateGiven
<1>3. \A i, j \in kept : c(i).entry = c(j).entry => i = j
  BY <1>2, HandledOnce
<1>4. kept \subseteq DOMAIN KeyOrder /\ DOMAIN s = kept /\ \A i \in kept : s[i] = c(i)
  OBVIOUS
<1> HIDE DEF c, kept, s
<1> QED
  BY <1>1, <1>2, <1>3, <1>4 DEF GoodSnapshot

\* A set of numbers that is not empty has a least one.
LEMMA MinIsLeast ==
  ASSUME NEW S, S \subseteq Nat, S # {}
  PROVE  Min(S) \in S /\ \A n \in S : Min(S) <= n
<1> DEFINE R == {p \in Nat \X Nat : p[1] < p[2]}
<1>1. IsWellFoundedOn(R, Nat)
  BY NatLessThanWellFounded DEF OpToRel
<1>2. \A x, y \in Nat : x < y => <<x, y>> \in R
  OBVIOUS
<1> HIDE DEF R
<1>3. PICK x \in S : \A y \in S : ~(<<y, x>> \in R)
  BY <1>1, WFMin
<1>4. ASSUME NEW y \in S PROVE x <= y
  <2>1. x \in Nat /\ y \in Nat
    OBVIOUS
  <2>2. ~(y < x)
    BY <1>2, <1>3, <2>1
  <2>3. QED
    BY <2>1, <2>2
<1>5. QED
  BY <1>3, <1>4 DEF Min

\* The entry of a key is the entry of its certificate key.
LEMMA EntryOfCert ==
  ASSUME NEW k \in Range(KeyOrder), k.kind # "other"
  PROVE  classify_fabio_entry(classify_fabio_entry(k).cert) = classify_fabio_entry(k)
<1>1. k = [base |-> k.base, kind |-> k.kind] /\ k.kind \in {"cert", "key", "pem", "other"}
  BY CertAssumption DEF CertAssumption
<1>2. CASE k.kind \in {"cert", "key"}
  <2> DEFINE c == [base |-> k.base, kind |-> "cert"]
  <2>1. [k EXCEPT !.kind = "cert"] = c /\ [k EXCEPT !.kind = "key"] = [base |-> k.base, kind |-> "key"]
    BY <1>1
  <2>2. [c EXCEPT !.kind = "cert"] = c /\ [c EXCEPT !.kind = "key"] = [base |-> k.base, kind |-> "key"]
    OBVIOUS
  <2>3. c.kind = "cert"
    OBVIOUS
  <2> HIDE DEF c
  <2>4. classify_fabio_entry(k) = [cert |-> c, key |-> [base |-> k.base, kind |-> "key"]]
    BY <1>2, <2>1 DEF classify_fabio_entry
  <2>5. classify_fabio_entry(c) = [cert |-> c, key |-> [base |-> k.base, kind |-> "key"]]
    BY <2>2, <2>3 DEF classify_fabio_entry
  <2> QED
    BY <2>4, <2>5
<1>3. CASE k.kind \notin {"cert", "key"}
  BY <1>3 DEF classify_fabio_entry
<1> QED
  BY <1>2, <1>3

\* An entry of which Consul holds a key is handled at some key.
LEMMA SomeKeyHandles ==
  ASSUME NEW k \in KvStates, NEW entry, Holds(k, entry)
  PROVE  \E i \in DOMAIN KeyOrder : Handled(KvBlobs[k], i) /\ EntryAt(i).cert = entry
<1> DEFINE S == {i \in DOMAIN KeyOrder : Met(KvBlobs[k], i) /\ EntryAt(i).cert = entry}
<1>1. PICK key \in DOMAIN KvBlobs[k] : key.kind # "other" /\ classify_fabio_entry(key).cert = entry
  BY DEF Holds
<1>2. PICK i \in DOMAIN KeyOrder : KeyOrder[i] = key
  BY BlobsKnown DEF Range
<1>3. i \in S
  BY <1>1, <1>2 DEF Met, EntryAt
<1>4. S \subseteq Nat /\ S # {}
  BY <1>3, KeysInOrder
<1>5. Min(S) \in S /\ \A n \in S : Min(S) <= n
  BY <1>4, MinIsLeast
<1>6. ASSUME NEW j \in 1 .. Min(S) - 1, Met(KvBlobs[k], j)
      PROVE  EntryAt(j).cert # entry
  <2>1. Min(S) \in 1 .. Len(KeyOrder) /\ Len(KeyOrder) \in Nat
    BY <1>5, KeysInOrder
  <2>2. j \in DOMAIN KeyOrder /\ ~(Min(S) <= j)
    BY <2>1, KeysInOrder
  <2>3. j \notin S
    BY <1>5, <2>2
  <2> QED
    BY <1>6, <2>2, <2>3
<1>7. Handled(KvBlobs[k], Min(S))
  BY <1>5, <1>6 DEF Handled
<1> QED
  BY <1>5, <1>7

\* A reload keeps the certificate of an entry, or has a reason.
LEMMA BuiltKeeps ==
  ASSUME NEW k \in KvStates, NEW previous, GoodSnapshot(previous), NEW c \in Range(previous), Holds(k, c.entry),
         NEW next, next = from_fabio_entries(KvBlobs[k], previous).snapshot
  PROVE  \/ c \in Range(next)
         \/ \E d \in Range(next) :
                d.entry = c.entry /\ d = LoadEntry(KvBlobs[k], classify_fabio_entry(d.entry))
<1>1. PICK i \in DOMAIN KeyOrder : Handled(KvBlobs[k], i) /\ EntryAt(i).cert = c.entry
  BY SomeKeyHandles
<1>2. PICK p \in DOMAIN previous : previous[p] = c
  BY DEF Range
<1>3. c # None
  BY <1>2 DEF GoodSnapshot, GoodCert
<1> DEFINE kept == {n \in DOMAIN KeyOrder : CertificateAt(KvBlobs[k], previous, n) # None}
<1>4. next = [n \in kept |-> CertificateAt(KvBlobs[k], previous, n)]
  BY DEF from_fabio_entries
<1>5. ASSUME CertificateAt(KvBlobs[k], previous, i) # None
      PROVE  CertificateAt(KvBlobs[k], previous, i) \in Range(next)
  <2>1. i \in DOMAIN next /\ next[i] = CertificateAt(KvBlobs[k], previous, i)
    BY <1>4, <1>5
  <2> QED
    BY <2>1 DEF Range
<1>6. CASE LoadEntry(KvBlobs[k], EntryAt(i)) # None
  <2> DEFINE d == LoadEntry(KvBlobs[k], EntryAt(i))
  <2>1. CertificateAt(KvBlobs[k], previous, i) = d
    BY <1>1, <1>6 DEF CertificateAt
  <2>2. d.entry = c.entry
    BY <1>1, <1>6, EntryLoads
  <2>3. KeyOrder[i] \in Range(KeyOrder) /\ KeyOrder[i].kind # "other"
    BY <1>1 DEF Range, Handled, Met
  <2>4. classify_fabio_entry(d.entry) = EntryAt(i)
    BY <1>1, <2>2, <2>3, EntryOfCert DEF EntryAt
  <2> QED
    BY <1>5, <1>6, <2>1, <2>2, <2>4
<1>7. CASE LoadEntry(KvBlobs[k], EntryAt(i)) = None
  <2>1. maybe_reuse_previous(previous, EntryAt(i).cert) = c
    BY <1>1, <1>2, ReuseIsUnique
  <2>2. CertificateAt(KvBlobs[k], previous, i) = c
    BY <1>1, <1>7, <2>1 DEF CertificateAt
  <2> QED
    BY <1>3, <1>5, <2>2
<1> QED
  BY <1>6, <1>7

(***************************************************************************)
(* The certificate for a name.                                             *)
(***************************************************************************)
Named(s, n) == {i \in DOMAIN s : n \in CertNames[s[i].leaf]}

\* The index of names points at the first certificate that bears the name.
LEMMA NameIndex ==
  ASSUME NEW s, NEW n
  PROVE  /\ n \in DOMAIN by_name(s) <=> Named(s, n) # {}
         /\ Named(s, n) # {} => by_name(s)[n] = Min(Named(s, n))
<1> DEFINE D == UNION {CertNames[s[i].leaf] : i \in DOMAIN s}
           f == [m \in D |-> Min({i \in DOMAIN s : m \in CertNames[s[i].leaf]})]
<1>1. by_name(s) = f
  BY DEF by_name
<1>2. n \in D <=> Named(s, n) # {}
  BY DEF Named
<1>3. n \in D => f[n] = Min(Named(s, n))
  BY DEF Named
<1> QED
  BY <1>1, <1>2, <1>3

\* No certificate bears the name of a client that sent none.
LEMMA NoneIsUnnamed ==
  ASSUME NEW s, GoodSnapshot(s)
  PROVE  Named(s, None) = {}
<1> SUFFICES ASSUME NEW i \in DOMAIN s PROVE None \notin CertNames[s[i].leaf]
  BY DEF Named
<1>1. s[i].leaf \in Pairs \ {None}
  BY DEF GoodSnapshot, GoodCert, Loaded
<1>2. PICK b \in DOMAIN Pem : s[i].leaf \in {Pem[b].cert, Pem[b].key} \ {None}
  BY <1>1 DEF Pairs
<1>3. \A p \in {Pem[b].cert, Pem[b].key} \ {None} : None \notin CertNames[p]
  BY CertAssumption DEF CertAssumption
<1> QED
  BY <1>2, <1>3

\* What select gives, by the certificates that bear the name.
LEMMA SelectIsBest ==
  ASSUME NEW s, GoodSnapshot(s), NEW n, NEW strict,
         NEW w, w = IF n = None THEN None ELSE Wildcard[n]
  PROVE  select(s, n, strict) =
            IF Named(s, n) # {} THEN s[Min(Named(s, n))]
            ELSE IF Named(s, w) # {} THEN s[Min(Named(s, w))]
            ELSE IF strict \/ DOMAIN s = {} THEN None ELSE s[Min(DOMAIN s)]
<1>1. DOMAIN s = {} => Named(s, n) = {} /\ Named(s, w) = {}
  BY DEF Named
<1>2. /\ n \in DOMAIN by_name(s) <=> Named(s, n) # {}
      /\ Named(s, n) # {} => by_name(s)[n] = Min(Named(s, n))
  BY NameIndex
<1>3. /\ w \in DOMAIN by_name(s) <=> Named(s, w) # {}
      /\ Named(s, w) # {} => by_name(s)[w] = Min(Named(s, w))
  BY NameIndex
<1> QED
  BY <1>1, <1>2, <1>3 DEF select

\* And that is a good certificate.
LEMMA SelectIsGood ==
  ASSUME NEW s, GoodSnapshot(s), NEW n, NEW strict
  PROVE  select(s, n, strict) = None \/ GoodCert(select(s, n, strict))
<1>1. ASSUME NEW S, S \subseteq DOMAIN s, S # {} PROVE GoodCert(s[Min(S)])
  <2>1. S \subseteq Nat
    BY <1>1, KeysInOrder DEF GoodSnapshot
  <2>2. Min(S) \in DOMAIN s
    BY <1>1, <2>1, MinIsLeast
  <2> QED
    BY <2>2 DEF GoodSnapshot
<1>2. \A m : Named(s, m) \subseteq DOMAIN s
  BY DEF Named
<1> DEFINE w == IF n = None THEN None ELSE Wildcard[n]
<1>3. select(s, n, strict) =
            IF Named(s, n) # {} THEN s[Min(Named(s, n))]
            ELSE IF Named(s, w) # {} THEN s[Min(Named(s, w))]
            ELSE IF strict \/ DOMAIN s = {} THEN None ELSE s[Min(DOMAIN s)]
  BY SelectIsBest
<1> HIDE DEF w
<1> QED
  BY <1>1, <1>2, <1>3

----------------------------------------------------------------------------
(***************************************************************************)
(* The invariant holds initially.                                          *)
(***************************************************************************)
LEMMA TlsInvInit == Init => TlsInv
<1> SUFFICES ASSUME Init PROVE TlsInv
  OBVIOUS
<1> USE DEF Init
<1>1. MaxBackoff \in Nat \ {0}
  BY TlsAssumption DEF TlsAssumption
<1>2. FilesInv
  <2>1. conf \in Configs /\ kv \in KvStates /\ ca \in CaStates /\ served = None /\ overtaken \in BOOLEAN
    OBVIOUS
  <2>2. PICK b \in FileBlobs : files = [cert |-> [blob |-> b, mtime |-> 1], key |-> [blob |-> b, mtime |-> 1]]
    OBVIOUS
  <2>3. files \in [cert : FileStates, key : FileStates]
    BY <2>2 DEF FileStates
  <2>4. Unread \in Metas
    BY DEF Unread, Metas, Times
  <2>5. watcher \in WatcherRecord
    BY <2>4 DEF WatcherRecord
  <2> QED
    BY <2>1, <2>3, <2>5 DEF FilesInv
<1>3. ReloadInv
  BY DEF ReloadInv, Metas, Times, Unread
<1>4. DOMAIN store = {}
  BY DEF EmptySnapshot
<1>5. GoodSnapshot(store)
  BY <1>4 DEF GoodSnapshot
<1>6. TasksInv
  <2>1. IsTask(Resting) /\ Resting.pc = "query"
    BY <1>1 DEF IsTask, Resting
  <2>2. IsReport(NoStatus) /\ NoStatus.loaded = EmptySnapshot
    BY DEF IsReport, NoStatus
  <2>3. EntryNames(store) = EmptySnapshot /\ CaNames(clientCa) = EmptySnapshot
    BY <1>4 DEF EntryNames, EmptySnapshot, CaNames
  <2>4. refresh["tls"] = Resting /\ refresh["client_ca"] = Resting /\ status["tls"] = NoStatus /\ status["client_ca"] = NoStatus
    BY DEF Tasks
  <2>5. refresh = [t \in Tasks |-> refresh[t]] /\ status = [t \in Tasks |-> status[t]]
    OBVIOUS
  <2> QED
    BY <2>1, <2>2, <2>3, <2>4, <2>5 DEF TasksInv, TaskInv, Told
<1>7. StageInv
  BY DEF StageInv, Beyond
<1>8. ShakeInv
  BY DEF ShakeInv
<1> QED
  BY <1>2, <1>3, <1>5, <1>6, <1>7, <1>8 DEF TlsInv

----------------------------------------------------------------------------
(***************************************************************************)
(* The files, the watcher and the manual reload.                           *)
(***************************************************************************)

\* The times of the files.
LEMMA MtimesTyped ==
  ASSUME FilesInv
  PROVE  Mtime("cert") \in Times /\ Mtime("key") \in Times /\ Mtimes \in Metas
<1>1. Mtime("cert") \in Times /\ Mtime("key") \in Times
  BY DEF FilesInv, Mtime, Times, FileStates
<1> QED
  BY <1>1 DEF Mtimes, Metas

\* A pair read in two steps is a certificate with its own key, or nothing.
LEMMA FilePairLoads ==
  ASSUME FilesInv, NEW p \in FileBlobs \cup {None}
  PROVE  LoadedWith(p) = None \/ GoodFileCert(LoadedWith(p))
<1> SUFFICES ASSUME LoadedWith(p) # None PROVE GoodFileCert(LoadedWith(p))
  OBVIOUS
<1>1. files.key.blob \in FileBlobs \cup {None}
  BY DEF FilesInv, FileStates
<1>2. p # None /\ files.key.blob # None /\ LoadedWith(p) = from_pem_pair("static-file", p, files.key.blob)
  BY DEF LoadedWith
<1>3. p \in DOMAIN Pem /\ files.key.blob \in DOMAIN Pem
  BY <1>1, <1>2, BlobsKnown
<1> DEFINE entry == "static-file"
           cert == from_pem_pair(entry, p, files.key.blob)
<1>4. entry \in {entry}
  OBVIOUS
<1> HIDE DEF entry
<1>5. cert # None => cert \in Loaded({entry}) /\ cert.leaf = cert.key
  BY <1>3, <1>4, PairLoads
<1> QED
  BY <1>2, <1>5 DEF GoodFileCert, entry

\* What the world outside holds keeps its types.
LEMMA WorldStep ==
  ASSUME FilesInv, [Next]_vars
  PROVE  conf' = conf /\ kv' \in KvStates /\ ca' \in CaStates /\ files' \in [cert : FileStates, key : FileStates]
<1>1. conf' = conf
  BY DEF Next, vars, world, Startup, Watch, Reload, Handshake, Outside, NoClientCa, LoadClientCaFile,
         NoCertificates, LoadFirstCert, LoadFirstKey, StartWatcher, ReadCertMeta, ReadKeyMeta, LoadCert, LoadKey,
         watcherOnly, ReloadCert, ReloadKey, ReloadStore, reloadOnly, Hello, Select, shakeOnly, Write, ChangeKv,
         ChangeCa, Shutdown, ReplyTls, ReplyClientCa, Apply, ReadFails, Report, Fail, Wake
<1>2. kv' \in KvStates /\ ca' \in CaStates
  BY DEF FilesInv, Next, vars, world, Startup, Watch, Reload, Handshake, Outside, NoClientCa, LoadClientCaFile,
         NoCertificates, LoadFirstCert, LoadFirstKey, StartWatcher, ReadCertMeta, ReadKeyMeta, LoadCert, LoadKey,
         watcherOnly, ReloadCert, ReloadKey, ReloadStore, reloadOnly, Hello, Select, shakeOnly, Write, ChangeKv,
         ChangeCa, Shutdown, ReplyTls, ReplyClientCa, Apply, ReadFails, Report, Fail, Wake
<1>3. ASSUME NEW f \in {"cert", "key"}, NEW b \in FileBlobs \cup {None}, Write(f, b)
      PROVE  files' \in [cert : FileStates, key : FileStates]
  <2> DEFINE x == [blob |-> b, mtime |-> files[f].mtime + 1]
  <2>1. files' = [files EXCEPT ![f] = x]
    BY <1>3 DEF Write
  <2>2. x \in FileStates
    BY DEF FilesInv, FileStates
  <2> HIDE DEF x
  <2> QED
    BY <2>1, <2>2 DEF FilesInv
<1>4. CASE files' = files
  BY <1>1, <1>2, <1>4 DEF FilesInv
<1> QED
  BY <1>1, <1>2, <1>3, <1>4
     DEF Next, vars, world, Startup, Watch, Reload, Handshake, Outside, NoClientCa, LoadClientCaFile,
         NoCertificates, LoadFirstCert, LoadFirstKey, StartWatcher, ReadCertMeta, ReadKeyMeta, LoadCert, LoadKey,
         watcherOnly, ReloadCert, ReloadKey, ReloadStore, reloadOnly, Hello, Select, shakeOnly, ChangeKv,
         ChangeCa, Shutdown, ReplyTls, ReplyClientCa, Apply, ReadFails, Report, Fail, Wake

\* The watcher's own state keeps its type.
LEMMA WatcherStep ==
  ASSUME FilesInv, [Next]_vars
  PROVE  watcher' \in WatcherRecord
<1> watcher \in WatcherRecord /\ Mtime("cert") \in Times /\ Mtime("key") \in Times /\ Mtimes \in Metas
    /\ files.cert.blob \in FileBlobs \cup {None} /\ None \in FileBlobs \cup {None}
  BY MtimesTyped DEF FilesInv, FileStates
<1>1. CASE watcher' = watcher
  BY <1>1
<1>2. ASSUME NEW meta \in Metas PROVE [meta EXCEPT !.cert = Mtime("cert")] \in Metas /\ [meta EXCEPT !.key = Mtime("key")] \in Metas
  BY DEF Metas
<1>3. CASE LoadFirstCert
  <2> DEFINE meta == [watcher.current_meta EXCEPT !.cert = Mtime("cert")]
  <2>1. watcher' = [watcher EXCEPT !.cert_pem = files.cert.blob, !.current_meta = meta]
    BY <1>3 DEF LoadFirstCert, WatcherRecord
  <2>2. meta \in Metas
    BY <1>2 DEF WatcherRecord
  <2> HIDE DEF meta
  <2> QED
    BY <2>1, <2>2 DEF WatcherRecord
<1>4. CASE LoadFirstKey
  <2> DEFINE meta == [watcher.current_meta EXCEPT !.key = Mtime("key")]
  <2>1. watcher' = watcher \/ watcher' = [watcher EXCEPT !.pc = "start", !.current_meta = meta, !.cert_pem = None]
    BY <1>4 DEF LoadFirstKey, WatcherRecord
  <2>2. meta \in Metas
    BY <1>2 DEF WatcherRecord
  <2> HIDE DEF meta
  <2> QED
    BY <1>1, <2>1, <2>2 DEF WatcherRecord
<1>5. CASE StartWatcher
  BY <1>5 DEF StartWatcher, WatcherRecord
<1>6. CASE ReadCertMeta
  <2> DEFINE meta == [watcher.current_meta EXCEPT !.cert = Mtime("cert")]
  <2>1. watcher' = [watcher EXCEPT !.pc = "key_meta", !.current_meta = meta]
    BY <1>6 DEF ReadCertMeta, WatcherRecord
  <2>2. meta \in Metas
    BY <1>2 DEF WatcherRecord
  <2> HIDE DEF meta
  <2> QED
    BY <2>1, <2>2 DEF WatcherRecord
<1>7. CASE ReadKeyMeta
  <2> DEFINE meta == [watcher.current_meta EXCEPT !.key = Mtime("key")]
             next == IF meta = watcher.last_meta THEN "tick" ELSE "load_cert"
  <2>1. watcher' = [watcher EXCEPT !.pc = next, !.current_meta = meta]
    BY <1>7 DEF ReadKeyMeta
  <2>2. meta \in Metas /\ next \in {"tick", "load_cert"}
    BY <1>2 DEF WatcherRecord
  <2> HIDE DEF meta, next
  <2> QED
    BY <2>1, <2>2 DEF WatcherRecord
<1>8. CASE LoadCert
  <2> DEFINE next == IF files.cert.blob = None THEN "tick" ELSE "load_key"
  <2>1. watcher' = [watcher EXCEPT !.pc = next, !.cert_pem = files.cert.blob]
    BY <1>8 DEF LoadCert
  <2>2. next \in {"tick", "load_key"}
    OBVIOUS
  <2> HIDE DEF next
  <2> QED
    BY <2>1, <2>2 DEF WatcherRecord
<1>9. CASE LoadKey \/ ReadFails
  <2>1. \/ watcher' = [watcher EXCEPT !.pc = "tick", !.cert_pem = None]
        \/ watcher' = [watcher EXCEPT !.pc = "tick", !.cert_pem = None, !.last_meta = watcher.current_meta]
    BY <1>9 DEF LoadKey, ReadFails
  <2> QED
    BY <2>1 DEF WatcherRecord
<1>10. CASE Shutdown
  <2>1. watcher' = watcher \/ watcher' = [watcher EXCEPT !.pc = "off"]
    BY <1>10 DEF Shutdown
  <2> QED
    BY <2>1 DEF WatcherRecord
<1> QED
  BY <1>1, <1>3, <1>4, <1>5, <1>6, <1>7, <1>8, <1>9, <1>10
     DEF Next, vars, world, Startup, Watch, Reload, Handshake, Outside, NoClientCa, LoadClientCaFile,
         NoCertificates, ReloadCert, ReloadKey, ReloadStore, reloadOnly, Hello, Select, shakeOnly, Write, ChangeKv,
         ChangeCa, ReplyTls, ReplyClientCa, Apply, Report, Fail, Wake

\* What is served from files is a certificate with its own key.
LEMMA ServedStep ==
  ASSUME FilesInv, ReloadInv, [Next]_vars
  PROVE  (served' = None \/ GoodFileCert(served')) /\ overtaken' \in BOOLEAN
<1>1. CASE served' = served /\ overtaken' = overtaken
  BY <1>1 DEF FilesInv
<1>2. LoadedWith(watcher.cert_pem) = None \/ GoodFileCert(LoadedWith(watcher.cert_pem))
  <2>1. watcher.cert_pem \in FileBlobs \cup {None}
    BY DEF FilesInv, WatcherRecord
  <2> QED
    BY <2>1, FilePairLoads
<1>3. CASE LoadFirstKey \/ LoadKey
  BY <1>2, <1>3 DEF LoadFirstKey, LoadKey, FilesInv
<1>4. CASE StartWatcher
  BY <1>4 DEF StartWatcher, FilesInv
<1>5. CASE ReloadStore
  BY <1>5 DEF ReloadStore, ReloadInv
<1> QED
  BY <1>1, <1>3, <1>4, <1>5
     DEF Next, vars, world, Startup, Watch, Reload, Handshake, Outside, NoClientCa, LoadClientCaFile,
         NoCertificates, LoadFirstCert, ReadCertMeta, ReadKeyMeta, LoadCert, watcherOnly, ReloadCert, ReloadKey,
         reloadOnly, Hello, Select, shakeOnly, Write, ChangeKv,
         ChangeCa, Shutdown, ReplyTls, ReplyClientCa, Apply, ReadFails, Report, Fail, Wake

\* So is what a manual reload holds.
LEMMA ReloadStep ==
  ASSUME FilesInv, ReloadInv, [Next]_vars
  PROVE  ReloadInv'
<1>1. CASE reload' = reload
  BY <1>1 DEF ReloadInv
<1>2. Mtime("cert") \in Times /\ Mtime("key") \in Times /\ files.cert.blob \in FileBlobs \cup {None}
  BY MtimesTyped DEF FilesInv, FileStates
<1>3. CASE ReloadCert
  <2> DEFINE meta == [reload.meta EXCEPT !.cert = Mtime("cert")]
  <2>1. reload' = [pc |-> "load_key", cert_pem |-> files.cert.blob, cert |-> reload.cert, meta |-> meta]
    BY <1>3 DEF ReloadCert, ReloadInv
  <2>2. meta \in Metas
    BY <1>2 DEF ReloadInv, Metas
  <2> HIDE DEF meta
  <2> QED
    BY <1>2, <2>1, <2>2 DEF ReloadInv
<1>4. CASE ReloadKey
  <2> DEFINE meta == [reload.meta EXCEPT !.key = Mtime("key")]
             cert == LoadedWith(reload.cert_pem)
             next == IF cert = None THEN "idle" ELSE "store"
  <2>1. reload' = [pc |-> next, cert_pem |-> None, cert |-> cert, meta |-> meta]
    BY <1>4 DEF ReloadKey, ReloadInv
  <2>2. meta \in Metas
    BY <1>2 DEF ReloadInv, Metas
  <2>3. cert = None \/ GoodFileCert(cert)
    BY FilePairLoads DEF ReloadInv
  <2>4. next \in {"idle", "store"} /\ (next = "store" => cert # None)
    OBVIOUS
  <2> HIDE DEF meta, cert, next
  <2> QED
    BY <2>1, <2>2, <2>3, <2>4 DEF ReloadInv
<1>5. CASE ReloadStore
  <2>1. Unread \in Metas
    BY DEF Unread, Metas, Times
  <2> QED
    BY <1>5, <2>1 DEF ReloadStore, ReloadInv
<1> QED
  BY <1>1, <1>3, <1>4, <1>5
     DEF Next, vars, world, Startup, Watch, Reload, Handshake, Outside, NoClientCa, LoadClientCaFile,
         NoCertificates, LoadFirstCert, LoadFirstKey, StartWatcher, ReadCertMeta, ReadKeyMeta, LoadCert, LoadKey,
         watcherOnly, Hello, Select, shakeOnly, Write, ChangeKv,
         ChangeCa, Shutdown, ReplyTls, ReplyClientCa, Apply, ReadFails, Report, Fail, Wake

----------------------------------------------------------------------------
(***************************************************************************)
(* The stores, the tasks that refresh them, and their status.              *)
(***************************************************************************)

\* An error leaves the rest of a report.
LEMMA WithError ==
  ASSUME NEW r, IsReport(r)
  PROVE  [r EXCEPT !.error = TRUE] = [loaded |-> r.loaded, error |-> TRUE]
<1>1. \A l, e, b : [[loaded |-> l, error |-> e] EXCEPT !.error = b] = [loaded |-> l, error |-> b]
  OBVIOUS
<1>2. r = [loaded |-> r.loaded, error |-> r.error]
  BY DEF IsReport
<1> QED
  BY <1>1, <1>2, Zenon

\* The client CAs that come of a reply: reported as they are, and not lost.
LEMMA CaApplied ==
  ASSUME TasksInv, refresh["client_ca"].pc # "status", NEW c
  PROVE  /\ IsReport(ApplyCa(c).report) /\ ApplyCa(c).report.loaded = CaNames(ApplyCa(c).store)
         /\ clientCa # {} => ApplyCa(c).store # {}
<1> DEFINE found == IF DOMAIN CaBlobs[c] = {} THEN None ELSE ca_from_entries(CaBlobs[c], CaRefused)
           old == status["client_ca"]
<1>1. IsReport(old) /\ old.loaded = CaNames(clientCa)
  BY DEF TasksInv, TaskInv, Told
<1>2. CASE found = None \/ (found # None /\ found.store = {})
  <2> DEFINE r == [old EXCEPT !.error = TRUE]
  <2>1. ApplyCa(c) = [store |-> clientCa, report |-> r]
    BY <1>2 DEF ApplyCa
  <2>2. r = [loaded |-> old.loaded, error |-> TRUE]
    BY <1>1, WithError
  <2> HIDE DEF r, old
  <2>3. ApplyCa(c).store = clientCa /\ ApplyCa(c).report = r
    BY <2>1
  <2>4. IsReport(r) /\ r.loaded = CaNames(clientCa)
    BY <1>1, <2>2 DEF IsReport
  <2> QED
    BY <2>3, <2>4
<1>3. CASE ~(found = None \/ (found # None /\ found.store = {}))
  <2> DEFINE r == [loaded |-> CaNames(found.store), error |-> found.warned]
  <2>1. ApplyCa(c) = [store |-> found.store, report |-> r]
    BY <1>3 DEF ApplyCa
  <2>2. found = ca_from_entries(CaBlobs[c], CaRefused)
    BY <1>3
  <2>3. found.warned \in BOOLEAN
    BY <1>3, <2>2 DEF ca_from_entries
  <2>4. found.store # {}
    BY <1>3
  <2> HIDE DEF found
  <2>5. IsReport(r) /\ r.loaded = CaNames(found.store)
    BY <2>3 DEF IsReport
  <2> HIDE DEF r
  <2>6. ApplyCa(c).store = found.store /\ ApplyCa(c).report = r
    BY <2>1
  <2> QED
    BY <2>4, <2>5, <2>6
<1> QED
  BY <1>2, <1>3

\* The client CAs change by a reply only, and are never lost.
LEMMA CaKept ==
  ASSUME TasksInv, [Next]_vars
  PROVE  /\ clientCa' = clientCa \/ LoadClientCaFile \/ ReplyClientCa
         /\ clientCa # {} => clientCa' # {}
<1>1. clientCa' = clientCa \/ LoadClientCaFile \/ ReplyClientCa
  BY DEF Next, vars, world, Startup, Watch, Reload, Handshake, Outside, NoClientCa,
         NoCertificates, LoadFirstCert, LoadFirstKey, StartWatcher, ReadCertMeta, ReadKeyMeta, LoadCert, LoadKey,
         watcherOnly, ReloadCert, ReloadKey, ReloadStore, reloadOnly, Hello, Select, shakeOnly, Write, ChangeKv,
         ChangeCa, Shutdown, ReplyTls, ReadFails, Report, Fail, Wake
<1>2. CASE LoadClientCaFile
  <2>1. refresh["client_ca"].pc # "status" /\ clientCa' = ApplyCa(ca).store
    BY <1>2 DEF LoadClientCaFile, TasksInv
  <2> QED
    BY <1>1, <2>1, CaApplied
<1>3. CASE ReplyClientCa
  <2>1. refresh["client_ca"].pc # "status" /\ clientCa' = ApplyCa(ca).store
    BY <1>3 DEF ReplyClientCa, Asking
  <2> QED
    BY <1>1, <2>1, CaApplied
<1> QED
  BY <1>1, <1>2, <1>3

\* The certificates change by a reply only, and stay good.
LEMMA StoreStep ==
  ASSUME FilesInv, GoodSnapshot(store), [Next]_vars
  PROVE  /\ \/ store' = store
            \/ store' = from_fabio_entries(KvBlobs[kv], store).snapshot /\ DOMAIN store' # {}
         /\ GoodSnapshot(store')
<1>1. store' = store \/ ReplyTls
  BY DEF Next, vars, world, Startup, Watch, Reload, Handshake, Outside, NoClientCa, LoadClientCaFile,
         NoCertificates, LoadFirstCert, LoadFirstKey, StartWatcher, ReadCertMeta, ReadKeyMeta, LoadCert, LoadKey,
         watcherOnly, ReloadCert, ReloadKey, ReloadStore, reloadOnly, Hello, Select, shakeOnly, Write, ChangeKv,
         ChangeCa, Shutdown, ReplyClientCa, ReadFails, Report, Fail, Wake
<1>2. ASSUME ReplyTls, store' # store
      PROVE  store' = from_fabio_entries(KvBlobs[kv], store).snapshot /\ DOMAIN store' # {}
  BY <1>2 DEF ReplyTls
<1>3. GoodSnapshot(from_fabio_entries(KvBlobs[kv], store).snapshot)
  BY BuiltIsGood DEF FilesInv
<1>4. CASE store' = store
  <2>1. GoodSnapshot(store')
    BY <1>4 DEF GoodSnapshot
  <2> QED
    BY <1>4, <2>1
<1>5. CASE store' # store
  BY <1>1, <1>2, <1>3, <1>5
<1> QED
  BY <1>4, <1>5

\* One task takes a step, and its status may change with it.
LEMMA OneTask ==
  ASSUME TasksInv, NEW t \in Tasks, NEW task, NEW reported,
         refresh' = [refresh EXCEPT ![t] = task], status' = [status EXCEPT ![t] = reported]
  PROVE  /\ refresh' = [u \in Tasks |-> refresh'[u]] /\ status' = [u \in Tasks |-> status'[u]]
         /\ refresh'[t] = task /\ status'[t] = reported
         /\ \A u \in Tasks : u # t => refresh'[u] = refresh[u] /\ status'[u] = status[u]
<1> DEFINE R == refresh S == status
<1>1. R = [u \in Tasks |-> R[u]] /\ S = [u \in Tasks |-> S[u]]
  BY DEF TasksInv
<1> HIDE DEF R, S
<1>2. refresh' = [R EXCEPT ![t] = task] /\ status' = [S EXCEPT ![t] = reported]
  BY DEF R, S
<1>3. DOMAIN R = Tasks /\ DOMAIN S = Tasks
  BY <1>1
<1>4. refresh' = [u \in Tasks |-> IF u = t THEN task ELSE R[u]]
      /\ status' = [u \in Tasks |-> IF u = t THEN reported ELSE S[u]]
  BY <1>2, <1>3
<1> QED
  BY <1>4 DEF R, S

\* The invariant of two tasks after a step of one of them.
LEMMA OtherTask ==
  ASSUME TasksInv, conf' = conf,
         refresh' = [u \in Tasks |-> refresh'[u]], status' = [u \in Tasks |-> status'[u]],
         \/ /\ refresh'["client_ca"] = refresh["client_ca"] /\ status'["client_ca"] = status["client_ca"]
            /\ clientCa' = clientCa
            /\ TaskInv(refresh'["tls"], status'["tls"], EntryNames(store'))
         \/ /\ refresh'["tls"] = refresh["tls"] /\ status'["tls"] = status["tls"]
            /\ store' = store
            /\ TaskInv(refresh'["client_ca"], status'["client_ca"], CaNames(clientCa'))
            /\ refresh'["client_ca"].pc = "status" => ClientAuth(Config) = "consul_kv"
  PROVE  TasksInv'
<1>1. ClientAuth(Config)' = ClientAuth(Config)
  BY DEF Config, ClientAuth
<1> QED
  BY <1>1 DEF TasksInv

\* The tasks by name.
LEMMA TaskNames == "tls" \in Tasks /\ "client_ca" \in Tasks /\ "tls" # "client_ca" /\ \A t \in Tasks : t \in {"tls", "client_ca"}
  BY DEF Tasks

\* A task with another place in its loop.
LEMMA TaskFields ==
  ASSUME NEW task, IsTask(task), NEW x
  PROVE  [task EXCEPT !.pc = x] = [pc |-> x, backoff |-> task.backoff, report |-> task.report]
<1> DEFINE p == task.pc
           b == task.backoff
           r == task.report
           same == [pc |-> p, backoff |-> b, report |-> r]
<1>1. task = same
  BY DEF IsTask
<1> HIDE DEF p, b, r
<1>2. [same EXCEPT !.pc = x] = [pc |-> x, backoff |-> b, report |-> r]
  OBVIOUS
<1> HIDE DEF same
<1>3. [task EXCEPT !.pc = x] = [pc |-> x, backoff |-> b, report |-> r]
  BY <1>1, <1>2
<1> QED
  BY <1>3 DEF b, r

\* A reply is applied to a store: its report is on its way.
LEMMA Applied ==
  ASSUME NEW task, NEW reported, NEW names, NEW report, NEW new,
         TaskInv(task, reported, names), IsReport(report), report.loaded = new
  PROVE  /\ TaskInv([[task EXCEPT !.pc = "status"] EXCEPT !.report = report], reported, new)
<1> DEFINE next == [pc |-> "status", backoff |-> task.backoff, report |-> report]
<1>1. task = [pc |-> task.pc, backoff |-> task.backoff, report |-> task.report] /\ task.backoff \in 1 .. MaxBackoff
      /\ IsReport(reported)
  BY DEF TaskInv, IsTask
<1>2. IsTask(task)
  BY DEF TaskInv
<1>3. [[task EXCEPT !.pc = "status"] EXCEPT !.report = report] = next
  <2>1. [task EXCEPT !.pc = "status"] = [pc |-> "status", backoff |-> task.backoff, report |-> task.report]
    BY <1>2, TaskFields
  <2>2. [[pc |-> "status", backoff |-> task.backoff, report |-> task.report] EXCEPT !.report = report] = next
    OBVIOUS
  <2> HIDE DEF next
  <2> QED
    BY <2>1, <2>2, Zenon
<1>4. next.pc = "status" /\ next.report = report /\ next.backoff = task.backoff
  OBVIOUS
<1>5. IsTask(next)
  BY <1>1, <1>4 DEF IsTask
<1> HIDE DEF next
<1>6. Told(next, reported) = report
  BY <1>4 DEF Told
<1> QED
  BY <1>1, <1>3, <1>5, <1>6 DEF TaskInv

\* The status follows.
LEMMA Reported ==
  ASSUME NEW task, NEW reported, NEW names, TaskInv(task, reported, names), task.pc = "status"
  PROVE  TaskInv(Resting, task.report, names) /\ Resting.pc = "query"
<1>1. MaxBackoff \in Nat \ {0}
  BY TlsAssumption DEF TlsAssumption
<1>2. IsTask(Resting) /\ Resting.pc = "query"
  BY <1>1 DEF IsTask, Resting
<1> QED
  BY <1>2 DEF TaskInv, Told

\* A task that has nothing to report goes somewhere else.
LEMMA Moved ==
  ASSUME NEW task, NEW reported, NEW names, TaskInv(task, reported, names), task.pc # "status",
         NEW pc \in {"query", "sleep", "off"}, NEW backoff \in 1 .. MaxBackoff,
         NEW next, next = [pc |-> pc, backoff |-> backoff, report |-> task.report]
  PROVE  TaskInv(next, reported, names) /\ next.pc = pc
<1>1. next.pc = pc /\ next.backoff = backoff /\ next.report = task.report
  OBVIOUS
<1>2. IsTask(next)
  BY <1>1 DEF IsTask
<1>3. Told(next, reported) = reported /\ Told(task, reported) = reported
  BY <1>1 DEF Told
<1> QED
  BY <1>1, <1>2, <1>3 DEF TaskInv

\* A reply with certificates keeps the invariant of the tasks.
LEMMA ReplyTlsStep ==
  ASSUME TasksInv, ReplyTls
  PROVE  TasksInv'
<1> DEFINE next == from_fabio_entries(KvBlobs[kv], store)
           old == status["tls"]
           task == refresh["tls"]
<1>1. TaskInv(task, old, EntryNames(store)) /\ task.pc # "status" /\ IsReport(old) /\ old.loaded = EntryNames(store)
  BY DEF TasksInv, ReplyTls, Asking, TaskInv, Told
<1>2. PICK report : /\ IsReport(report) /\ report.loaded = EntryNames(store')
                    /\ Apply("tls", report)
  <2>1. CASE store' = store /\ Apply("tls", [old EXCEPT !.error = TRUE])
    <3>1. [old EXCEPT !.error = TRUE] = [loaded |-> old.loaded, error |-> TRUE]
      BY <1>1, WithError
    <3>2. IsReport([loaded |-> old.loaded, error |-> TRUE])
      BY DEF IsReport
    <3>3. [loaded |-> old.loaded, error |-> TRUE].loaded = EntryNames(store')
      BY <1>1, <2>1 DEF EntryNames
    <3> QED
      BY <2>1, <3>1, <3>2, <3>3, Zenon
  <2>2. CASE store' = next.snapshot /\ Apply("tls", [loaded |-> EntryNames(next.snapshot), error |-> next.warned])
    <3> DEFINE r == [loaded |-> EntryNames(next.snapshot), error |-> next.warned]
    <3>1. next.warned \in BOOLEAN
      BY DEF from_fabio_entries
    <3> HIDE DEF next
    <3>2. IsReport(r)
      BY <3>1 DEF IsReport
    <3>3. r.loaded = EntryNames(store')
      BY <2>2 DEF EntryNames
    <3> HIDE DEF r
    <3> QED
      BY <2>2, <3>2, <3>3 DEF r
  <2> QED
    BY <2>1, <2>2 DEF ReplyTls
<1> DEFINE new == [[task EXCEPT !.pc = "status"] EXCEPT !.report = report]
<1>3. refresh' = [refresh EXCEPT !["tls"] = new] /\ status' = status /\ clientCa' = clientCa /\ conf' = conf
  BY <1>2 DEF Apply, ReplyTls
<1>4. TaskInv(new, old, EntryNames(store'))
  BY <1>1, <1>2, Applied
<1>5. status' = [status EXCEPT !["tls"] = old]
  BY <1>3 DEF TasksInv
<1> HIDE DEF new, old
<1>6. /\ refresh' = [u \in Tasks |-> refresh'[u]] /\ status' = [u \in Tasks |-> status'[u]]
      /\ refresh'["tls"] = new /\ status'["tls"] = old
      /\ refresh'["client_ca"] = refresh["client_ca"] /\ status'["client_ca"] = status["client_ca"]
  BY <1>3, <1>5, OneTask, TaskNames
<1> QED
  BY <1>3, <1>4, <1>6, OtherTask

\* So does one with client CAs.
LEMMA ReplyCaStep ==
  ASSUME TasksInv, ReplyClientCa
  PROVE  TasksInv'
<1> DEFINE old == status["client_ca"]
           task == refresh["client_ca"]
           report == ApplyCa(ca).report
           new == [[task EXCEPT !.pc = "status"] EXCEPT !.report = report]
<1>1. /\ TaskInv(task, old, CaNames(clientCa)) /\ task.pc # "status" /\ ClientAuth(Config) = "consul_kv"
      /\ clientCa' = ApplyCa(ca).store
  BY DEF TasksInv, ReplyClientCa, Asking, Refreshed
<1>2. IsReport(report) /\ report.loaded = CaNames(ApplyCa(ca).store)
  BY <1>1, CaApplied
<1>3. CaNames(ApplyCa(ca).store) = CaNames(clientCa')
  BY <1>1 DEF CaNames
<1>4. refresh' = [refresh EXCEPT !["client_ca"] = new] /\ status' = status /\ store' = store /\ conf' = conf
  BY DEF Apply, ReplyClientCa
<1>5. status' = [status EXCEPT !["client_ca"] = old]
  BY <1>4 DEF TasksInv
<1> HIDE DEF report, old
<1>6. TaskInv(new, old, CaNames(clientCa'))
  BY <1>1, <1>2, <1>3, Applied
<1> HIDE DEF new
<1>7. /\ refresh' = [u \in Tasks |-> refresh'[u]] /\ status' = [u \in Tasks |-> status'[u]]
      /\ refresh'["client_ca"] = new /\ status'["client_ca"] = old
      /\ refresh'["tls"] = refresh["tls"] /\ status'["tls"] = status["tls"]
  BY <1>4, <1>5, OneTask, TaskNames
<1> QED
  BY <1>1, <1>4, <1>6, <1>7, OtherTask

\* And the client CAs read from a file.
LEMMA CaFileStep ==
  ASSUME TasksInv, LoadClientCaFile
  PROVE  TasksInv' /\ (DOMAIN status'["client_ca"].loaded # {} => clientCa' # {})
<1> DEFINE task == refresh["client_ca"]
           report == ApplyCa(ca).report
<1>1. /\ TaskInv(task, status["client_ca"], CaNames(clientCa)) /\ task.pc # "status"
      /\ clientCa' = ApplyCa(ca).store /\ store' = store /\ conf' = conf /\ refresh' = refresh
      /\ status' = [status EXCEPT !["client_ca"] = report]
  BY DEF TasksInv, LoadClientCaFile
<1>2. IsReport(report) /\ report.loaded = CaNames(ApplyCa(ca).store)
  BY <1>1, CaApplied
<1>3. CaNames(ApplyCa(ca).store) = CaNames(clientCa')
  BY <1>1 DEF CaNames
<1> HIDE DEF report
<1>4. refresh' = [refresh EXCEPT !["client_ca"] = task]
  BY <1>1 DEF TasksInv
<1>5. TaskInv(task, report, CaNames(clientCa'))
  BY <1>1, <1>2, <1>3 DEF TaskInv, Told
<1> HIDE DEF task
<1>6. /\ refresh' = [u \in Tasks |-> refresh'[u]] /\ status' = [u \in Tasks |-> status'[u]]
      /\ refresh'["client_ca"] = task /\ status'["client_ca"] = report
      /\ refresh'["tls"] = refresh["tls"] /\ status'["tls"] = status["tls"]
  BY <1>1, <1>4, OneTask, TaskNames
<1>7. TasksInv'
  BY <1>1, <1>5, <1>6, OtherTask
<1>8. DOMAIN CaNames(clientCa') = clientCa'
  BY DEF CaNames
<1> QED
  BY <1>2, <1>3, <1>6, <1>7, <1>8

\* What the task t answers for.
NamesOf(t) == IF t = "tls" THEN EntryNames(store) ELSE CaNames(clientCa)

\* A step of one task that leaves the stores alone.
LEMMA TaskAlone ==
  ASSUME TasksInv, NEW t \in Tasks, NEW task, NEW reported, UNCHANGED <<conf, store, clientCa>>,
         refresh' = [refresh EXCEPT ![t] = task], status' = [status EXCEPT ![t] = reported],
         TaskInv(task, reported, NamesOf(t)), task.pc # "status"
  PROVE  TasksInv'
<1>1. /\ refresh' = [u \in Tasks |-> refresh'[u]] /\ status' = [u \in Tasks |-> status'[u]]
      /\ refresh'[t] = task /\ status'[t] = reported
      /\ \A u \in Tasks : u # t => refresh'[u] = refresh[u] /\ status'[u] = status[u]
  BY OneTask
<1>2. EntryNames(store') = EntryNames(store) /\ CaNames(clientCa') = CaNames(clientCa)
  BY DEF EntryNames, CaNames
<1>3. CASE t = "tls"
  <2>1. TaskInv(refresh'["tls"], status'["tls"], EntryNames(store'))
    BY <1>1, <1>2, <1>3 DEF NamesOf
  <2>2. refresh'["client_ca"] = refresh["client_ca"] /\ status'["client_ca"] = status["client_ca"]
    BY <1>1, <1>3, TaskNames
  <2> QED
    BY <1>1, <2>1, <2>2, OtherTask
<1>4. CASE t = "client_ca"
  <2>1. TaskInv(refresh'["client_ca"], status'["client_ca"], CaNames(clientCa')) /\ refresh'["client_ca"].pc # "status"
    BY <1>1, <1>2, <1>4 DEF NamesOf
  <2>2. refresh'["tls"] = refresh["tls"] /\ status'["tls"] = status["tls"]
    BY <1>1, <1>4, TaskNames
  <2> QED
    BY <1>1, <2>1, <2>2, OtherTask
<1> QED
  BY <1>3, <1>4, TaskNames

\* Each task has its invariant.
LEMMA EachTask ==
  ASSUME TasksInv, NEW t \in Tasks
  PROVE  TaskInv(refresh[t], status[t], NamesOf(t)) /\ IsTask(refresh[t]) /\ refresh[t].backoff \in 1 .. MaxBackoff
<1>1. TaskInv(refresh[t], status[t], NamesOf(t))
  BY TaskNames DEF TasksInv, NamesOf
<1> QED
  BY <1>1 DEF TaskInv, IsTask

\* A status is set, a query fails, a pause ends.
LEMMA TaskLoopStep ==
  ASSUME TasksInv, NEW t \in Tasks, Report(t) \/ Fail(t) \/ Wake(t)
  PROVE  TasksInv'
<1>1. TaskInv(refresh[t], status[t], NamesOf(t)) /\ IsTask(refresh[t]) /\ refresh[t].backoff \in 1 .. MaxBackoff
  BY EachTask
<1>2. UNCHANGED <<conf, store, clientCa>>
  BY DEF Report, Fail, Wake
<1>3. status = [status EXCEPT ![t] = status[t]] /\ refresh = [refresh EXCEPT ![t] = refresh[t]]
  BY DEF TasksInv
<1>4. CASE Report(t)
  <2>1. TaskInv(Resting, refresh[t].report, NamesOf(t)) /\ Resting.pc # "status"
    BY <1>1, <1>4, Reported DEF Report
  <2>2. refresh' = [refresh EXCEPT ![t] = Resting] /\ status' = [status EXCEPT ![t] = refresh[t].report]
    BY <1>4 DEF Report
  <2> QED
    BY <1>2, <2>1, <2>2, TaskAlone
<1>5. CASE Fail(t)
  <2>1. refresh[t].pc = "query" /\ status' = status
    BY <1>5 DEF Fail, Asking
  <2>2. CASE refresh' = refresh
    <3>1. refresh' = [refresh EXCEPT ![t] = refresh[t]] /\ status' = [status EXCEPT ![t] = status[t]]
      BY <1>3, <2>1, <2>2
    <3> QED
      BY <1>1, <1>2, <2>1, <3>1, TaskAlone
  <2>3. CASE refresh' = [refresh EXCEPT ![t] = [refresh[t] EXCEPT !.pc = "sleep"]]
    <3> DEFINE new == [refresh[t] EXCEPT !.pc = "sleep"]
    <3>1. new = [pc |-> "sleep", backoff |-> refresh[t].backoff, report |-> refresh[t].report]
      BY <1>1, TaskFields
    <3> HIDE DEF new
    <3>2. TaskInv(new, status[t], NamesOf(t)) /\ new.pc = "sleep"
      BY <1>1, <2>1, <3>1, Moved
    <3>3. refresh' = [refresh EXCEPT ![t] = new] /\ status' = [status EXCEPT ![t] = status[t]]
      BY <1>3, <2>1, <2>3 DEF new
    <3> QED
      BY <1>2, <3>2, <3>3, TaskAlone
  <2> QED
    BY <1>5, <2>2, <2>3 DEF Fail
<1>6. CASE Wake(t)
  <2> DEFINE b == refresh[t].backoff
             wait == IF 2 * b < MaxBackoff THEN 2 * b ELSE MaxBackoff
             mid == [refresh[t] EXCEPT !.pc = "query"]
             new == [mid EXCEPT !.backoff = wait]
  <2>1. MaxBackoff \in Nat \ {0}
    BY TlsAssumption DEF TlsAssumption
  <2>2. wait \in 1 .. MaxBackoff
    BY <1>1, <2>1
  <2>3. mid = [pc |-> "query", backoff |-> b, report |-> refresh[t].report]
    BY <1>1, TaskFields
  <2>4. refresh' = [refresh EXCEPT ![t] = new]
    BY <1>6 DEF Wake
  <2> HIDE DEF mid, b, wait
  <2>5. new = [pc |-> "query", backoff |-> wait, report |-> refresh[t].report]
    BY <2>3
  <2> HIDE DEF new
  <2>6. refresh[t].pc # "status" /\ status' = status
    BY <1>6 DEF Wake
  <2>7. TaskInv(new, status[t], NamesOf(t)) /\ new.pc = "query"
    BY <1>1, <2>2, <2>5, <2>6, Moved
  <2>8. status' = [status EXCEPT ![t] = status[t]]
    BY <1>3, <2>6
  <2> QED
    BY <1>2, <2>4, <2>7, <2>8, TaskAlone
<1> QED
  BY <1>4, <1>5, <1>6

\* At shutdown the tasks leave their loops.
LEMMA ShutdownStep ==
  ASSUME TasksInv, Shutdown
  PROVE  TasksInv'
<1>1. UNCHANGED <<conf, store, clientCa, status>>
  BY DEF Shutdown
<1> DEFINE new(t) == IF refresh[t].pc = "status" THEN refresh[t] ELSE [refresh[t] EXCEPT !.pc = "off"]
<1>2. refresh' = [t \in Tasks |-> new(t)]
  BY DEF Shutdown
<1>3. ASSUME NEW t \in Tasks
      PROVE  TaskInv(new(t), status[t], NamesOf(t)) /\ (new(t).pc = "status" => refresh[t].pc = "status")
  <2>1. TaskInv(refresh[t], status[t], NamesOf(t)) /\ IsTask(refresh[t]) /\ refresh[t].backoff \in 1 .. MaxBackoff
    BY EachTask
  <2>2. CASE refresh[t].pc = "status"
    BY <2>1, <2>2
  <2>3. CASE refresh[t].pc # "status"
    <3> DEFINE n == [refresh[t] EXCEPT !.pc = "off"]
    <3>1. n = [pc |-> "off", backoff |-> refresh[t].backoff, report |-> refresh[t].report]
      BY <2>1, TaskFields
    <3>2. new(t) = n
      BY <2>3
    <3> HIDE DEF n, new
    <3>3. TaskInv(n, status[t], NamesOf(t)) /\ n.pc = "off"
      BY <2>1, <2>3, <3>1, Moved
    <3> QED
      BY <3>2, <3>3
  <2> QED
    BY <2>2, <2>3
<1> HIDE DEF new
<1>4. refresh' = [t \in Tasks |-> refresh'[t]] /\ refresh'["tls"] = new("tls") /\ refresh'["client_ca"] = new("client_ca")
  BY <1>2, TaskNames
<1>5. EntryNames(store') = EntryNames(store) /\ CaNames(clientCa') = CaNames(clientCa)
  BY <1>1 DEF EntryNames, CaNames
<1>6. TaskInv(refresh'["tls"], status'["tls"], EntryNames(store'))
  BY <1>1, <1>3, <1>4, <1>5, TaskNames DEF NamesOf
<1>7. TaskInv(refresh'["client_ca"], status'["client_ca"], CaNames(clientCa'))
  BY <1>1, <1>3, <1>4, <1>5, TaskNames DEF NamesOf
<1>8. refresh'["client_ca"].pc = "status" => ClientAuth(Config)' = "consul_kv"
  BY <1>1, <1>3, <1>4, TaskNames DEF TasksInv, Config, ClientAuth
<1>9. status' = [t \in Tasks |-> status'[t]]
  BY <1>1 DEF TasksInv
<1> QED
  BY <1>4, <1>6, <1>7, <1>8, <1>9 DEF TasksInv

\* Every step keeps the invariant of the tasks.
LEMMA TasksStep ==
  ASSUME TasksInv, [Next]_vars
  PROVE  TasksInv'
<1>1. CASE UNCHANGED <<conf, store, clientCa, status, refresh>>
  BY <1>1 DEF TasksInv, TaskInv, Told, IsTask, IsReport, EntryNames, CaNames, Config, ClientAuth
<1> QED
  BY <1>1, ReplyTlsStep, ReplyCaStep, CaFileStep, TaskLoopStep, ShutdownStep
     DEF Next, vars, world, Startup, Watch, Reload, Handshake, Outside, NoClientCa,
         NoCertificates, LoadFirstCert, LoadFirstKey, StartWatcher, ReadCertMeta, ReadKeyMeta, LoadCert, LoadKey,
         watcherOnly, ReloadCert, ReloadKey, ReloadStore, reloadOnly, Hello, Select, shakeOnly, Write, ChangeKv,
         ChangeCa, ReadFails

----------------------------------------------------------------------------
(***************************************************************************)
(* Main, and the handshakes.                                               *)
(***************************************************************************)

\* A listener that does not verify its clients is configured not to.
LEMMA NoAuth == ClientAuth(Config) = "none" => Config.client_auth = "off"
  BY DEF ClientAuth

\* The configuration stays.
LEMMA ConfigStays ==
  ASSUME conf' = conf
  PROVE  Config' = Config /\ ClientAuth(Config)' = ClientAuth(Config) /\ TlsMode(Config)' = TlsMode(Config)
  BY DEF Config, ClientAuth, TlsMode

\* Where main gives up, it does not go on.
LEMMA GivenUpEnds == GivenUp \in {"exited", "skipped"}
  BY DEF GivenUp

\* Main passes the client CAs only if there are some or none are needed.
LEMMA StageStep ==
  ASSUME FilesInv, TasksInv, StageInv, [Next]_vars
  PROVE  StageInv' /\ (stage \in {"serving", "shutdown"} => stage' \in {"serving", "shutdown"})
<1> USE DEF Beyond
<1>1. conf' = conf
  BY WorldStep
<1>2. Config' = Config
  BY <1>1, ConfigStays
<1>3. clientCa # {} => clientCa' # {}
  BY CaKept
<1>4. CASE stage' = stage
  BY <1>2, <1>3, <1>4 DEF StageInv
<1>5. CASE stage' \in {"none", "exited", "skipped"} /\ stage \notin {"serving", "shutdown"}
  BY <1>5 DEF StageInv
<1>6. CASE stage \in {"tls", "load_key"} /\ stage' \in {"load_key", "serving"}
  BY <1>2, <1>3, <1>6 DEF StageInv
<1>7. CASE stage = "serving" /\ stage' = "shutdown"
  BY <1>2, <1>3, <1>7 DEF StageInv
<1>8. CASE stage = "client_ca" /\ stage' = "tls" /\ (Config.client_auth # "off" => clientCa' # {})
  BY <1>2, <1>8 DEF StageInv
<1>9. CASE LoadClientCaFile
  <2>1. stage = "client_ca" /\ stage' = (IF DOMAIN status'["client_ca"].loaded = {} THEN GivenUp ELSE "tls")
    BY <1>9 DEF LoadClientCaFile
  <2> QED
    BY <1>5, <1>8, <1>9, <2>1, CaFileStep, GivenUpEnds
<1>10. CASE NoClientCa
  <2>1. stage = "client_ca" /\ (stage' = GivenUp \/ (stage' = "tls" /\ ClientAuth(Config) = "none"))
    BY <1>10 DEF NoClientCa
  <2> QED
    BY <1>5, <1>8, <2>1, NoAuth, GivenUpEnds
<1>11. CASE NoCertificates
  BY <1>5, <1>11, GivenUpEnds DEF NoCertificates
<1>12. CASE LoadFirstCert
  BY <1>6, <1>12 DEF LoadFirstCert
<1>13. CASE LoadFirstKey
  BY <1>5, <1>6, <1>13, GivenUpEnds DEF LoadFirstKey
<1>14. CASE Shutdown
  BY <1>7, <1>14 DEF Shutdown
<1>15. ASSUME NEW t \in Tasks, Report(t) PROVE StageInv' /\ (stage \in {"serving", "shutdown"} => stage' \in {"serving", "shutdown"})
  <2> DEFINE loaded == refresh[t].report.loaded
  <2>1. refresh[t].pc = "status" /\ clientCa' = clientCa /\ status' = [status EXCEPT ![t] = refresh[t].report]
        /\ stage' = IF stage = t THEN Gate(t, DOMAIN status'[t].loaded # {}) ELSE stage
    BY <1>15 DEF Report
  <2>2. status'[t] = refresh[t].report
    BY <2>1 DEF TasksInv
  <2>3. stage' = IF stage = t THEN Gate(t, DOMAIN loaded # {}) ELSE stage
    BY <2>1, <2>2
  <2>4. CASE t = "client_ca"
    <3>1. loaded = CaNames(clientCa)
      BY <2>1, <2>4 DEF TasksInv, TaskInv, Told
    <3>2. DOMAIN loaded = clientCa
      BY <3>1 DEF CaNames
    <3> HIDE DEF loaded
    <3>3. \/ stage' = stage
          \/ stage = "client_ca" /\ stage' = GivenUp
          \/ stage = "client_ca" /\ stage' = "tls" /\ DOMAIN loaded # {}
      BY <2>3, <2>4 DEF Gate
    <3> QED
      BY <1>4, <1>5, <1>8, <2>1, <3>2, <3>3, GivenUpEnds
  <2>5. CASE t = "tls"
    <3>1. stage' = stage \/ (stage = "tls" /\ stage' \in {GivenUp, "serving"})
      BY <2>3, <2>5 DEF Gate
    <3> QED
      BY <1>4, <1>5, <1>6, <3>1, GivenUpEnds
  <2> QED
    BY <2>4, <2>5, TaskNames
<1>16. ASSUME NEW t \in Tasks, Fail(t) PROVE StageInv' /\ (stage \in {"serving", "shutdown"} => stage' \in {"serving", "shutdown"})
  <2>1. stage' = stage \/ (stage = t /\ stage' = Gate(t, FALSE))
    BY <1>16 DEF Fail
  <2>2. CASE t = "client_ca"
    BY <1>4, <1>5, <2>1, <2>2, GivenUpEnds DEF Gate
  <2>3. CASE t = "tls"
    BY <1>4, <1>5, <1>6, <2>1, <2>3, GivenUpEnds DEF Gate
  <2> QED
    BY <2>2, <2>3, TaskNames
<1> QED
  BY <1>4, <1>9, <1>10, <1>11, <1>12, <1>13, <1>14, <1>15, <1>16
     DEF Next, vars, world, Startup, Watch, Reload, Handshake, Outside,
         StartWatcher, ReadCertMeta, ReadKeyMeta, LoadCert, LoadKey,
         watcherOnly, ReloadCert, ReloadKey, ReloadStore, reloadOnly, Hello, Select, shakeOnly, Write, ChangeKv,
         ChangeCa, ReplyTls, ReplyClientCa, Apply, ReadFails, Wake

\* A handshake verifies the client if it is to, and gets a good certificate.
LEMMA ShakeStep ==
  ASSUME TlsInv, [Next]_vars
  PROVE  ShakeInv'
<1> USE DEF TlsInv
<1>1. conf' = conf
  BY WorldStep
<1>2. Config' = Config
  BY <1>1, ConfigStays
<1>3. stage \in {"serving", "shutdown"} => stage' \in {"serving", "shutdown"}
  BY StageStep
<1>4. CASE shake' = shake
  BY <1>2, <1>3, <1>4 DEF ShakeInv
<1>5. ASSUME NEW n, Hello(n) PROVE ShakeInv'
  <2> DEFINE asked == IF TlsMode(Config) = "file" THEN None ELSE n
             pc == IF configure_ssl = "fail" THEN "done" ELSE "select"
             verify == configure_ssl
  <2>1. stage = "serving" /\ shake' = [pc |-> pc, name |-> asked, verify |-> verify, cert |-> None]
    BY <1>5 DEF Hello
  <2>2. verify \in {"none", "store", "fail", "unverified"} /\ (clientCa # {} /\ Config.client_auth # "off" => verify = "store")
    BY DEF configure_ssl
  <2>3. Config.client_auth # "off" => clientCa # {}
    BY <2>1 DEF StageInv, Beyond
  <2>4. pc \in {"select", "done"}
    OBVIOUS
  <2> HIDE DEF asked, pc, verify
  <2>5. shake'.pc = pc /\ shake'.verify = verify /\ shake'.cert = None /\ shake'.name = asked
    BY <2>1
  <2> QED
    BY <1>2, <1>3, <2>1, <2>2, <2>3, <2>4, <2>5 DEF ShakeInv
<1>6. CASE Select
  <2> DEFINE cert == IF TlsMode(Config) = "file" THEN served ELSE select(store, shake.name, Config.strict_sni)
  <2>1. shake.pc = "select" /\ shake' = [pc |-> "done", name |-> None, verify |-> shake.verify, cert |-> cert]
    BY <1>6 DEF Select, ShakeInv
  <2>2. cert = None \/ cert.leaf = cert.key
    BY SelectIsGood DEF GoodCert, GoodFileCert, FilesInv
  <2> HIDE DEF cert
  <2>3. shake'.pc = "done" /\ shake'.verify = shake.verify /\ shake'.cert = cert /\ shake'.name = None
    BY <2>1
  <2> QED
    BY <1>2, <2>1, <2>2, <2>3 DEF ShakeInv
<1> QED
  BY <1>4, <1>5, <1>6
     DEF Next, vars, world, Startup, Watch, Reload, Handshake, Outside, NoClientCa, LoadClientCaFile,
         NoCertificates, LoadFirstCert, LoadFirstKey, StartWatcher, ReadCertMeta, ReadKeyMeta, LoadCert, LoadKey,
         watcherOnly, ReloadCert, ReloadKey, ReloadStore, reloadOnly, Write, ChangeKv,
         ChangeCa, Shutdown, ReplyTls, ReplyClientCa, Apply, ReadFails, Report, Fail, Wake

\* Every step keeps the invariant.
LEMMA TlsInvNext == TlsInv /\ [Next]_vars => TlsInv'
<1> SUFFICES ASSUME TlsInv, [Next]_vars PROVE TlsInv'
  OBVIOUS
<1> USE DEF TlsInv
<1>1. FilesInv'
  BY WorldStep, WatcherStep, ServedStep DEF FilesInv
<1>2. GoodSnapshot(store')
  BY StoreStep
<1>3. GoodSnapshot(store)'
  BY <1>2 DEF GoodSnapshot
<1> QED
  BY <1>1, <1>3, ReloadStep, TasksStep, StageStep, ShakeStep

----------------------------------------------------------------------------
(***************************************************************************)
(* The theorems.                                                           *)
(***************************************************************************)

(* The invariant (src/proxy/tls.rs, src/main.rs).                          *)
THEOREM TlsInvariance == Spec => []TlsInv
  BY TlsInvInit, TlsInvNext, PTL DEF Spec

(* What a store reports is what it holds, and a listener that is to verify *)
(* its clients does, in every handshake that gets a certificate            *)
(* (apply_consul_snapshot, configure_ssl, and main's startup).             *)
THEOREM SafeListeners == Spec => []ListenersAreSafe
<1>1. TlsInv => ListenersAreSafe
  <2> SUFFICES ASSUME TlsInv PROVE ListenersAreSafe
    OBVIOUS
  <2> USE DEF TlsInv
  <2>1. refresh["tls"].pc # "status" => status["tls"].loaded = EntryNames(store)
    BY DEF TasksInv, TaskInv, Told
  <2>2. refresh["client_ca"].pc # "status" => status["client_ca"].loaded = CaNames(clientCa)
    BY DEF TasksInv, TaskInv, Told
  <2>3. DOMAIN CaNames(clientCa) = clientCa
    BY DEF CaNames
  <2>4. ClientsAreVerified
    BY DEF ShakeInv, ClientsAreVerified
  <2> QED
    BY <2>1, <2>2, <2>3, <2>4 DEF ListenersAreSafe, StatusIsCurrent
<1> QED
  BY <1>1, TlsInvariance, PTL

(* No reload empties a store, drops an entry of which Consul holds a part, *)
(* or exchanges a certificate for anything but what Consul holds           *)
(* (from_fabio_entries, maybe_reuse_previous, apply_snapshot).             *)
THEOREM LastGoodIsKept == Spec => KeepsLastGood
<1>1. TlsInv /\ [Next]_vars =>
       [/\ DOMAIN store # {} => DOMAIN store' # {}
        /\ clientCa # {} => clientCa' # {}
        /\ \A c \in Range(store) :
             \/ c \in Range(store')
             \/ ~Holds(kv, c.entry)
             \/ \E d \in Range(store') :
                     d.entry = c.entry /\ d = LoadEntry(KvBlobs[kv], classify_fabio_entry(d.entry))]_vars
  <2> SUFFICES ASSUME TlsInv, [Next]_vars
               PROVE  /\ DOMAIN store # {} => DOMAIN store' # {}
                      /\ clientCa # {} => clientCa' # {}
                      /\ \A c \in Range(store) :
                           \/ c \in Range(store')
                           \/ ~Holds(kv, c.entry)
                           \/ \E d \in Range(store') :
                                 d.entry = c.entry /\ d = LoadEntry(KvBlobs[kv], classify_fabio_entry(d.entry))
    OBVIOUS
  <2> USE DEF TlsInv
  <2>1. clientCa # {} => clientCa' # {}
    BY CaKept
  <2>2. CASE store' = store
    BY <2>1, <2>2
  <2>3. CASE store' = from_fabio_entries(KvBlobs[kv], store).snapshot /\ DOMAIN store' # {}
    <3>1. kv \in KvStates
      BY DEF FilesInv
    <3>2. ASSUME NEW c \in Range(store), Holds(kv, c.entry)
          PROVE  \/ c \in Range(store')
                 \/ \E d \in Range(store') :
                        d.entry = c.entry /\ d = LoadEntry(KvBlobs[kv], classify_fabio_entry(d.entry))
      BY <2>3, <3>1, <3>2, BuiltKeeps
    <3> QED
      BY <2>1, <2>3, <3>2
  <2> QED
    BY <2>2, <2>3, StoreStep
<1> QED
  BY <1>1, TlsInvariance, PTL DEF Spec, KeepsLastGood

\* Types and pairs.
LEMMA TlsTypes == TlsInv => TypeOK /\ PairsMatch
<1> SUFFICES ASSUME TlsInv PROVE TypeOK /\ PairsMatch
  OBVIOUS
<1> USE DEF TlsInv
<1>1. TypeOK
  <2>1. conf \in Configs /\ (served = None \/ served \in Loaded({"static-file"})) /\ overtaken \in BOOLEAN
        /\ watcher.pc \in {"off", "start", "tick", "key_meta", "load_cert", "load_key"}
    BY DEF FilesInv, GoodFileCert, WatcherRecord
  <2>2. stage \in {"client_ca", "tls", "load_key", "serving", "shutdown", "none", "exited", "skipped"}
    BY DEF StageInv, Beyond
  <2>3. DOMAIN store \subseteq DOMAIN KeyOrder /\ Range(store) \subseteq Loaded(Range(KeyOrder))
    <3>1. \A i \in DOMAIN store : store[i] \in Loaded(Range(KeyOrder))
      BY DEF GoodSnapshot, GoodCert
    <3>2. \A c \in Range(store) : \E i \in DOMAIN store : c = store[i]
      BY DEF Range
    <3> QED
      BY <3>1, <3>2 DEF GoodSnapshot
  <2>4. ASSUME NEW t \in Tasks
        PROVE  refresh[t].pc \in {"query", "status", "sleep", "off"} /\ refresh[t].backoff \in 1 .. MaxBackoff
               /\ status[t].error \in BOOLEAN
    BY EachTask DEF TaskInv, IsTask, IsReport
  <2>5. reload.pc \in {"idle", "load_key", "store"}
    BY DEF ReloadInv
  <2>6. shake.pc \in {"idle", "select", "done"} /\ shake.verify \in {"none", "store", "fail", "unverified"}
    BY DEF ShakeInv
  <2> QED
    BY <2>1, <2>2, <2>3, <2>4, <2>5, <2>6 DEF TypeOK
<1>2. PairsMatch
  <2>1. ASSUME NEW c \in Range(store) PROVE c.leaf = c.key
    BY DEF Range, GoodSnapshot, GoodCert
  <2>2. served = None \/ served.leaf = served.key
    BY DEF FilesInv, GoodFileCert
  <2>3. reload.cert = None \/ reload.cert.leaf = reload.cert.key
    BY DEF ReloadInv, GoodFileCert
  <2>4. shake.cert = None \/ shake.cert.leaf = shake.cert.key
    BY DEF ShakeInv
  <2> QED
    BY <2>1, <2>2, <2>3, <2>4 DEF PairsMatch
<1> QED
  BY <1>1, <1>2

\* A certificate bears a name: no certificate bears none.
LEMMA BearsNamed ==
  ASSUME NEW s, GoodSnapshot(s), NEW n
  PROVE  {i \in DOMAIN s : Bears(s[i], n)} = Named(s, n)
<1>1. CASE n = None
  BY <1>1, NoneIsUnnamed DEF Bears
<1>2. CASE n # None
  BY <1>2 DEF Bears, Named
<1> QED
  BY <1>1, <1>2

(* What a listener serves is a certificate with its own key, and what a    *)
(* handshake gets from a store is the best certificate there is: exact,    *)
(* then wildcard, then, unless the listener is strict, the first           *)
(* (from_pem_pair, CertSnapshot::select).                                  *)
THEOREM BestIsServed == Spec => RightCertificate
<1>1. TlsInv /\ [Next]_vars =>
       [shake.pc = "select" /\ shake'.pc = "done" /\ TlsMode(Config) = "consul_kv" =>
        LET held == store
            wildcard == IF shake.name = None THEN None ELSE Wildcard[shake.name]
            exact == {i \in DOMAIN held : Bears(held[i], shake.name)}
            close == {i \in DOMAIN held : Bears(held[i], wildcard)}
            fit == IF exact # {} THEN exact ELSE close
        IN IF fit # {} THEN shake'.cert = held[Min(fit)]
           ELSE shake'.cert = IF Config.strict_sni \/ DOMAIN held = {} THEN None ELSE held[Min(DOMAIN held)]]_vars
  <2> DEFINE w == IF shake.name = None THEN None ELSE Wildcard[shake.name]
             exact == {i \in DOMAIN store : Bears(store[i], shake.name)}
             close == {i \in DOMAIN store : Bears(store[i], w)}
             fit == IF exact # {} THEN exact ELSE close
  <2> SUFFICES ASSUME TlsInv, [Next]_vars, shake.pc = "select", shake'.pc = "done", TlsMode(Config) = "consul_kv"
               PROVE  IF fit # {} THEN shake'.cert = store[Min(fit)]
                      ELSE shake'.cert = IF Config.strict_sni \/ DOMAIN store = {} THEN None
                                         ELSE store[Min(DOMAIN store)]
    BY Zenon
  <2> USE DEF TlsInv
  <2>1. Select
    <3>1. shake' # shake
      OBVIOUS
    <3> QED
      BY <3>1
         DEF Next, vars, world, Startup, Watch, Reload, Handshake, Outside, NoClientCa, LoadClientCaFile,
             NoCertificates, LoadFirstCert, LoadFirstKey, StartWatcher, ReadCertMeta, ReadKeyMeta, LoadCert, LoadKey,
             watcherOnly, ReloadCert, ReloadKey, ReloadStore, reloadOnly, Hello, Write, ChangeKv,
             ChangeCa, Shutdown, ReplyTls, ReplyClientCa, Apply, ReadFails, Report, Fail, Wake
  <2> DEFINE cert == select(store, shake.name, Config.strict_sni)
  <2>2. shake' = [pc |-> "done", name |-> None, verify |-> shake.verify, cert |-> cert]
    BY <2>1 DEF Select, ShakeInv
  <2> HIDE DEF cert
  <2>3. shake'.cert = cert
    BY <2>2
  <2>4. cert = IF Named(store, shake.name) # {} THEN store[Min(Named(store, shake.name))]
               ELSE IF Named(store, w) # {} THEN store[Min(Named(store, w))]
               ELSE IF Config.strict_sni \/ DOMAIN store = {} THEN None ELSE store[Min(DOMAIN store)]
    BY SelectIsBest DEF cert
  <2>5. exact = Named(store, shake.name) /\ close = Named(store, w)
    BY BearsNamed
  <2> HIDE DEF w, exact, close
  <2> QED
    BY <2>3, <2>4, <2>5
<1>2. Spec => []TypeOK /\ []PairsMatch
  BY TlsInvariance, TlsTypes, PTL
<1>3. Spec => BestCertificate
  BY <1>1, TlsInvariance, PTL DEF Spec, BestCertificate
<1> QED
  BY <1>2, <1>3, PTL DEF RightCertificate

=============================================================================
