----------------------------- MODULE CertStore -----------------------------
(***************************************************************************)
(* What is computed from certificate data (src/proxy/tls.rs and            *)
(* src/proxy/tls/helpers.rs): a loaded certificate from a certificate and  *)
(* a key, a snapshot from the entries found in Consul, the certificate for *)
(* a server name, and the set of client CAs.                               *)
(*                                                                         *)
(* A PEM blob is a name; Pem says what parsing it finds.  A certificate is *)
(* identified with the key pair it certifies.                              *)
(***************************************************************************)
EXTENDS Integers, Sequences, Functions, FiniteSetsExt

CONSTANTS
    None,
    Pem,       \* blob -> [oversize, cert, key]: the pair of its first
               \*   certificate block and of its key block, None if there is
               \*   none or a block is invalid
    KeyOrder,  \* the keys an entry may have, [base, kind], in the order of the
               \*   BTreeMap, with kind "cert", "key", "pem" or "other"
    CertNames, \* the names a certificate bears, normalised
    Wildcard   \* server name -> its first-level wildcard, or None

ASSUME CertAssumption ==
    /\ KeyOrder \in Seq(Range(KeyOrder))
    /\ \A k \in Range(KeyOrder) :
        k = [base |-> k.base, kind |-> k.kind] /\ k.kind \in {"cert", "key", "pem", "other"}
    /\ \A b \in DOMAIN Pem : Pem[b].oversize \in BOOLEAN
    /\ \A b \in DOMAIN Pem : \A p \in {Pem[b].cert, Pem[b].key} \ {None} : None \notin CertNames[p]

----------------------------------------------------------------------------
(* Mutant: the key need not belong to the certificate. *)
from_pem_pair_AnyKey(entry, cert_pem, key_pem) ==
    IF Pem[cert_pem].cert = None \/ Pem[key_pem].key = None THEN None
    ELSE [entry |-> entry, leaf |-> Pem[cert_pem].cert, key |-> Pem[key_pem].key]

from_pem_pair(entry, cert_pem, key_pem) ==
    IF Pem[cert_pem].cert = None \/ Pem[key_pem].key # Pem[cert_pem].cert THEN None
    ELSE [entry |-> entry, leaf |-> Pem[cert_pem].cert, key |-> Pem[key_pem].key]

(* The certificate key and the private key of an entry.  The entry bears   *)
(* the name of its certificate key.                                        *)
classify_fabio_entry(k) ==
    IF k.kind \in {"cert", "key"}
    THEN [cert |-> [k EXCEPT !.kind = "cert"], key |-> [k EXCEPT !.kind = "key"]]
    ELSE [cert |-> k, key |-> k]

validate_entry_size(blob) == ~Pem[blob].oversize

(* A snapshot gives the certificates by the position at which their entry  *)
(* was met, which is their order; by_name is built from them once, and     *)
(* by_entry_name holds the same certificates.                              *)
EmptySnapshot == [i \in {} |-> None]

EntryNames(snapshot) == [i \in DOMAIN snapshot |-> snapshot[i].entry]

Entries(snapshot) == {snapshot[i].entry : i \in DOMAIN snapshot}

(* Mutant: an entry that cannot be loaded is dropped. *)
maybe_reuse_previous_Never(previous, entry) == None

maybe_reuse_previous(previous, entry) ==
    IF entry \notin Entries(previous) THEN None
    ELSE CHOOSE c \in Range(previous) : c.entry = entry

(* What an entry holds: None unless both halves are there, fit and match. *)
LoadEntry(entries, e) ==
    IF /\ {e.cert, e.key} \subseteq DOMAIN entries
       /\ \A k \in {e.cert, e.key} : validate_entry_size(entries[k])
    THEN from_pem_pair(e.cert, entries[e.cert], entries[e.key])
    ELSE None

(* The first certificate that bears the name. *)
by_name(ordered) ==
    [n \in UNION {CertNames[ordered[i].leaf] : i \in DOMAIN ordered} |->
        Min({i \in DOMAIN ordered : n \in CertNames[ordered[i].leaf]})]

(* The loop over the keys: each entry is handled at the first of its keys  *)
(* that is met, and is loaded or else stays as it was.                     *)
Met(entries, i) == KeyOrder[i] \in DOMAIN entries /\ KeyOrder[i].kind # "other"

EntryAt(i) == classify_fabio_entry(KeyOrder[i])

Handled(entries, i) ==
    Met(entries, i) /\ \A j \in 1 .. i - 1 : Met(entries, j) => EntryAt(j).cert # EntryAt(i).cert

CertificateAt(entries, previous, i) ==
    LET loaded == LoadEntry(entries, EntryAt(i))
    IN IF ~Handled(entries, i) THEN None
       ELSE IF loaded # None THEN loaded
       ELSE maybe_reuse_previous(previous, EntryAt(i).cert)

from_fabio_entries(entries, previous) ==
    LET kept == {i \in DOMAIN KeyOrder : CertificateAt(entries, previous, i) # None}
    IN [snapshot |-> [i \in kept |-> CertificateAt(entries, previous, i)],
        warned |-> \E i \in DOMAIN KeyOrder : Handled(entries, i) /\ LoadEntry(entries, EntryAt(i)) = None]

(* name is None when the client sent no name, or an empty one. *)
select(snapshot, name, strict_sni) ==
    LET wildcard == IF name = None THEN None ELSE Wildcard[name]
        named(n) == snapshot[by_name(snapshot)[n]]
    IN IF DOMAIN snapshot = {} THEN None
       ELSE IF name \in DOMAIN by_name(snapshot) THEN named(name)
       ELSE IF wildcard \in DOMAIN by_name(snapshot) THEN named(wildcard)
       ELSE IF strict_sni THEN None
       ELSE snapshot[Min(DOMAIN snapshot)]

----------------------------------------------------------------------------
(* ClientCaSnapshot::from_entries: the entries that hold a certificate.    *)
(* None when one of them cannot be added to the store.                     *)
ca_from_entries(entries, refused) ==
    LET valid == {k \in DOMAIN entries : validate_entry_size(entries[k]) /\ Pem[entries[k]].cert # None}
    IN IF valid \cap refused # {} THEN None
       ELSE [store |-> valid, warned |-> valid # DOMAIN entries]
=============================================================================
