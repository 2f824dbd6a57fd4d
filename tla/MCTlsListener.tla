--------------------------- MODULE MCTlsListener ---------------------------
EXTENDS TlsListener, TLC

P(cert, key) == [oversize |-> FALSE, cert |-> cert, key |-> key]

\* Bundles of the pairs 1 and 2, a certificate and a key alone, a torn file
\* and one that is too large.
MCPem ==
    [b1 |-> P(1, 1), b2 |-> P(2, 2), c2 |-> P(2, None), k1 |-> P(None, 1), k2 |-> P(None, 2),
     torn |-> P(None, None), huge |-> [oversize |-> TRUE, cert |-> 1, key |-> 1]]

K(base, kind) == [base |-> base, kind |-> kind]
ACert == K("a", "cert")
AKey == K("a", "key")
B == K("b", "pem")
MCKeyOrder == <<ACert, AKey, B, K("c", "other")>>

MCCertNames == <<{"x.org", "*.org"}, {"x.org", "*.net"}>>
MCWildcard == [n \in {"x.org", "y.net", "z"} |-> CASE n = "x.org" -> "*.org" [] n = "y.net" -> "*.net" [] OTHER -> None]

\* Both entries; the first in the middle of its rotation; the first with one
\* half only and the second too large; the second beside an unknown key.
MCKvBlobs ==
    [none |-> << >>,
     both |-> ACert :> "c2" @@ AKey :> "k2" @@ B :> "b1",
     rotating |-> ACert :> "c2" @@ AKey :> "k1" @@ B :> "b2",
     half |-> AKey :> "k2" @@ B :> "huge",
     second |-> B :> "b1" @@ K("c", "other") :> "torn"]

MCCaBlobs ==
    [none |-> << >>, one |-> "m" :> "b1" @@ "n" :> "torn", bad |-> "m" :> "huge" @@ "n" :> "k1",
     two |-> "m" :> "b1" @@ "o" :> "b2", refused |-> "r" :> "b2"]

C(source, ok, strict, require, auth, authorities, primary) ==
    [source |-> source, has_files |-> ok, has_prefix |-> ok, strict_sni |-> strict,
     require_initial_snapshot |-> require, client_auth |-> auth, client_ca_source |-> authorities,
     has_ca_path |-> ok, primary |-> primary]
MCConf ==
    [files |-> C("", TRUE, FALSE, FALSE, "required", "file", FALSE),
     kvStrict |-> C("consul_kv", TRUE, TRUE, FALSE, "off", "", TRUE),
     kvOptional |-> C("consul_kv", TRUE, FALSE, TRUE, "optional", "consul_kv", FALSE),
     absent |-> C("", FALSE, FALSE, FALSE, "off", "", TRUE),
     unknown |-> C("other", TRUE, FALSE, FALSE, "off", "", FALSE),
     noPrefix |-> C("consul_kv", FALSE, FALSE, FALSE, "off", "", TRUE),
     noPath |-> C("file", FALSE, FALSE, FALSE, "optional", "file", TRUE)]
=============================================================================
