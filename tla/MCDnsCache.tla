----------------------------- MODULE MCDnsCache -----------------------------
EXTENDS DnsCache, TLC

T(key, safe, skip, private) == [key |-> key, safe |-> safe, skip |-> skip, private |-> private]

\* Two targets with other permissions share a name; a third has its own.
MCTargets == {T("a:80", TRUE, FALSE, FALSE), T("a:80", TRUE, FALSE, TRUE),
              T("b:80", TRUE, FALSE, FALSE), T("lo:80", FALSE, FALSE, FALSE)}
MCAnswers == {<< >>, <<"priv">>, <<"pub">>}
MCTtls == {<<1, 1>>, <<2, 0>>}
Symmetry == Permutations(Resolvers)
=============================================================================
