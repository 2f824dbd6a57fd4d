--------------------------- MODULE MCHttpRequests ---------------------------
EXTENDS HttpRequests, TLC

T(url, needs, weight) == [url |-> url, needs |-> needs, weight |-> weight]
R(targets, w) == [targets |-> targets, w_targets |-> w, cycle |-> Len(w)]

\* An open route before one with a constrained target, and no route at all.
MCTables == {
    << >>,
    <<R(<<T("u2", {}, 1)>>, <<1>>), R(<<T("u1", {"h"}, 1), T("u2", {}, 1)>>, <<1, 2>>)>> }

C(cb, strategy, max) == [cb |-> cb, strategy |-> strategy, max_connections |-> max]
MCConfigs == {C(TRUE, "round-robin", 1), C(FALSE, "least-connections", 0)}
Symmetry == Permutations(Requests)

========================================================================
