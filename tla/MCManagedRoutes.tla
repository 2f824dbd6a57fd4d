-------------------------- MODULE MCManagedRoutes --------------------------
EXTENDS ManagedRoutes, TLC
CONSTANTS u1, off, p1
RoutePayloads == {<<>>, <<u1>>}
\* Two fields, each of them valid with others, are refused together.
OffWithP1 == {[cb |-> off, dns |-> d, trusted |-> p1] : d \in Ttls}
Symmetry == {f @@ g @@ h : f \in Permutations(Trackers), g \in Permutations(Admins),
                           h \in Permutations(Ttls)}
=============================================================================
