-------------------------- MODULE MCScopeProjection --------------------------
(* Two sources and a node: scopes that name one source, the node, or all.   *)
EXTENDS ScopeProjection, TLC

CONSTANTS s1, s2, n1, vm1, vm2

MCSources == {s1, s2}
MCNodes   == {n1}
MCTargets == {vm1, vm2}

\* Nothing tells one target from another.
TargetSymmetry == Permutations(MCTargets)

ScopeOf(sources, nodes) ==
  [NoScope EXCEPT !["source_ids"] = sources, !["node_ids"] = nodes]

MCScopes == {ScopeOf({s1}, {}), ScopeOf({}, {n1}), ScopeOf({s1, s2}, {n1})}

=============================================================================
