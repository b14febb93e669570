------------------------- MODULE MCGeoLeoEnvironment -------------------------
(* Two LEOs that are each other's neighbours; GEO is in view of both in the *)
(* even slots, the ground of l1 in the first two, the neighbour always.     *)
EXTENDS GeoLeoEnvironment

CONSTANTS l1, l2

MCLeos       == {l1, l2}
MCNeighbours == [l \in MCLeos |-> MCLeos \ {l}]
MCVisible    == [s \in 0 .. EpisodeLen |->
                  (MCLeos \X {"neighbor"})
                    \cup (IF s % 2 = 0 THEN MCLeos \X {"geo"} ELSE {})
                    \cup (IF s < 2 THEN {<<l1, "ground">>} ELSE {})]
MCLifetime   == [s \in 0 .. EpisodeLen |->
                  [tier \in Tiers |-> IF tier = "neighbor" THEN 3 ELSE 4]]
MCTransit    == [tier \in Tiers |-> IF tier \in {"geo", "ground"} THEN 1 ELSE 0]
MCTxPace     == [tier \in Tiers |-> IF tier = "ground" THEN 1 ELSE 0]
MCCpuPace    == [tier \in Tiers |-> 1]

Scenario(physical, mode, tiers, layers, source, stale, noise) ==
  [physical |-> physical, queue_cap_mode |-> mode, tiers |-> tiers, layers |-> layers,
   mask_source |-> source, stale |-> stale, noise |-> noise]

\* What the offloading run tries: the measured default, predictions that are
\* stale, predictions that are noisy, and the legacy simulator.
MCSetups ==
  {Scenario(TRUE, "finite_buffer", Tiers, Layers, "measured", 0, {}),
   Scenario(TRUE, "unbounded_eval", Tiers \ {"ground"}, {"visibility"}, "predicted", 1, {}),
   Scenario(TRUE, "finite_buffer", {"local", "neighbor"}, {"visibility", "mobility_risk"},
            "predicted", 1, {"completion_time", "false_positive"}),
   Scenario(FALSE, "finite_buffer", {"local", "ground"}, Layers, "predicted", 0,
            {"link_lifetime", "false_negative"})}

\* One physical scenario with measured masks, and one with predicted ones.
MCPhysical  == {Scenario(TRUE, "unbounded_eval", Tiers, {"visibility"}, "measured", 0, {})}
MCPredicted == {Scenario(TRUE, "unbounded_eval", Tiers, Layers, "predicted", 0, {})}

=============================================================================
