-------------------------- MODULE GeoLeoEnvironment --------------------------
(***************************************************************************)
(* The offloading environment the learning planner is trained in           *)
(* (envs/geo_leo_ground_env.py): in every slot each LEO satellite executes *)
(* its backlog itself or offloads it to a neighbour, to GEO or to the      *)
(* ground, behind an action mask built in layers (action_masks.py) from    *)
(* visibility and from predictions (mask_predictors.py, mask_noise.py).    *)
(*                                                                         *)
(* Work is counted in cycles.  Orbits, rates and noise draws enter as the  *)
(* constants Visible and Lifetime and as choices; rewards, energy and the  *)
(* virtual delay queue are written by step() and read by nothing here.     *)
(***************************************************************************)
EXTENDS Integers, FiniteSets, FiniteSetsExt

CONSTANTS
  Leos,
  Neighbours,   \* the ring: the candidates of _select_neighbor(), per LEO
  Visible,      \* slot -> the remote offers <<leo, tier>> in view
  Lifetime,     \* slot -> tier -> predicted link lifetime
  Transit,      \* tier -> propagation delay
  TxPace,       \* tier -> transmission time of a cycle's bits
  CpuPace,      \* tier -> computing time of a cycle
  Margin,       \* min_link_survival_margin_sec
  Arrivals,     \* cycles that may arrive at a LEO in a slot
  Capacities,   \* cycles the chosen target may serve in a slot
  QueueCap,
  EpisodeLen,
  MaxEpisodes,  \* bound: episodes
  Setups        \* the scenario configurations that are tried

Tiers  == {"local", "neighbor", "geo", "ground"}
Layers == {"visibility", "completion_safe", "mobility_risk"}
Slots  == 0 .. EpisodeLen
Offers == Leos \X Tiers
Setup  == [physical: BOOLEAN, queue_cap_mode: {"finite_buffer", "unbounded_eval"},
           tiers: {T \in SUBSET Tiers : "local" \in T}, layers: SUBSET Layers,
           mask_source: {"measured", "predicted"}, stale: Nat,
           noise: SUBSET {"completion_time", "link_lifetime",
                          "false_positive", "false_negative"}]

ASSUME SizeAssumption ==
  /\ IsFiniteSet(Leos) /\ Leos # {}
  /\ EpisodeLen \in Nat \ {0} /\ MaxEpisodes \in Nat /\ QueueCap \in Nat
ASSUME WorkAssumption == Arrivals \subseteq Nat /\ Capacities \subseteq Nat
ASSUME TopologyAssumption ==
  /\ Neighbours \in [Leos -> SUBSET Leos]
  /\ Visible \in [Slots -> SUBSET (Leos \X (Tiers \ {"local"}))]
ASSUME TimingAssumption ==
  /\ Lifetime \in [Slots -> [Tiers -> Int]]
  /\ Transit \in [Tiers -> Nat] /\ TxPace \in [Tiers -> Nat]
  /\ CpuPace \in [Tiers -> Nat] /\ Margin \in Int
ASSUME SetupsAssumption == Setups \subseteq Setup

VARIABLES
  setup,        \* the scenario of this environment; never changes
  episode,
  t,
  queue,        \* self.queue, per LEO
  geo_queue, ground_queue,  \* what each LEO has waiting at GEO and on the ground
  predictions,  \* _mask_prediction_cache
  masks,        \* _action_mask_details_cache
  owed,         \* history: cycles arrived and neither served nor dropped
  handed,       \* history: cycles left unserved at a neighbour
  last          \* history: what the last step saw and did

work == <<queue, geo_queue, ground_queue, owed, handed>>
vars == <<setup, episode, t, work, predictions, masks, last>>

-----------------------------------------------------------------------------
\* What the mask is built from.

VisibleAt(s) == (Leos \X {"local"}) \cup Visible[s]

Raw == Leos \X setup.tiers

\* _select_neighbor() and _physical_target_queue_cycles(): what waits at the
\* target already.  The shortest queue among the neighbours is the one chosen.
ShortestNeighbour(l, q) ==
  IF Neighbours[l] = {} THEN q[l] ELSE Min({q[n] : n \in Neighbours[l]})

WaitingAt(l, tier, q, geo, ground) ==
  CASE tier = "local"    -> 0
    [] tier = "neighbor" -> ShortestNeighbour(l, q)
    [] tier = "geo"      -> geo[l]
    [] tier = "ground"   -> ground[l]

\* estimate_completion_time() and estimate_completion_time_physical(): the
\* legacy estimate knows no target queue.
CompletionTime(l, tier, q, geo, ground) ==
  Transit[tier] + TxPace[tier] * q[l]
    + (IF setup.physical
         THEN CpuPace[tier] * (q[l] + WaitingAt(l, tier, q, geo, ground)) ELSE 0)

\* predict_masks_from_*_observables(): the offers with this much time left.
\* Local execution is always safe.
WithSlack(s, slack, q, geo, ground) ==
  {o \in VisibleAt(s) :
     \/ o[2] = "local"
     \/ Lifetime[s][o[2]] - CompletionTime(o[1], o[2], q, geo, ground) >= slack}

\* apply_prediction_noise(): noise on the estimated times makes of what is safe
\* any sets of the offers, the local ones among them, of which the margin orders
\* one in the other. Noise on the completion time alone only adds to the mobility.
Blurred(s, completion, mobility) ==
  IF setup.noise \cap {"completion_time", "link_lifetime"} = {}
  THEN {[completion |-> completion, mobility |-> mobility]}
  ELSE LET kept == IF "link_lifetime" \in setup.noise THEN {} ELSE Raw \cap mobility
       IN  {d \in [completion: SUBSET (Raw \cap VisibleAt(s)),
                    mobility: SUBSET (Raw \cap VisibleAt(s))] :
              /\ Leos \X {"local"} \subseteq d.completion \cap d.mobility
              /\ kept \subseteq d.mobility
              /\ Margin >= 0 => d.mobility \ kept \subseteq d.completion
              /\ Margin <= 0 => d.completion \subseteq d.mobility}

\* Rates strictly between 0 and 1 draw any subset to be flipped.
\* What is drawn for a tier the scenario does not have is masked out anyway.
Draws(kind, offers) == IF kind \in setup.noise THEN SUBSET offers ELSE {{}}

Flipped(s, d, fp, fn) ==
  [completion |-> (d.completion \cup fp) \ fn, mobility |-> (d.mobility \cup fp) \ fn,
   made |-> s]

Flips(s, d) ==
  {Flipped(s, d, fp, fn) :
     fp \in Draws("false_positive", (Raw \cap VisibleAt(s)) \ (d.completion \cap d.mobility)),
     fn \in Draws("false_negative", Raw \cap d.completion \cap d.mobility)}

Noisy(s, completion, mobility) ==
  UNION {Flips(s, d) : d \in Blurred(s, completion, mobility)}

FreshPredictions(s, q, geo, ground) ==
  IF setup.mask_source = "measured"
    THEN {[completion |-> VisibleAt(s), mobility |-> VisibleAt(s), made |-> s]}
    ELSE Noisy(s, WithSlack(s, 0, q, geo, ground),
                  WithSlack(s, Margin, q, geo, ground))

\* _predicted_action_mask_sources(): with staleness k the prediction k slots
\* back is used when it is there, and is then not entered for slot s.
UsesStale(s, cache) == setup.stale > 0 /\ s - setup.stale \in DOMAIN cache

Predicted(s, cache, q, geo, ground) ==
  IF UsesStale(s, cache) THEN {cache[s - setup.stale]}
                         ELSE FreshPredictions(s, q, geo, ground)

\* Mutant of Entered: whatever answers for slot s is entered for it.
EnteredAlways(s, cache, p) == [i \in DOMAIN cache \cup {s} |-> IF i = s THEN p ELSE cache[i]]

Entered(s, cache, p) ==
  IF UsesStale(s, cache)
    THEN cache ELSE [i \in DOMAIN cache \cup {s} |-> IF i = s THEN p ELSE cache[i]]

\* build_upper_action_mask(): the layers one after the other, and
\* _ensure_non_empty(), whose fallback is local execution.
\* Mutant of NonEmpty: the fallback is the unmasked row.
NonEmptyRaw(mask) == mask \cup {o \in Raw : \A tier \in Tiers : <<o[1], tier>> \notin mask}

NonEmpty(mask) ==
  mask \cup {<<l, "local">> : l \in {k \in Leos : \A tier \in Tiers : <<k, tier>> \notin mask}}

\* Mutant of Layered: predictions apply in every mode.
LayeredInAnyMode(s, p) ==
  LET visibility == IF "visibility" \in setup.layers THEN Raw \cap VisibleAt(s) ELSE Raw
      predicted  == IF setup.mask_source = "predicted" THEN p.completion \cap p.mobility
                                                       ELSE Offers
  IN  [allowed |-> NonEmpty(visibility \cap predicted), made |-> p.made]

Layered(s, p) ==
  LET visibility == IF "visibility" \in setup.layers THEN Raw \cap VisibleAt(s) ELSE Raw
      completion == IF "completion_safe" \in setup.layers /\ setup.mask_source = "predicted"
                      THEN visibility \cap p.completion ELSE visibility
      mobility   == IF "mobility_risk" \in setup.layers /\ setup.mask_source = "predicted"
                      THEN completion \cap p.mobility ELSE completion
  IN  [allowed |-> NonEmpty(mobility), made |-> p.made]

BuiltMasks(s, cache, q, geo, ground) ==
  {[mask |-> Layered(s, p), cache |-> Entered(s, cache, p)] :
     p \in Predicted(s, cache, q, geo, ground)}

\* Mutant of MasksFor: no cache.
MasksRebuilt(s, cache, q, geo, ground) == BuiltMasks(s, cache, q, geo, ground)

\* _upper_action_mask_details_at_step(): a mask is built once per slot number
\* in the life of the environment, reset() or not.
MasksFor(s, cache, q, geo, ground) ==
  IF s \in DOMAIN masks THEN {[mask |-> masks[s], cache |-> cache]}
                        ELSE BuiltMasks(s, cache, q, geo, ground)

\* The observation of slot s shows its mask; both caches remember.
Observe(s, cache, q, geo, ground) ==
  \E b \in MasksFor(s, cache, q, geo, ground) :
    /\ masks' = [i \in DOMAIN masks \cup {s} |-> IF i = s THEN b.mask ELSE masks[i]]
    /\ predictions' = b.cache

-----------------------------------------------------------------------------
\* The queues.

NoCache == [s \in {} |-> [completion |-> {}, mobility |-> {}, made |-> 0]]
NoMasks == [s \in {} |-> [allowed |-> {}, made |-> 0]]
Nothing == [l \in Leos |-> 0]
NoStep  == [slot |-> 0, faced |-> {}, reported |-> {}, ran |-> {}]

\* The finite buffer cuts what does not fit (torch.clamp at queue_cap).
Buffered(cycles) ==
  IF setup.queue_cap_mode = "finite_buffer" /\ cycles > QueueCap THEN QueueCap ELSE cycles

\* Mutant of Served: the capacity is served, whatever the backlog.
ServedCapacity(l, tier, capacity, faced) ==
  IF <<l, tier>> \in faced THEN capacity ELSE 0

\* Work served in this slot: min(backlog, capacity) if the mask the agent
\* faced allows the action (compute_physical_step, and the legacy branch).
Served(l, tier, capacity, faced) ==
  IF <<l, tier>> \notin faced THEN 0
  ELSE IF queue[l] < capacity THEN queue[l] ELSE capacity

\* Mutant of SourceResidual: a refused offload empties the queue as well.
ResidualDropped(l, tier, served, faced) ==
  IF setup.physical /\ tier # "local" THEN 0 ELSE queue[l] - served

\* What stays in the source queue.  A feasible remote offload empties it in
\* the physical simulator; the legacy one leaves the unserved part there.
SourceResidual(l, tier, served, faced) ==
  IF setup.physical /\ tier # "local" /\ <<l, tier>> \in faced THEN 0
  ELSE queue[l] - served

\* What a feasible remote offload leaves unserved at the target.
RemoteResidual(l, tier, served, faced) ==
  IF setup.physical /\ <<l, tier>> \in faced THEN queue[l] - served ELSE 0

At(tier, action, residual) ==
  [l \in Leos |-> IF action[l] = tier THEN residual[l] ELSE 0]

Plus(f, g) == [l \in Leos |-> f[l] + g[l]]

-----------------------------------------------------------------------------
\* __init__(): everything empty, and no episode yet.
Init ==
  /\ setup \in Setups
  /\ episode = 0 /\ t = 0
  /\ queue = Nothing /\ geo_queue = Nothing /\ ground_queue = Nothing
  /\ predictions = NoCache /\ masks = NoMasks
  /\ owed = Nothing /\ handed = Nothing /\ last = NoStep

\* reset(): the queues and the prediction cache are cleared, the mask cache is
\* not.  Callers reset before the first step and after done.
Reset(arrivals) ==
  /\ episode < MaxEpisodes
  /\ episode = 0 \/ t = EpisodeLen
  /\ episode' = episode + 1
  /\ t' = 0
  /\ queue' = [l \in Leos |-> Buffered(arrivals[l])]
  /\ geo_queue' = Nothing /\ ground_queue' = Nothing
  /\ owed' = queue' /\ handed' = Nothing
  /\ last' = NoStep
  /\ Observe(0, NoCache, queue', Nothing, Nothing)
  /\ UNCHANGED setup

\* step(): serve, move the residual, let work arrive, and observe slot t + 1.
\* The mask reported for slot t is read again after the queues have changed.
Step(action, capacity, arrivals) ==
  /\ episode > 0 /\ t < EpisodeLen
  /\ t' = t + 1
  /\ UNCHANGED <<setup, episode>>
  /\ \E seen \in MasksFor(t, predictions, queue, geo_queue, ground_queue) :
       LET faced     == seen.mask.allowed
           served    == [l \in Leos |-> Served(l, action[l], capacity[l], faced)]
           residual  == [l \in Leos |-> RemoteResidual(l, action[l], served[l], faced)]
           unclamped == [l \in Leos |->
                          SourceResidual(l, action[l], served[l], faced) + arrivals[l]]
       IN  /\ queue' = [l \in Leos |-> Buffered(unclamped[l])]
           /\ geo_queue' = Plus(geo_queue, At("geo", action, residual))
           /\ ground_queue' = Plus(ground_queue, At("ground", action, residual))
           /\ owed' = [l \in Leos |-> owed[l] + arrivals[l] - served[l]
                                        - (unclamped[l] - Buffered(unclamped[l]))]
           /\ handed' = Plus(handed, At("neighbor", action, residual))
           /\ \E again \in MasksFor(t, predictions, queue', geo_queue', ground_queue') :
                last' = [slot |-> t, faced |-> faced, reported |-> again.mask.allowed,
                         ran |-> {<<l, action[l]>> : l \in {k \in Leos : served[k] > 0}}]
           /\ Observe(t', seen.cache, queue', geo_queue', ground_queue')

Next ==
  \/ \E arrivals \in [Leos -> Arrivals] : Reset(arrivals)
  \/ \E action \in [Leos -> Tiers], capacity \in [Leos -> Capacities],
        arrivals \in [Leos -> Arrivals] : Step(action, capacity, arrivals)

Spec == Init /\ [][Next]_vars

-----------------------------------------------------------------------------
\* The types.
Mask       == [allowed: SUBSET Offers, made: Slots]
Prediction == [completion: SUBSET Offers, mobility: SUBSET Offers, made: Slots]
Cycles     == [Leos -> Nat]

\* Every variable has its type, and the LEO queue of a finite buffer fits it.
TypeOK ==
  /\ setup \in Setups
  /\ episode \in 0 .. MaxEpisodes /\ t \in Slots
  /\ queue \in Cycles /\ geo_queue \in Cycles /\ ground_queue \in Cycles
  /\ setup.queue_cap_mode = "finite_buffer" => \A l \in Leos : queue[l] <= QueueCap
  /\ DOMAIN predictions \subseteq Slots
  /\ \A s \in DOMAIN predictions : predictions[s] \in Prediction
  /\ DOMAIN masks \subseteq Slots
  /\ \A s \in DOMAIN masks : masks[s] \in Mask
  /\ owed \in Cycles /\ handed \in Cycles
  /\ last \in [slot: Slots, faced: SUBSET Offers, reported: SUBSET Offers,
               ran: SUBSET Offers]

\* The work a LEO is still owed is in its own queue, at GEO, on the ground, or
\* was left unserved at a neighbour: nothing is counted twice when an offload
\* is refused, served in part or falls back (step(), the two residuals).
WorkAccounted ==
  \A l \in Leos : owed[l] = queue[l] + geo_queue[l] + ground_queue[l] + handed[l]

\* step() transfers "any unserved remote residual to the corresponding remote
\* queue" (its comment): work that is owed waits in one of the queues.
WorkKept ==
  \A l \in Leos : owed[l] = queue[l] + geo_queue[l] + ground_queue[l]

\* The only way work is lost to the queues is the neighbour of the physical
\* simulator, where no queue takes the residual: the legacy simulator, and any
\* architecture without the neighbour tier, keep all of it.
WorkKeptUnlessHanded ==
  ~setup.physical \/ "neighbor" \notin setup.tiers => WorkKept

\* Whatever the layers and the noise remove, false negatives of local execution
\* included, every LEO is left an offer, and one its architecture has
\* (_ensure_non_empty() is the last thing every mask goes through).
MasksArePlayable ==
  \A s \in DOMAIN masks :
    /\ masks[s].allowed \subseteq Raw
    /\ \A l \in Leos : \E tier \in Tiers : <<l, tier>> \in masks[s].allowed

\* The mask whose counts step() reports, read after the queues have changed and
\* with a noise draw possible in between, is the mask the agent acted under.
MaskReportedIsMaskFaced == last.reported = last.faced

\* With the visibility layer on, whatever the predictions, their noise, their
\* age and the fallback for an empty mask are, work is served remotely only at
\* a tier that is in view in that very slot and that the architecture has.
ServedWhereVisible ==
  "visibility" \in setup.layers => last.ran \subseteq Raw \cap VisibleAt(last.slot)

\* Staleness k does not delay predictions by k slots: it delays them in every
\* second block of k slots, the other blocks see fresh ones, because a stale
\* answer is not entered in the prediction cache.
StalenessAlternates ==
  \A s \in DOMAIN masks :
    masks[s].made = IF setup.stale > 0 /\ (s \div setup.stale) % 2 = 1
                      THEN s - setup.stale ELSE s

\* The masks of an environment with measured masks, or with no predicted layer,
\* depend on the slot alone: a mask kept from another episode, whose queues were
\* different, is the one that would be built now.
PlainMaskIsSlotFunction ==
  setup.mask_source = "measured" \/ setup.layers \subseteq {"visibility"} =>
    \A s \in DOMAIN masks :
      \A b \in BuiltMasks(s, predictions, queue, geo_queue, ground_queue) :
        masks[s].allowed = b.mask.allowed

=============================================================================
