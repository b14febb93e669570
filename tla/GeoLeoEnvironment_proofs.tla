----------------------- MODULE GeoLeoEnvironment_proofs -----------------------
(***************************************************************************)
(* For every constellation, topology, arrival and noise: types, the books  *)
(* of the work, the mask reported is the mask faced, work is served        *)
(* remotely only in view, and what the two mask caches hold.               *)
(***************************************************************************)
EXTENDS GeoLeoEnvironment, NumberLemmas, TLAPS

CacheOK(c) == DOMAIN c \subseteq Slots /\ \A s \in DOMAIN c : c[s] \in Prediction

\* A mask that lets nothing through that is out of view.
InView(s, mask) ==
  "visibility" \in setup.layers => mask.allowed \subseteq Raw \cap VisibleAt(s)

\* What TypeOK leaves out: the mask of the slot exists, and masks are in view.
MasksInView ==
  /\ episode > 0 => t \in DOMAIN masks
  /\ \A s \in DOMAIN masks : InView(s, masks[s])

IInv == TypeOK /\ WorkAccounted /\ MasksInView
          /\ MaskReportedIsMaskFaced /\ ServedWhereVisible

\* Whatever is in view in a slot is an offer.
LEMMA VisibleOffers ==
  ASSUME NEW s \in Slots
  PROVE  VisibleAt(s) \subseteq Offers
BY TopologyAssumption DEF VisibleAt, Offers, Tiers

\* A record of two sets of offers and a slot is a prediction.
LEMMA PredictionType ==
  ASSUME NEW a \in SUBSET Offers, NEW b \in SUBSET Offers, NEW s \in Slots
  PROVE  [completion |-> a, mobility |-> b, made |-> s] \in Prediction
BY DEF Prediction

\* What is predicted from scratch for a slot has the type of a prediction.
LEMMA FreshType ==
  ASSUME NEW s \in Slots, NEW q, NEW geo, NEW ground,
         NEW p \in FreshPredictions(s, q, geo, ground)
  PROVE  p \in Prediction
<1>1. CASE setup.mask_source = "measured"
  BY <1>1, VisibleOffers DEF FreshPredictions, Prediction
<1>2. CASE setup.mask_source # "measured"
  <2> DEFINE C == WithSlack(s, 0, q, geo, ground)
             M == WithSlack(s, Margin, q, geo, ground)
  <2>1. C \subseteq Offers /\ M \subseteq Offers
    BY VisibleOffers DEF WithSlack
  <2>2. p \in Noisy(s, C, M)
    BY <1>2 DEF FreshPredictions
  <2> HIDE DEF C, M
  <2>3. PICK d \in Blurred(s, C, M) : p \in Flips(s, d)
    BY <2>2 DEF Noisy
  <2>4. d.completion \subseteq Offers /\ d.mobility \subseteq Offers
    BY <2>1, <2>3, VisibleOffers DEF Blurred
  <2>5. PICK fp \in Draws("false_positive",
                          (Raw \cap VisibleAt(s)) \ (d.completion \cap d.mobility)),
             fn \in Draws("false_negative", Raw \cap d.completion \cap d.mobility) :
               p = Flipped(s, d, fp, fn)
    BY <2>3 DEF Flips
  <2>6. fp \subseteq Offers
    BY <2>5, VisibleOffers DEF Draws
  <2>7. /\ (d.completion \cup fp) \ fn \in SUBSET Offers
        /\ (d.mobility \cup fp) \ fn \in SUBSET Offers
    BY <2>4, <2>6
  <2> QED BY <2>5, <2>7, PredictionType DEF Flipped
<1> QED BY <1>1, <1>2

\* An answer of the predictor has the type of a prediction, and the cache stays
\* a cache of predictions.
LEMMA PredictedType ==
  ASSUME NEW s \in Slots, NEW cache, CacheOK(cache), NEW q, NEW geo, NEW ground,
         NEW p \in Predicted(s, cache, q, geo, ground)
  PROVE  p \in Prediction /\ CacheOK(Entered(s, cache, p))
<1>1. CASE UsesStale(s, cache)
  BY <1>1 DEF UsesStale, Predicted, Entered, CacheOK
<1>2. CASE ~UsesStale(s, cache)
  <2>1. p \in Prediction
    BY <1>2, FreshType DEF Predicted
  <2> QED BY <1>2, <2>1 DEF Entered, CacheOK
<1> QED BY <1>1, <1>2

\* The layers only remove, and the fallback adds local execution only: a mask
\* built from any prediction is in view.
LEMMA LayeredType ==
  ASSUME SetupsAssumption, setup \in Setups, NEW s \in Slots, NEW p \in Prediction
  PROVE  Layered(s, p) \in Mask /\ InView(s, Layered(s, p))
<1> DEFINE visibility == IF "visibility" \in setup.layers
                           THEN Raw \cap VisibleAt(s) ELSE Raw
           completion == IF "completion_safe" \in setup.layers
                              /\ setup.mask_source = "predicted"
                           THEN visibility \cap p.completion ELSE visibility
           mobility   == IF "mobility_risk" \in setup.layers
                              /\ setup.mask_source = "predicted"
                           THEN completion \cap p.mobility ELSE completion
<1>1. Layered(s, p) = [allowed |-> NonEmpty(mobility), made |-> p.made]
  BY DEF Layered
<1>2. setup \in Setup
  BY DEF SetupsAssumption
<1>3. "local" \in setup.tiers /\ setup.tiers \subseteq Tiers
  BY <1>2 DEF Setup
<1>4. mobility \subseteq visibility
  OBVIOUS
<1>5. Raw \subseteq Offers
  BY <1>3 DEF Raw, Offers
<1>6. visibility \subseteq Raw
  OBVIOUS
<1>7. \A l \in Leos : <<l, "local">> \in visibility
  BY <1>3 DEF Raw, VisibleAt
<1> HIDE DEF visibility, completion, mobility
<1>8. NonEmpty(mobility) \subseteq visibility
  BY <1>4, <1>7 DEF NonEmpty
<1>9. p.made \in Slots
  BY DEF Prediction
<1>10. Layered(s, p) \in Mask
  BY <1>1, <1>5, <1>6, <1>8, <1>9 DEF Mask
<1>11. InView(s, Layered(s, p))
  BY <1>1, <1>8 DEF InView, visibility
<1> QED BY <1>10, <1>11

\* Whichever cache answers, the mask of a slot is a mask in view.
LEMMA MasksForType ==
  ASSUME SetupsAssumption, setup \in Setups, NEW s \in Slots,
         NEW cache, CacheOK(cache), NEW q, NEW geo, NEW ground,
         \A i \in DOMAIN masks : masks[i] \in Mask /\ InView(i, masks[i]),
         NEW b \in MasksFor(s, cache, q, geo, ground)
  PROVE  b.mask \in Mask /\ InView(s, b.mask) /\ CacheOK(b.cache)
<1>1. CASE s \in DOMAIN masks
  BY <1>1 DEF MasksFor
<1>2. CASE s \notin DOMAIN masks
  <2>1. PICK p \in Predicted(s, cache, q, geo, ground) :
          b = [mask |-> Layered(s, p), cache |-> Entered(s, cache, p)]
    BY <1>2 DEF MasksFor, BuiltMasks
  <2>2. p \in Prediction /\ CacheOK(Entered(s, cache, p))
    BY PredictedType
  <2>3. Layered(s, p) \in Mask /\ InView(s, Layered(s, p))
    BY <2>2, LayeredType
  <2> QED BY <2>1, <2>2, <2>3
<1> QED BY <1>1, <1>2

\* After the observation of slot s the caches have their types and the mask of
\* the slot is there.
LEMMA ObserveCaches ==
  ASSUME SetupsAssumption, setup \in Setups, setup' = setup, NEW s \in Slots,
         NEW cache, CacheOK(cache), NEW q, NEW geo, NEW ground,
         DOMAIN masks \subseteq Slots,
         \A i \in DOMAIN masks : masks[i] \in Mask /\ InView(i, masks[i]),
         Observe(s, cache, q, geo, ground)
  PROVE  /\ CacheOK(predictions')
         /\ DOMAIN masks' \subseteq Slots
         /\ (\A i \in DOMAIN masks : masks[i] \in Mask /\ InView(i, masks[i]))'
         /\ s \in DOMAIN masks'
<1>1. PICK b \in MasksFor(s, cache, q, geo, ground) :
        /\ masks' = [i \in DOMAIN masks \cup {s} |-> IF i = s THEN b.mask ELSE masks[i]]
        /\ predictions' = b.cache
  BY DEF Observe
<1>2. b.mask \in Mask /\ InView(s, b.mask) /\ CacheOK(b.cache)
  BY MasksForType
<1>3. \A i \in DOMAIN masks' : masks'[i] \in Mask /\ InView(i, masks'[i])
  BY <1>1, <1>2
<1>4. \A i, mask : InView(i, mask)' <=> InView(i, mask)
  BY DEF InView, Raw, VisibleAt
<1> QED BY <1>1, <1>2, <1>3, <1>4

\* The residual of a LEO: what is not served stays in its queue or is left at
\* the target, and nothing is negative.
LEMMA Residuals ==
  ASSUME NEW l \in Leos, queue \in Cycles, NEW tier, NEW capacity \in Nat, NEW faced
  PROVE  /\ Served(l, tier, capacity, faced) \in Nat
         /\ SourceResidual(l, tier, Served(l, tier, capacity, faced), faced) \in Nat
         /\ RemoteResidual(l, tier, Served(l, tier, capacity, faced), faced) \in Nat
         /\ queue[l] - Served(l, tier, capacity, faced)
              = SourceResidual(l, tier, Served(l, tier, capacity, faced), faced)
                + (IF tier # "local"
                     THEN RemoteResidual(l, tier, Served(l, tier, capacity, faced), faced)
                     ELSE 0)
<1>1. queue[l] \in Nat
  BY DEF Cycles
<1> QED BY <1>1 DEF Served, SourceResidual, RemoteResidual

\* The finite buffer cuts to what it holds.
LEMMA BufferedType ==
  ASSUME QueueCap \in Nat, NEW cycles \in Nat
  PROVE  /\ Buffered(cycles) \in Nat
         /\ setup.queue_cap_mode = "finite_buffer" => Buffered(cycles) <= QueueCap
BY DEF Buffered

-----------------------------------------------------------------------------
\* A new episode starts with empty remote queues and clean books, and keeps the
\* masks of the episodes before it.
LEMMA ResetInv ==
  ASSUME SizeAssumption, WorkAssumption, SetupsAssumption, IInv,
         NEW arrivals \in [Leos -> Arrivals], Reset(arrivals)
  PROVE  IInv'
<1>1. /\ setup' = setup /\ episode' = episode + 1 /\ t' = 0
      /\ queue' = [l \in Leos |-> Buffered(arrivals[l])]
      /\ geo_queue' = Nothing /\ ground_queue' = Nothing
      /\ owed' = queue' /\ handed' = Nothing /\ last' = NoStep
  BY DEF Reset
<1>2. 0 \in Slots /\ episode' \in 0 .. MaxEpisodes
  BY <1>1 DEF SizeAssumption, Slots, Reset, IInv, TypeOK
<1>3. /\ CacheOK(predictions') /\ DOMAIN masks' \subseteq Slots
      /\ (\A i \in DOMAIN masks : masks[i] \in Mask /\ InView(i, masks[i]))'
      /\ 0 \in DOMAIN masks'
  <2>1. CacheOK(NoCache)
    BY DEF CacheOK, NoCache
  <2>2. Observe(0, NoCache, queue', Nothing, Nothing)
    BY DEF Reset
  <2>3. /\ setup \in Setups /\ DOMAIN masks \subseteq Slots
        /\ \A i \in DOMAIN masks : masks[i] \in Mask /\ InView(i, masks[i])
    BY DEF IInv, TypeOK, MasksInView
  <2> QED BY <1>1, <1>2, <2>1, <2>2, <2>3, ObserveCaches
<1>4. queue' \in Cycles
  BY <1>1, BufferedType DEF Cycles, SizeAssumption, WorkAssumption
<1>5. Nothing \in Cycles
  BY DEF Nothing, Cycles
<1>6. TypeOK'
  <2>1. setup.queue_cap_mode = "finite_buffer" => \A l \in Leos : queue'[l] <= QueueCap
    BY <1>1, BufferedType DEF SizeAssumption, WorkAssumption
  <2> QED BY <1>1, <1>2, <1>3, <1>4, <1>5, <2>1 DEF TypeOK, IInv, CacheOK, NoStep
<1>7. WorkAccounted'
  BY <1>1, <1>4 DEF WorkAccounted, Nothing, Cycles
<1>8. MasksInView'
  BY <1>1, <1>3 DEF MasksInView
<1>9. MaskReportedIsMaskFaced' /\ ServedWhereVisible'
  BY <1>1 DEF MaskReportedIsMaskFaced, ServedWhereVisible, NoStep
<1> QED BY <1>6, <1>7, <1>8, <1>9 DEF IInv

\* A step serves, moves and drops work, and the books follow each of the three.
LEMMA StepInv ==
  ASSUME SizeAssumption, WorkAssumption, SetupsAssumption, IInv,
         NEW action \in [Leos -> Tiers], NEW capacity \in [Leos -> Capacities],
         NEW arrivals \in [Leos -> Arrivals], Step(action, capacity, arrivals)
  PROVE  IInv'
<1>1. /\ episode > 0 /\ t < EpisodeLen /\ t' = t + 1
      /\ setup' = setup /\ episode' = episode
  BY DEF Step
<1>2. PICK seen \in MasksFor(t, predictions, queue, geo_queue, ground_queue) :
        LET faced     == seen.mask.allowed
            served    == [l \in Leos |-> Served(l, action[l], capacity[l], faced)]
            residual  == [l \in Leos |-> RemoteResidual(l, action[l], served[l], faced)]
            unclamped == [l \in Leos |->
                           SourceResidual(l, action[l], served[l], faced) + arrivals[l]]
        IN  /\ queue' = [l \in Leos |-> Buffered(unclamped[l])]
            /\ geo_queue' = Plus(geo_queue, At("geo", action, residual))
            /\ ground_queue' = Plus(ground_queue, At("ground", action, residual))
            /\ owed' = [l \in Leos |-> owed[l] + arrivals[l] - served[l]
                                         - (unclamped[l] - Buffered(unclamped[l]))]
            /\ handed' = Plus(handed, At("neighbor", action, residual))
            /\ \E again \in MasksFor(t, predictions, queue', geo_queue', ground_queue') :
                 last' = [slot |-> t, faced |-> faced, reported |-> again.mask.allowed,
                          ran |-> {<<l, action[l]>> : l \in {k \in Leos : served[k] > 0}}]
            /\ Observe(t', seen.cache, queue', geo_queue', ground_queue')
  BY Zenon DEF Step
<1> DEFINE faced     == seen.mask.allowed
           served    == [l \in Leos |-> Served(l, action[l], capacity[l], faced)]
           residual  == [l \in Leos |-> RemoteResidual(l, action[l], served[l], faced)]
           source    == [l \in Leos |-> SourceResidual(l, action[l], served[l], faced)]
           unclamped == [l \in Leos |-> source[l] + arrivals[l]]
           ran       == {<<l, action[l]>> : l \in {k \in Leos : served[k] > 0}}
<1>3. /\ setup \in Setups /\ t \in Slots /\ t' \in Slots
      /\ CacheOK(predictions) /\ DOMAIN masks \subseteq Slots
      /\ \A i \in DOMAIN masks : masks[i] \in Mask /\ InView(i, masks[i])
      /\ t \in DOMAIN masks
  BY <1>1 DEF IInv, TypeOK, MasksInView, Slots, SizeAssumption, CacheOK
<1>4. seen.mask = masks[t] /\ CacheOK(seen.cache)
  BY <1>3 DEF MasksFor
<1>5. PICK again \in MasksFor(t, predictions, queue', geo_queue', ground_queue') :
        last' = [slot |-> t, faced |-> faced, reported |-> again.mask.allowed, ran |-> ran]
  BY <1>2
<1>6. again.mask = masks[t]
  BY <1>3 DEF MasksFor
<1>7. /\ CacheOK(predictions') /\ DOMAIN masks' \subseteq Slots
      /\ (\A i \in DOMAIN masks : masks[i] \in Mask /\ InView(i, masks[i]))'
      /\ t' \in DOMAIN masks'
  <2>1. Observe(t', seen.cache, queue', geo_queue', ground_queue')
    BY <1>2
  <2> QED BY <1>1, <1>3, <1>4, <2>1, ObserveCaches
<1>8. /\ queue \in Cycles /\ geo_queue \in Cycles /\ ground_queue \in Cycles
      /\ owed \in Cycles /\ handed \in Cycles
  BY DEF IInv, TypeOK
<1>9. \A l \in Leos :
        /\ served[l] \in Nat /\ residual[l] \in Nat /\ source[l] \in Nat
        /\ queue[l] - served[l]
             = source[l] + (IF action[l] # "local" THEN residual[l] ELSE 0)
        /\ arrivals[l] \in Nat /\ unclamped[l] \in Nat /\ Buffered(unclamped[l]) \in Nat
        /\ queue[l] \in Nat
  <2> SUFFICES ASSUME NEW l \in Leos
               PROVE  /\ served[l] \in Nat /\ residual[l] \in Nat /\ source[l] \in Nat
                      /\ queue[l] - served[l]
                           = source[l] + (IF action[l] # "local" THEN residual[l] ELSE 0)
                      /\ arrivals[l] \in Nat /\ unclamped[l] \in Nat
                      /\ Buffered(unclamped[l]) \in Nat
                      /\ queue[l] \in Nat
    OBVIOUS
  <2>1. capacity[l] \in Nat /\ arrivals[l] \in Nat
    BY DEF WorkAssumption
  <2>2. /\ served[l] \in Nat /\ residual[l] \in Nat /\ source[l] \in Nat
        /\ queue[l] - served[l]
             = source[l] + (IF action[l] # "local" THEN residual[l] ELSE 0)
    BY <1>8, <2>1, Residuals
  <2>3. unclamped[l] = source[l] + arrivals[l]
    OBVIOUS
  <2> HIDE DEF served, residual, source, unclamped
  <2>4. unclamped[l] \in Nat
    BY <2>1, <2>2, <2>3
  <2>5. Buffered(unclamped[l]) \in Nat
    BY <2>4, BufferedType DEF SizeAssumption
  <2> QED BY <1>8, <2>1, <2>2, <2>4, <2>5 DEF Cycles
<1>10. /\ queue' = [l \in Leos |-> Buffered(unclamped[l])]
       /\ geo_queue' = Plus(geo_queue, At("geo", action, residual))
       /\ ground_queue' = Plus(ground_queue, At("ground", action, residual))
       /\ owed' = [l \in Leos |-> owed[l] + arrivals[l] - served[l]
                                    - (unclamped[l] - Buffered(unclamped[l]))]
       /\ handed' = Plus(handed, At("neighbor", action, residual))
  BY <1>2
<1>11. \A l \in Leos : unclamped[l] = source[l] + arrivals[l]
  OBVIOUS
<1>12. ran \subseteq faced /\ ran \subseteq Offers
  <2>1. \A l \in Leos : served[l] > 0 => <<l, action[l]>> \in faced
    BY DEF Served
  <2>2. \A l \in Leos : <<l, action[l]>> \in Offers
    BY DEF Offers
  <2> HIDE DEF faced, served
  <2> QED BY <2>1, <2>2
<1> HIDE DEF faced, served, residual, source, unclamped, ran
<1>14. \A l \in Leos :
         /\ queue'[l] = Buffered(unclamped[l])
         /\ geo_queue'[l] = geo_queue[l] + (IF action[l] = "geo" THEN residual[l] ELSE 0)
         /\ ground_queue'[l] = ground_queue[l]
                                 + (IF action[l] = "ground" THEN residual[l] ELSE 0)
         /\ handed'[l] = handed[l] + (IF action[l] = "neighbor" THEN residual[l] ELSE 0)
         /\ owed'[l] = owed[l] + arrivals[l] - served[l]
                         - (unclamped[l] - Buffered(unclamped[l]))
  BY <1>10 DEF Plus, At
<1>15. WorkAccounted'
  <2> SUFFICES ASSUME NEW l \in Leos
               PROVE  owed'[l] = queue'[l] + geo_queue'[l] + ground_queue'[l] + handed'[l]
    BY DEF WorkAccounted
  <2>1. owed[l] = queue[l] + geo_queue[l] + ground_queue[l] + handed[l]
    BY DEF IInv, WorkAccounted
  <2>2. action[l] \in {"local", "neighbor", "geo", "ground"}
    BY DEF Tiers
  <2>3. /\ geo_queue[l] \in Nat /\ ground_queue[l] \in Nat /\ handed[l] \in Nat
        /\ owed[l] \in Nat
    BY <1>8 DEF Cycles
  <2> QED BY <1>9, <1>11, <1>14, <2>1, <2>2, <2>3
<1>16. /\ queue' \in Cycles /\ geo_queue' \in Cycles /\ ground_queue' \in Cycles
       /\ handed' \in Cycles
  BY <1>8, <1>9, <1>10 DEF Cycles, Plus, At
<1>17. owed' \in Cycles
  <2>1. \A l \in Leos : queue'[l] + geo_queue'[l] + ground_queue'[l] + handed'[l] \in Nat
    BY <1>16 DEF Cycles
  <2>2. \A l \in Leos : owed'[l] \in Nat
    BY <1>15, <2>1 DEF WorkAccounted
  <2> QED BY <1>10, <2>2 DEF Cycles
<1>18. masks[t] \in Mask /\ InView(t, masks[t])
  BY <1>3
<1>19. faced = masks[t].allowed /\ last'.faced = faced /\ last'.slot = t
       /\ last'.reported = faced /\ last'.ran = ran
  BY <1>4, <1>5, <1>6 DEF faced
<1>20. last' \in [slot: Slots, faced: SUBSET Offers, reported: SUBSET Offers,
                   ran: SUBSET Offers]
  BY <1>3, <1>5, <1>6, <1>12, <1>18, <1>19 DEF Mask
<1>21. TypeOK'
  <2>1. setup.queue_cap_mode = "finite_buffer" => \A l \in Leos : queue'[l] <= QueueCap
    BY <1>9, <1>14, BufferedType DEF SizeAssumption
  <2> QED BY <1>1, <1>3, <1>7, <1>16, <1>17, <1>20, <2>1 DEF TypeOK, IInv, CacheOK
<1>22. MasksInView'
  BY <1>7 DEF MasksInView
<1>23. MaskReportedIsMaskFaced'
  BY <1>19 DEF MaskReportedIsMaskFaced
<1>24. ServedWhereVisible'
  BY <1>1, <1>12, <1>18, <1>19 DEF ServedWhereVisible, InView, Raw, VisibleAt
<1> QED BY <1>15, <1>21, <1>22, <1>23, <1>24 DEF IInv

\* A new environment owes nothing.
LEMMA InitInv ==
  ASSUME SizeAssumption, Init
  PROVE  IInv
<1>1. Nothing \in Cycles
  BY DEF Nothing, Cycles
<1>2. TypeOK
  <2>1. \A l \in Leos : queue[l] <= QueueCap
    BY DEF Init, Nothing, SizeAssumption
  <2> QED BY <1>1, <2>1 DEF Init, TypeOK, SizeAssumption, Slots, NoCache, NoMasks, NoStep
<1>3. WorkAccounted
  BY DEF Init, WorkAccounted, Nothing
<1>4. MasksInView /\ MaskReportedIsMaskFaced /\ ServedWhereVisible
  BY DEF Init, MasksInView, NoMasks, MaskReportedIsMaskFaced, ServedWhereVisible, NoStep
<1> QED BY <1>2, <1>3, <1>4 DEF IInv

\* The inductive invariant holds in every reachable state.
THEOREM Invariance == Spec => []IInv
<1>1. Init => IInv
  BY SizeAssumption, InitInv
<1>2. IInv /\ [Next]_vars => IInv'
  <2> SUFFICES ASSUME IInv, [Next]_vars PROVE IInv'
    OBVIOUS
  <2>1. CASE Next
    <3>1. CASE \E arrivals \in [Leos -> Arrivals] : Reset(arrivals)
      BY <3>1, ResetInv, SizeAssumption, WorkAssumption, SetupsAssumption
    <3>2. CASE \E action \in [Leos -> Tiers], capacity \in [Leos -> Capacities],
                  arrivals \in [Leos -> Arrivals] : Step(action, capacity, arrivals)
      BY <3>2, StepInv, SizeAssumption, WorkAssumption, SetupsAssumption
    <3> QED BY <2>1, <3>1, <3>2 DEF Next
  <2>2. CASE UNCHANGED vars
    BY <2>2 DEF vars, work, IInv, TypeOK, WorkAccounted, MasksInView, InView, Raw,
                VisibleAt, MaskReportedIsMaskFaced, ServedWhereVisible
  <2> QED BY <2>1, <2>2
<1> QED BY <1>1, <1>2, PTL DEF Spec

\* Types, for every scenario.
THEOREM TypeCorrect == Spec => []TypeOK
<1>1. IInv => TypeOK
  BY DEF IInv
<1> QED BY <1>1, Invariance, PTL

\* No cycle is counted twice and none is lost but at a neighbour: step() and
\* reset() keep the books of every LEO, buffer overflow and refusals included.
THEOREM WorkIsAccounted == Spec => []WorkAccounted
<1>1. IInv => WorkAccounted
  BY DEF IInv
<1> QED BY <1>1, Invariance, PTL

\* What step() reports about its mask is about the mask that was faced.
THEOREM ReportsFacedMask == Spec => []MaskReportedIsMaskFaced
<1>1. IInv => MaskReportedIsMaskFaced
  BY DEF IInv
<1> QED BY <1>1, Invariance, PTL

\* Behind the visibility layer nothing is served out of view, whatever the
\* predictor, its noise, its staleness and the mask cache do.
THEOREM ServesInView == Spec => []ServedWhereVisible
<1>1. IInv => ServedWhereVisible
  BY DEF IInv
<1> QED BY <1>1, Invariance, PTL

-----------------------------------------------------------------------------
\* How a step reaches the caches: reset() observes slot 0 with an empty
\* prediction cache, step() the next slot with the cache as it is.
CacheReset ==
  /\ episode = 0 \/ t = EpisodeLen
  /\ setup' = setup /\ episode' = episode + 1 /\ t' = 0
  /\ \E q, geo, ground : Observe(0, NoCache, q, geo, ground)

CacheStep ==
  /\ episode > 0 /\ t < EpisodeLen
  /\ setup' = setup /\ episode' = episode /\ t' = t + 1
  /\ \E q, geo, ground : Observe(t + 1, predictions, q, geo, ground)

\* Every step is one of the two or leaves the caches alone.
LEMMA CacheActions ==
  ASSUME IInv, [Next]_vars
  PROVE  \/ CacheReset \/ CacheStep
         \/ UNCHANGED <<setup, episode, t, predictions, masks>>
<1>1. ASSUME NEW arrivals \in [Leos -> Arrivals], Reset(arrivals)
      PROVE  CacheReset
  <2>1. Observe(0, NoCache, queue', Nothing, Nothing)
    BY <1>1 DEF Reset
  <2>2. \E q, geo, ground : Observe(0, NoCache, q, geo, ground)
    BY <2>1
  <2> QED BY <1>1, <2>2 DEF Reset, CacheReset
<1>2. ASSUME NEW action \in [Leos -> Tiers], NEW capacity \in [Leos -> Capacities],
             NEW arrivals \in [Leos -> Arrivals], Step(action, capacity, arrivals)
      PROVE  CacheStep
  <2>1. /\ episode > 0 /\ t < EpisodeLen /\ t' = t + 1
        /\ setup' = setup /\ episode' = episode
    BY <1>2 DEF Step
  <2>2. PICK seen \in MasksFor(t, predictions, queue, geo_queue, ground_queue) :
          Observe(t', seen.cache, queue', geo_queue', ground_queue')
    BY Zenon, <1>2 DEF Step
  <2>3. t \in DOMAIN masks
    BY <2>1 DEF IInv, MasksInView
  <2>4. seen.cache = predictions
    BY <2>2, <2>3 DEF MasksFor
  <2>5. Observe(t + 1, predictions, queue', geo_queue', ground_queue')
    BY <2>1, <2>2, <2>4
  <2>6. \E q, geo, ground : Observe(t + 1, predictions, q, geo, ground)
    BY <2>5
  <2> QED BY <2>1, <2>6 DEF CacheStep
<1> QED BY <1>1, <1>2 DEF Next, vars

\* Observing a slot that has its mask changes no mask.
LEMMA ObserveOld ==
  ASSUME NEW s \in DOMAIN masks, NEW cache, NEW q, NEW geo, NEW ground,
         Observe(s, cache, q, geo, ground)
  PROVE  DOMAIN masks' = DOMAIN masks /\ \A i \in DOMAIN masks : masks'[i] = masks[i]
<1>1. PICK b \in MasksFor(s, cache, q, geo, ground) :
        masks' = [i \in DOMAIN masks \cup {s} |-> IF i = s THEN b.mask ELSE masks[i]]
  BY DEF Observe
<1>2. b.mask = masks[s]
  BY <1>1 DEF MasksFor
<1> QED BY <1>1, <1>2

\* Observing a slot that has none builds it from an answer of the predictor.
LEMMA ObserveNew ==
  ASSUME NEW s, s \notin DOMAIN masks, NEW cache, NEW q, NEW geo, NEW ground,
         Observe(s, cache, q, geo, ground)
  PROVE  \E p \in Predicted(s, cache, q, geo, ground) :
           /\ DOMAIN masks' = DOMAIN masks \cup {s}
           /\ \A i \in DOMAIN masks : masks'[i] = masks[i]
           /\ masks'[s] = Layered(s, p)
           /\ predictions' = Entered(s, cache, p)
<1>1. PICK b \in MasksFor(s, cache, q, geo, ground) :
        /\ masks' = [i \in DOMAIN masks \cup {s} |-> IF i = s THEN b.mask ELSE masks[i]]
        /\ predictions' = b.cache
  BY DEF Observe
<1>2. PICK p \in Predicted(s, cache, q, geo, ground) :
        b = [mask |-> Layered(s, p), cache |-> Entered(s, cache, p)]
  BY <1>1 DEF MasksFor, BuiltMasks
<1>3. b.mask = Layered(s, p) /\ b.cache = Entered(s, cache, p)
  BY <1>2
<1> QED BY <1>1, <1>3

-----------------------------------------------------------------------------
\* Masks that no prediction has a part in.
Plain == setup.mask_source = "measured" \/ setup.layers \subseteq {"visibility"}

PlainAllowed(s) ==
  NonEmpty(IF "visibility" \in setup.layers THEN Raw \cap VisibleAt(s) ELSE Raw)

PlainMasks == Plain => \A s \in DOMAIN masks : masks[s].allowed = PlainAllowed(s)

\* Then the layers give the same for every prediction.
LEMMA PlainLayers ==
  ASSUME Plain, NEW s, NEW p
  PROVE  Layered(s, p).allowed = PlainAllowed(s)
<1>1. \/ setup.mask_source # "predicted"
      \/ "completion_safe" \notin setup.layers /\ "mobility_risk" \notin setup.layers
  BY DEF Plain
<1> QED BY <1>1 DEF Layered, PlainAllowed

\* A plain mask stays what it was, and a new one is what it has to be.
LEMMA PlainKept ==
  ASSUME IInv, PlainMasks, [Next]_vars
  PROVE  PlainMasks'
<1> SUFFICES ASSUME Plain', NEW i \in DOMAIN masks'
             PROVE  masks'[i].allowed = PlainAllowed(i)'
  BY DEF PlainMasks
<1>1. setup' = setup
  BY CacheActions DEF CacheReset, CacheStep
<1>2. Plain /\ PlainAllowed(i)' = PlainAllowed(i)
  BY <1>1 DEF Plain, PlainAllowed, NonEmpty, Raw, VisibleAt
<1>3. ASSUME NEW s, NEW cache, NEW q, NEW geo, NEW ground, Observe(s, cache, q, geo, ground)
      PROVE  masks'[i].allowed = PlainAllowed(i)
  <2>1. CASE s \in DOMAIN masks
    <3>1. i \in DOMAIN masks /\ masks'[i] = masks[i]
      BY <1>3, <2>1, ObserveOld
    <3> QED BY <1>2, <3>1 DEF PlainMasks
  <2>2. CASE s \notin DOMAIN masks
    <3>1. PICK p \in Predicted(s, cache, q, geo, ground) :
            /\ DOMAIN masks' = DOMAIN masks \cup {s}
            /\ \A j \in DOMAIN masks : masks'[j] = masks[j]
            /\ masks'[s] = Layered(s, p)
      BY <1>3, <2>2, ObserveNew
    <3>2. CASE i = s
      BY <1>2, <3>1, <3>2, PlainLayers
    <3>3. CASE i # s
      BY <1>2, <3>1, <3>3 DEF PlainMasks
    <3> QED BY <3>2, <3>3
  <2> QED BY <2>1, <2>2
<1>4. CASE masks' = masks
  BY <1>2, <1>4 DEF PlainMasks
<1>5. CASE CacheReset \/ CacheStep
  <2>1. PICK s, cache, q, geo, ground : Observe(s, cache, q, geo, ground)
    BY <1>5 DEF CacheReset, CacheStep
  <2> QED BY <1>2, <1>3, <2>1
<1> QED BY <1>4, <1>5, CacheActions

\* The mask cache that reset() does not clear is harmless where no prediction
\* has a part in the masks: what is kept is what would be built.
THEOREM PlainMasksAreCurrent == Spec => []PlainMaskIsSlotFunction
<1>1. Init => PlainMasks
  BY DEF Init, PlainMasks, NoMasks
<1>2. IInv /\ PlainMasks /\ [Next]_vars => PlainMasks'
  BY PlainKept
<1>3. PlainMasks => PlainMaskIsSlotFunction
  <2> SUFFICES ASSUME PlainMasks, Plain, NEW s \in DOMAIN masks,
                      NEW b \in BuiltMasks(s, predictions, queue, geo_queue, ground_queue)
               PROVE  masks[s].allowed = b.mask.allowed
    BY DEF PlainMaskIsSlotFunction, Plain
  <2>1. PICK p : b = [mask |-> Layered(s, p), cache |-> Entered(s, predictions, p)]
    BY DEF BuiltMasks
  <2>2. b.mask = Layered(s, p)
    BY <2>1
  <2> QED BY <2>2, PlainLayers DEF PlainMasks
<1> QED BY <1>1, <1>2, <1>3, Invariance, PTL DEF Spec

-----------------------------------------------------------------------------
\* A mask built from any prediction only names offers the architecture has, and
\* leaves every LEO one of them.
Playable(mask) ==
  /\ mask.allowed \subseteq Raw
  /\ \A l \in Leos : \E tier \in Tiers : <<l, tier>> \in mask.allowed

\* The fallback: adding local execution where a row is empty leaves no row empty.
LEMMA FallbackPlayable ==
  ASSUME SetupsAssumption, setup \in Setups, NEW mask, mask \subseteq Raw
  PROVE  /\ NonEmpty(mask) \subseteq Raw
         /\ \A l \in Leos : \E tier \in Tiers : <<l, tier>> \in NonEmpty(mask)
<1>1. "local" \in setup.tiers
  BY DEF SetupsAssumption, Setup
<1>2. NonEmpty(mask) \subseteq Raw
  BY <1>1 DEF NonEmpty, Raw
<1>3. ASSUME NEW l \in Leos PROVE \E tier \in Tiers : <<l, tier>> \in NonEmpty(mask)
  <2>1. CASE \E tier \in Tiers : <<l, tier>> \in mask
    BY <2>1 DEF NonEmpty
  <2>2. CASE \A tier \in Tiers : <<l, tier>> \notin mask
    <3>1. <<l, "local">> \in NonEmpty(mask)
      BY <2>2 DEF NonEmpty
    <3> QED BY <3>1 DEF Tiers
  <2> QED BY <2>1, <2>2
<1> QED BY <1>2, <1>3

\* Hence every layered mask is playable.
LEMMA LayeredPlayable ==
  ASSUME SetupsAssumption, setup \in Setups, NEW s, NEW p
  PROVE  Playable(Layered(s, p))
<1>1. PICK mask : mask \subseteq Raw /\ Layered(s, p).allowed = NonEmpty(mask)
  <2> DEFINE visibility == IF "visibility" \in setup.layers
                             THEN Raw \cap VisibleAt(s) ELSE Raw
             completion == IF "completion_safe" \in setup.layers
                                /\ setup.mask_source = "predicted"
                             THEN visibility \cap p.completion ELSE visibility
             mobility   == IF "mobility_risk" \in setup.layers
                                /\ setup.mask_source = "predicted"
                             THEN completion \cap p.mobility ELSE completion
  <2>1. mobility \subseteq Raw
    OBVIOUS
  <2>2. Layered(s, p).allowed = NonEmpty(mobility)
    BY DEF Layered
  <2> HIDE DEF mobility
  <2> QED BY <2>1, <2>2
<1> QED BY <1>1, FallbackPlayable DEF Playable

\* No step makes a mask that is not playable.
LEMMA PlayableKept ==
  ASSUME SetupsAssumption, IInv, MasksArePlayable, [Next]_vars
  PROVE  MasksArePlayable'
<1>1. setup' = setup /\ setup \in Setups
  BY CacheActions DEF CacheReset, CacheStep, IInv, TypeOK
<1>2. (\A i \in DOMAIN masks' : Playable(masks'[i])) => MasksArePlayable'
  BY <1>1 DEF MasksArePlayable, Playable, Raw
<1>3. \A j \in DOMAIN masks : Playable(masks[j])
  BY DEF MasksArePlayable, Playable
<1> SUFFICES ASSUME NEW i \in DOMAIN masks'
             PROVE  Playable(masks'[i])
  BY <1>2
<1>4. ASSUME NEW s, NEW cache, NEW q, NEW geo, NEW ground, Observe(s, cache, q, geo, ground)
      PROVE  Playable(masks'[i])
  <2>1. CASE s \in DOMAIN masks
    BY <1>3, <1>4, <2>1, ObserveOld
  <2>2. CASE s \notin DOMAIN masks
    <3>1. PICK p \in Predicted(s, cache, q, geo, ground) :
            /\ DOMAIN masks' = DOMAIN masks \cup {s}
            /\ \A j \in DOMAIN masks : masks'[j] = masks[j]
            /\ masks'[s] = Layered(s, p)
            /\ predictions' = Entered(s, cache, p)
      BY <1>4, <2>2, ObserveNew
    <3> QED BY <1>1, <1>3, <3>1, LayeredPlayable
  <2> QED BY <2>1, <2>2
<1>5. CASE masks' = masks
  BY <1>3, <1>5
<1>6. CASE CacheReset \/ CacheStep
  <2>1. PICK s, cache, q, geo, ground : Observe(s, cache, q, geo, ground)
    BY <1>6 DEF CacheReset, CacheStep
  <2> QED BY <1>4, <2>1
<1> QED BY <1>5, <1>6, CacheActions

\* Under every layer, prediction and noise draw every LEO keeps an action its
\* architecture has: the fallback reaches every mask.
THEOREM EveryMaskIsPlayable == Spec => []MasksArePlayable
<1>1. Init => MasksArePlayable
  BY DEF Init, MasksArePlayable, NoMasks
<1>2. IInv /\ MasksArePlayable /\ [Next]_vars => MasksArePlayable'
  BY SetupsAssumption, PlayableKept
<1> QED BY <1>1, <1>2, Invariance, PTL DEF Spec

-----------------------------------------------------------------------------
\* Nothing is left unserved at a neighbour that the scenario cannot name or
\* that the legacy simulator does not model.
NothingHanded ==
  ~setup.physical \/ "neighbor" \notin setup.tiers => \A l \in Leos : handed[l] = 0

\* A step that faces a playable mask hands nothing over in these scenarios.
LEMMA NothingHandedKept ==
  ASSUME IInv, MasksArePlayable, NothingHanded, [Next]_vars
  PROVE  NothingHanded'
<1>1. ASSUME NEW arrivals \in [Leos -> Arrivals], Reset(arrivals)
      PROVE  NothingHanded'
  BY <1>1 DEF Reset, NothingHanded, Nothing
<1>2. ASSUME NEW action \in [Leos -> Tiers], NEW capacity \in [Leos -> Capacities],
             NEW arrivals \in [Leos -> Arrivals], Step(action, capacity, arrivals)
      PROVE  NothingHanded'
  <2>1. episode > 0 /\ setup' = setup
    BY <1>2 DEF Step
  <2>2. PICK seen \in MasksFor(t, predictions, queue, geo_queue, ground_queue) :
          LET faced    == seen.mask.allowed
              served   == [l \in Leos |-> Served(l, action[l], capacity[l], faced)]
              residual == [l \in Leos |-> RemoteResidual(l, action[l], served[l], faced)]
          IN  handed' = Plus(handed, At("neighbor", action, residual))
    BY Zenon, <1>2 DEF Step
  <2> DEFINE faced    == seen.mask.allowed
             served   == [l \in Leos |-> Served(l, action[l], capacity[l], faced)]
             residual == [l \in Leos |-> RemoteResidual(l, action[l], served[l], faced)]
  <2>3. faced \subseteq Raw
    <3>1. t \in DOMAIN masks
      BY <2>1 DEF IInv, MasksInView
    <3>2. seen.mask = masks[t]
      BY <2>2, <3>1 DEF MasksFor
    <3> QED BY <3>1, <3>2 DEF MasksArePlayable
  <2>4. handed' = Plus(handed, At("neighbor", action, residual))
    BY <2>2
  <2> SUFFICES ASSUME ~setup.physical \/ "neighbor" \notin setup.tiers, NEW l \in Leos
               PROVE  handed'[l] = 0
    BY <2>1 DEF NothingHanded
  <2>5. action[l] = "neighbor" => residual[l] = 0
    <3>1. "neighbor" \notin setup.tiers => <<l, "neighbor">> \notin faced
      BY <2>3 DEF Raw
    <3> HIDE DEF faced, served
    <3> QED BY <3>1 DEF RemoteResidual
  <2>6. handed[l] = 0
    BY DEF NothingHanded
  <2> HIDE DEF residual
  <2>7. At("neighbor", action, residual)[l] = 0
    BY <2>5 DEF At
  <2> QED BY <2>4, <2>6, <2>7 DEF Plus
<1> QED BY <1>1, <1>2 DEF Next, vars, work, NothingHanded

\* Work that is owed waits in a queue in every scenario but the one the last
\* hazard of step() is about: the neighbour tier of the physical simulator.
THEOREM WorkIsKept == Spec => []WorkKeptUnlessHanded
<1>1. Init => MasksArePlayable /\ NothingHanded
  BY DEF Init, MasksArePlayable, NoMasks, NothingHanded, Nothing
<1>2. IInv /\ (MasksArePlayable /\ NothingHanded) /\ [Next]_vars
        => (MasksArePlayable /\ NothingHanded)'
  BY SetupsAssumption, PlayableKept, NothingHandedKept
<1>3. IInv /\ NothingHanded => WorkKeptUnlessHanded
  <2> SUFFICES ASSUME IInv, NothingHanded, ~setup.physical \/ "neighbor" \notin setup.tiers,
                      NEW l \in Leos
               PROVE  owed[l] = queue[l] + geo_queue[l] + ground_queue[l]
    BY DEF WorkKeptUnlessHanded, WorkKept
  <2>1. owed[l] = queue[l] + geo_queue[l] + ground_queue[l] + handed[l]
    BY DEF IInv, WorkAccounted
  <2>2. handed[l] = 0
    BY DEF NothingHanded
  <2>3. queue[l] \in Nat /\ geo_queue[l] \in Nat /\ ground_queue[l] \in Nat
    BY DEF IInv, TypeOK, Cycles
  <2> QED BY <2>1, <2>2, <2>3
<1> QED BY <1>1, <1>2, <1>3, Invariance, PTL DEF Spec

-----------------------------------------------------------------------------
\* The slots that a stale prediction answers for: every second block.
StaleSlot(s) == setup.stale > 0 /\ (s \div setup.stale) % 2 = 1

Made(s) == IF StaleSlot(s) THEN s - setup.stale ELSE s

\* The caches during the first episode fill slot by slot; afterwards every slot
\* has its mask and the prediction cache answers for nothing.
StaleCaches ==
  /\ DOMAIN masks = IF episode = 0 THEN {} ELSE IF episode = 1 THEN 0 .. t ELSE Slots
  /\ \A s \in DOMAIN masks : masks[s].made = Made(s)
  /\ episode = 1 => /\ DOMAIN predictions = {s \in 0 .. t : ~StaleSlot(s)}
                    /\ \A s \in DOMAIN predictions : predictions[s].made = s

\* A fresh prediction for slot s is made in slot s.
LEMMA FreshMade ==
  ASSUME NEW s, NEW q, NEW geo, NEW ground, NEW p \in FreshPredictions(s, q, geo, ground)
  PROVE  p.made = s
<1>1. CASE setup.mask_source = "measured"
  BY <1>1 DEF FreshPredictions
<1>2. CASE setup.mask_source # "measured"
  <2> DEFINE C == WithSlack(s, 0, q, geo, ground)
             M == WithSlack(s, Margin, q, geo, ground)
  <2>1. p \in Noisy(s, C, M)
    BY <1>2 DEF FreshPredictions
  <2> HIDE DEF C, M
  <2>2. PICK d \in Blurred(s, C, M) : p \in Flips(s, d)
    BY <2>1 DEF Noisy
  <2>3. \E fp, fn : p = Flipped(s, d, fp, fn)
    BY <2>2 DEF Flips
  <2> QED BY <2>3 DEF Flipped
<1> QED BY <1>1, <1>2

\* The block before a stale block is a fresh one, and the first block is fresh.
LEMMA BlocksAlternate ==
  ASSUME setup.stale \in Nat, NEW s \in Nat
  PROVE  /\ setup.stale > 0 /\ s >= setup.stale
              => s - setup.stale \in Nat /\ (StaleSlot(s - setup.stale) <=> ~StaleSlot(s))
         /\ setup.stale > 0 /\ s < setup.stale => ~StaleSlot(s)
<1> DEFINE k == setup.stale
<1>1. ASSUME k > 0, s >= k
      PROVE  s - k \in Nat /\ (StaleSlot(s - k) <=> ~StaleSlot(s))
  <2>1. s - k \in Nat
    BY <1>1
  <2>2. (s - k) \div k = (s \div k) - 1 /\ (s - k) \div k \in Nat /\ s \div k \in Nat
    BY <1>1, <2>1, QuotientBefore, Quotient
  <2> DEFINE a == (s - k) \div k
  <2> HIDE DEF a
  <2>3. a \in Nat /\ s \div k = a + 1
    BY <2>2 DEF a
  <2>4. a % 2 = 1 <=> ~((a + 1) % 2 = 1)
    BY <2>3
  <2> QED BY <1>1, <2>1, <2>3, <2>4 DEF StaleSlot, a
<1>2. ASSUME k > 0, s < k
      PROVE  ~StaleSlot(s)
  <2>1. s \div k = 0
    BY <1>2, QuotientSmall
  <2> QED BY <2>1 DEF StaleSlot
<1> QED BY <1>1, <1>2

\* The first episode: the predictor answers from the block before exactly in the
\* stale blocks, and what it answers there is not entered.
LEMMA FirstEpisode ==
  ASSUME setup.stale \in Nat, NEW s \in Nat, NEW cache,
         DOMAIN cache = {i \in 0 .. s - 1 : ~StaleSlot(i)},
         \A i \in DOMAIN cache : cache[i].made = i,
         NEW q, NEW geo, NEW ground, NEW p \in Predicted(s, cache, q, geo, ground)
  PROVE  /\ p.made = Made(s)
         /\ DOMAIN Entered(s, cache, p) = {i \in 0 .. s : ~StaleSlot(i)}
         /\ \A i \in DOMAIN Entered(s, cache, p) : Entered(s, cache, p)[i].made = i
<1>1. UsesStale(s, cache) <=> StaleSlot(s)
  <2>1. CASE setup.stale > 0 /\ s >= setup.stale
    <3>1. s - setup.stale \in 0 .. s - 1
      BY <2>1
    <3> QED BY <2>1, <3>1, BlocksAlternate DEF UsesStale
  <2>2. CASE setup.stale > 0 /\ s < setup.stale
    <3>1. s - setup.stale \notin 0 .. s - 1
      BY <2>2
    <3> QED BY <2>2, <3>1, BlocksAlternate DEF UsesStale
  <2>3. CASE ~(setup.stale > 0)
    BY <2>3 DEF UsesStale, StaleSlot
  <2> QED BY <2>1, <2>2, <2>3
<1>2. 0 .. s = (0 .. s - 1) \cup {s}
  OBVIOUS
<1>3. CASE StaleSlot(s)
  <2>1. p = cache[s - setup.stale] /\ s - setup.stale \in DOMAIN cache
    BY <1>1, <1>3 DEF Predicted, UsesStale
  <2>2. Entered(s, cache, p) = cache
    BY <1>1, <1>3 DEF Entered
  <2> QED BY <1>2, <1>3, <2>1, <2>2 DEF Made
<1>4. CASE ~StaleSlot(s)
  <2>1. p.made = s
    BY <1>1, <1>4, FreshMade DEF Predicted
  <2>2. Entered(s, cache, p)
          = [i \in DOMAIN cache \cup {s} |-> IF i = s THEN p ELSE cache[i]]
    BY <1>1, <1>4 DEF Entered
  <2> QED BY <1>2, <1>4, <2>1, <2>2 DEF Made
<1> QED BY <1>3, <1>4

\* reset() and step() keep the caches in step with the slots.
LEMMA StaleCachesKept ==
  ASSUME IInv, StaleCaches, [Next]_vars
  PROVE  StaleCaches'
<1>1. /\ setup \in Setup /\ episode \in Nat /\ t \in Nat /\ t <= EpisodeLen
      /\ EpisodeLen \in Nat \ {0}
  BY SetupsAssumption, SizeAssumption DEF IInv, TypeOK, Slots
<1>2. setup.stale \in Nat
  BY <1>1 DEF Setup
<1>3. setup' = setup
  BY CacheActions DEF CacheReset, CacheStep
<1>4. \A s : (StaleSlot(s)' <=> StaleSlot(s)) /\ Made(s)' = Made(s)
  BY <1>3 DEF StaleSlot, Made
<1>5. \A s, p : Layered(s, p).made = p.made
  BY DEF Layered
<1>6. ASSUME NEW s \in Nat, s \notin DOMAIN masks, DOMAIN masks = 0 .. s - 1,
             NEW cache, DOMAIN cache = {i \in 0 .. s - 1 : ~StaleSlot(i)},
             \A i \in DOMAIN cache : cache[i].made = i,
             NEW q, NEW geo, NEW ground, Observe(s, cache, q, geo, ground),
             episode' = 1, t' = s
      PROVE  StaleCaches'
  <2>1. PICK p \in Predicted(s, cache, q, geo, ground) :
          /\ DOMAIN masks' = DOMAIN masks \cup {s}
          /\ \A i \in DOMAIN masks : masks'[i] = masks[i]
          /\ masks'[s] = Layered(s, p)
          /\ predictions' = Entered(s, cache, p)
    BY <1>6, ObserveNew
  <2>2. /\ p.made = Made(s)
        /\ DOMAIN predictions' = {i \in 0 .. s : ~StaleSlot(i)}
        /\ \A i \in DOMAIN predictions' : predictions'[i].made = i
    <3>1. /\ p.made = Made(s)
          /\ DOMAIN Entered(s, cache, p) = {i \in 0 .. s : ~StaleSlot(i)}
          /\ \A i \in DOMAIN Entered(s, cache, p) : Entered(s, cache, p)[i].made = i
      BY Zenon, <1>2, <1>6, <2>1, FirstEpisode
    <3> QED BY <2>1, <3>1
  <2>3. DOMAIN masks' = 0 .. t'
    BY <1>6, <2>1
  <2>4. \A i \in DOMAIN masks' : masks'[i].made = Made(i)
    BY <1>5, <2>1, <2>2 DEF StaleCaches
  <2> QED BY <1>4, <1>6, <2>2, <2>3, <2>4 DEF StaleCaches
<1>7. ASSUME NEW s \in DOMAIN masks, NEW cache, NEW q, NEW geo, NEW ground,
             Observe(s, cache, q, geo, ground), DOMAIN masks = Slots,
             episode' # 0, episode' # 1
      PROVE  StaleCaches'
  <2>1. DOMAIN masks' = DOMAIN masks /\ \A i \in DOMAIN masks : masks'[i] = masks[i]
    BY <1>7, ObserveOld
  <2> QED BY <1>4, <1>7, <2>1 DEF StaleCaches
<1>8. CASE CacheReset
  <2>1. PICK q, geo, ground : Observe(0, NoCache, q, geo, ground)
    BY <1>8 DEF CacheReset
  <2>2. CASE episode = 0
    <3>1. episode' = 1 /\ t' = 0 /\ DOMAIN masks = {}
      BY <1>8, <2>2 DEF CacheReset, StaleCaches
    <3>2. 0 .. 0 - 1 = {} /\ DOMAIN NoCache = {} /\ 0 \in Nat
      BY DEF NoCache
    <3> HIDE DEF NoCache
    <3>3. /\ DOMAIN masks = 0 .. 0 - 1
          /\ DOMAIN NoCache = {i \in 0 .. 0 - 1 : ~StaleSlot(i)}
          /\ \A i \in DOMAIN NoCache : NoCache[i].made = i
      BY <3>1, <3>2
    <3> QED BY <1>6, <2>1, <3>1, <3>2, <3>3
  <2>3. CASE episode # 0
    <3>1. episode' # 0 /\ episode' # 1 /\ DOMAIN masks = Slots /\ 0 \in Slots
      BY <1>1, <1>8, <2>3 DEF CacheReset, StaleCaches, Slots
    <3> QED BY <1>7, <2>1, <3>1
  <2> QED BY <2>2, <2>3
<1>9. CASE CacheStep
  <2>1. PICK q, geo, ground : Observe(t + 1, predictions, q, geo, ground)
    BY <1>9 DEF CacheStep
  <2>2. /\ episode > 0 /\ t < EpisodeLen /\ episode' = episode /\ t' = t + 1
        /\ t + 1 \in Nat /\ 0 .. (t + 1) - 1 = 0 .. t /\ t + 1 \notin 0 .. t
    BY <1>1, <1>9 DEF CacheStep
  <2>3. CASE episode = 1
    <3>1. /\ DOMAIN masks = 0 .. t
          /\ DOMAIN predictions = {i \in 0 .. t : ~StaleSlot(i)}
          /\ \A i \in DOMAIN predictions : predictions[i].made = i
      BY <2>3 DEF StaleCaches
    <3> QED BY <1>6, <2>1, <2>2, <2>3, <3>1
  <2>4. CASE episode # 1
    <3>1. episode' # 0 /\ episode' # 1 /\ DOMAIN masks = Slots /\ t + 1 \in Slots
      BY <1>1, <2>2, <2>4 DEF StaleCaches, Slots
    <3> QED BY <1>7, <2>1, <3>1
  <2> QED BY <2>3, <2>4
<1>10. CASE UNCHANGED <<setup, episode, t, predictions, masks>>
  BY <1>4, <1>10 DEF StaleCaches
<1> QED BY <1>8, <1>9, <1>10, CacheActions

\* With staleness k every second block of k slots sees predictions k slots old
\* and the others fresh ones, for every k, episode length and noise.
THEOREM StalenessIsBlockwise == Spec => []StalenessAlternates
<1>1. Init => StaleCaches
  BY DEF Init, StaleCaches, NoMasks
<1>2. IInv /\ StaleCaches /\ [Next]_vars => StaleCaches'
  BY StaleCachesKept
<1>3. StaleCaches => StalenessAlternates
  BY DEF StaleCaches, StalenessAlternates, Made, StaleSlot
<1> QED BY <1>1, <1>2, <1>3, Invariance, PTL DEF Spec

=============================================================================
