---------------------- MODULE InterventionDecision_proofs ----------------------
(***************************************************************************)
(* What a control epoch decides, for any entities, monitors, settings and  *)
(* planners. Every property is inductive beside TypeOK; the work is in the *)
(* lemmas about the report (signs of the margins) and about the maximum    *)
(* (comparisons with NaN, a product of two unknowns).                      *)
(***************************************************************************)
EXTENDS InterventionDecision, TLAPS, FiniteSetTheorems, WellFoundedInduction,
        NumberLemmas

\* What a monitor's fields are.
LEMMA MonitorFields ==
  ASSUME NEW m \in Monitors
  PROVE  /\ m \in Monitor /\ m.work \in Nat /\ m.ready \in Nat \cup {None}
         /\ m.certified \in Nat \cup {None} /\ m.observed \in Nat \cup {None}
         /\ m.horizon \in Nat \cup {None} /\ m.remote \in BOOLEAN
         /\ m.contact \in Int \cup {None} /\ m.lifetime \in Nat \cup {None}
         /\ m.deadline \in Int \cup {None} /\ m.uncertainty \in Nat \cup {None}
         /\ m.risk \in Nat /\ m.other \in Nat /\ m.cheap \in BOOLEAN
         /\ m.names \in SUBSET Entities
<1>1. m \in Monitor  BY RecordAssumption
<1> QED  BY <1>1 DEF Monitor, Optional

LEMMA SettingFields ==
  ASSUME cfg \in Settings
  PROVE  /\ cfg.tolerance \in Nat /\ cfg.reserve \in Nat /\ cfg.threshold \in Nat
         /\ cfg.soft \in BOOLEAN /\ cfg.predictable \in BOOLEAN /\ cfg.strict \in BOOLEAN
         /\ cfg.max_entities \in Nat /\ cfg.beta \in Nat /\ cfg.signal_price \in Nat
         /\ cfg.include_cost \in BOOLEAN /\ cfg.period \in Nat \ {0}
  BY RecordAssumption DEF Setting

LEMMA PlannerFields ==
  ASSUME NEW i \in DOMAIN Planners
  PROVE  /\ Planners[i].benefit \in Nat /\ Planners[i].uncertainty \in Nat
         /\ Planners[i].delay \in Nat /\ Planners[i].cost \in Nat
<1>1. Planners[i] \in Planner  BY RecordAssumption
<1> QED  BY <1>1 DEF Planner

\* A factor that is a natural number preserves the order.
LEMMA Product ==
  ASSUME NEW a \in Nat, NEW b \in Nat, NEW c \in Nat, b <= c
  PROVE  a * b \in Nat /\ a * c \in Nat /\ a * b <= a * c
  BY Z3

-----------------------------------------------------------------------------
\* The report.

\* The slack of the service is that of the certified rate over the shorter of the
\* horizon and, for remote work, the contact.
LEMMA ServiceBound ==
  ASSUME cfg \in Settings, NEW m \in Monitors, ServiceKnown(m)
  PROVE  /\ m.certified \in Nat /\ m.horizon \in Nat /\ ServiceSpan(m) \in Nat
         /\ ServiceSpan(m) <= m.horizon
         /\ m.certified * ServiceSpan(m) \in Nat
         /\ m.certified * ServiceSpan(m) <= m.certified * m.horizon
         /\ ServiceSlack(m) = m.certified * ServiceSpan(m) - ServiceWork(m) - cfg.reserve
         /\ ServiceWork(m) \in Nat
<1>1. m.certified \in Nat /\ m.horizon \in Nat
  BY MonitorFields DEF ServiceKnown
<1>2. ServiceSpan(m) \in Nat /\ ServiceSpan(m) <= m.horizon
  BY <1>1, MonitorFields, NumberAssumption DEF ServiceSpan, Least
<1>3. /\ m.certified * ServiceSpan(m) \in Nat
      /\ m.certified * ServiceSpan(m) <= m.certified * m.horizon
  BY <1>1, <1>2, Product
<1>4. ServiceWork(m) \in Nat
  BY MonitorFields DEF ServiceWork
<1> QED  BY <1>1, <1>2, <1>3, <1>4 DEF ServiceSlack

LEMMA ReportParts ==
  ASSUME cfg \in Settings, NEW m \in Monitors
  PROVE  /\ ServiceSlack(m) \in Int /\ ContactSlack(m) \in Int /\ DeadlineSlack(m) \in Int
         /\ Penalty(m) \in Nat
<1>1. ServiceSlack(m) \in Int
  <2>1. CASE ServiceKnown(m)
    <3>1. m.certified * ServiceSpan(m) \in Nat
          /\ ServiceSlack(m) = m.certified * ServiceSpan(m) - ServiceWork(m) - cfg.reserve
          /\ ServiceWork(m) \in Nat
      BY <2>1, ServiceBound
    <3> DEFINE product == m.certified * ServiceSpan(m)
    <3>2. product \in Nat /\ ServiceSlack(m) = product - ServiceWork(m) - cfg.reserve
      BY <3>1
    <3> HIDE DEF product
    <3> QED  BY <3>1, <3>2, SettingFields
  <2>2. CASE ~ServiceKnown(m)
    BY <2>2 DEF ServiceSlack
  <2> QED  BY <2>1, <2>2
<1>2. ContactSlack(m) \in Int /\ DeadlineSlack(m) \in Int
  BY MonitorFields DEF ContactSlack, DeadlineSlack
<1>3. Penalty(m) \in Nat
  BY MonitorFields, SettingFields DEF Penalty, UncertaintyKnown, Most
<1> QED  BY <1>1, <1>2, <1>3

\* The least margin is negative exactly when one that applies is.
LEMMA MarginSign ==
  ASSUME cfg \in Settings, NEW m \in Monitors
  PROVE  /\ Margin(m) \in Int
         /\ Margin(m) < 0 <=>
              \/ ServiceApplies(m) /\ ServiceSlack(m) < Penalty(m)
              \/ ContactApplies(m) /\ ContactSlack(m) < Penalty(m)
              \/ DeadlineApplies(m) /\ DeadlineSlack(m) < Penalty(m)
<1> DEFINE a == IF ServiceApplies(m) THEN ServiceSlack(m) - Penalty(m) ELSE 0
           b == IF ContactApplies(m) THEN ContactSlack(m) - Penalty(m) ELSE 0
           c == IF DeadlineApplies(m) THEN DeadlineSlack(m) - Penalty(m) ELSE 0
<1>1. /\ a \in Int /\ (a < 0 <=> ServiceApplies(m) /\ ServiceSlack(m) < Penalty(m))
      /\ b \in Int /\ (b < 0 <=> ContactApplies(m) /\ ContactSlack(m) < Penalty(m))
      /\ c \in Int /\ (c < 0 <=> DeadlineApplies(m) /\ DeadlineSlack(m) < Penalty(m))
  BY ReportParts
<1>2. Margin(m) = Least(a, Least(b, c))  BY DEF Margin
<1> HIDE DEF a, b, c
<1>3. Margin(m) \in Int /\ (Margin(m) < 0 <=> a < 0 \/ b < 0 \/ c < 0)
  BY <1>1, <1>2 DEF Least
<1> QED  BY <1>1, <1>3

Report == [status: {"VIABLE", "UNCERTAIN", "INVIABLE"}, missing: SUBSET Evidence,
           certificate: BOOLEAN, margin: Int, risk: Nat, affected: SUBSET Entities,
           needs: BOOLEAN]

\* What on_monitor_epoch keeps of an observation.
LEMMA TakenReport ==
  ASSUME TypeOK, NEW m \in Monitors, Take(m)
  PROVE  /\ report' \in Report
         /\ report' = [Observed(m) EXCEPT !.needs = @ \/ Forced(m)]
         /\ report'.affected \subseteq m.names \cup covers
<1> USE MonitorFields, NumberAssumption
<1>1. Evaluated(m) \in Report
  <2>1. Margin(m) \in Int  BY MarginSign DEF TypeOK
  <2>2. Missing(m) \in SUBSET Evidence  BY DEF Missing
  <2>3. Status(m) \in {"VIABLE", "UNCERTAIN", "INVIABLE"}  BY DEF Status
  <2>4. Affected(m) \in SUBSET Entities  BY DEF Affected, TypeOK
  <2>5. (Status(m) # "VIABLE" \/ Risky(m)) \in BOOLEAN  OBVIOUS
  <2> QED  BY <2>1, <2>2, <2>3, <2>4, <2>5 DEF Evaluated, Report
<1>2. Bypassed \in Report  BY DEF Bypassed, Report, TypeOK
<1>3. Observed(m) \in Report  BY <1>1, <1>2 DEF Observed
<1>4. report' = [Observed(m) EXCEPT !.needs = @ \/ Forced(m)]  BY DEF Take
<1>5. (Observed(m).needs \/ Forced(m)) \in BOOLEAN  OBVIOUS
<1>6. report' \in Report  BY <1>3, <1>4, <1>5 DEF Report
<1>7. Observed(m).affected \subseteq m.names \cup covers
  BY DEF Observed, Bypassed, Evaluated, Affected
<1>8. report'.affected = Observed(m).affected  BY <1>3, <1>4 DEF Report
<1> QED  BY <1>4, <1>6, <1>7, <1>8

-----------------------------------------------------------------------------
\* What an epoch's outcome is: raised, kept, or an intervention under way.
Kept(m) == KeepSilently(m) \/ Hold(m) \/ Decline(m)

LEMMA EpochEffect ==
  ASSUME NEW m \in Monitors, Kept(m)
  PROVE  /\ Take(m) /\ UNCHANGED <<fixed, current, active, pc, choice>>
         /\ decision' \in {"kept", "empty_scope_hold_under_uncertainty", "no_candidate",
                           "voc_non_positive"}
         /\ decision' = "kept" => KeepSilently(m)
  BY DEF Kept, KeepSilently, Hold, Decline, Deciding, Keep

LEMMA TypeInit == Init => TypeOK
<1> SUFFICES ASSUME Init PROVE TypeOK  OBVIOUS
<1>1. active \in Optional(0..current)
  BY DEF Init, Optional
<1> QED  BY <1>1 DEF Init, TypeOK, Optional

LEMMA TypeStep == TypeOK /\ [Next]_vars => TypeOK'
<1> SUFFICES ASSUME TypeOK, [Next]_vars PROVE TypeOK'  OBVIOUS
<1> USE DEF TypeOK
<1>1. ASSUME NEW m \in Monitors, Raise(m), pc = "idle" PROVE TypeOK'
  BY <1>1 DEF Raise, fixed
<1>2. ASSUME NEW m \in Monitors, Kept(m), pc = "idle" PROVE TypeOK'
  <2>1. report' \in Report  BY <1>2, EpochEffect, TakenReport
  <2>2. monitor' = m /\ epoch' = epoch + 1  BY <1>2, EpochEffect DEF Take
  <2> QED  BY <1>2, <2>1, <2>2, EpochEffect DEF Report, Optional, fixed
<1>3. ASSUME NEW m \in Monitors, Select(m), pc = "idle" PROVE TypeOK'
  <2>1. report' \in Report  BY <1>3, TakenReport DEF Select, Deciding
  <2>2. monitor' = m /\ epoch' = epoch + 1 /\ pc' = "planned"
        /\ decision' = "best_positive_voc"
        /\ UNCHANGED <<fixed, current, active>>
    BY <1>3 DEF Select, Deciding, Take
  <2>3. choice' \in [planner: DOMAIN Planners, wide: BOOLEAN]
    BY <1>3 DEF Select, Candidates
  <2>4. choice' # None
    <3>1. None \notin [planner: DOMAIN Planners, wide: BOOLEAN]
      <4>1. DOMAIN Planners \subseteq Nat  BY RecordAssumption
      <4> QED  BY <4>1, NumberAssumption
    <3> QED  BY <2>3, <3>1
  <2> QED  BY <2>1, <2>2, <2>3, <2>4 DEF Report, Optional, fixed
<1>4. CASE Accept
  <2>1. current' \in Nat /\ active' \in 0..current'  BY <1>4 DEF Accept
  <2> QED  BY <1>4, <2>1 DEF Accept, fixed, Optional
<1>5. CASE Refuse
  BY <1>5 DEF Refuse, fixed, Optional
<1>6. CASE Reset
  BY <1>6 DEF Reset, fixed, Optional
<1>7. CASE UNCHANGED vars
  BY <1>7 DEF vars
<1> QED  BY <1>1, <1>2, <1>3, <1>4, <1>5, <1>6, <1>7 DEF Next, MonitorEpoch, Kept

\* The types of the decision's state, of the report and of the versions
\* (controller.py:205-262, 264-354, 430-563).
THEOREM TypeCorrect == Spec => []TypeOK
  BY TypeInit, TypeStep, PTL DEF Spec

-----------------------------------------------------------------------------
\* A silent KEEP.

LEMMA ViableIsCertified ==
  ASSUME cfg \in Settings, NEW m \in Monitors, Status(m) = "VIABLE"
  PROVE  Consistent /\ Certified(m)
<1> USE MonitorFields, SettingFields, NumberAssumption
<1>1. Missing(m) = {} /\ ~(Margin(m) < 0)
  BY DEF Status
<1>2. /\ ServiceApplies(m) => ServiceKnown(m) /\ m.certified # None /\ m.horizon # None
      /\ ContactApplies(m) => m.contact # None
      /\ DeadlineApplies(m) => m.deadline # None
      /\ UncertaintyApplies(m) => m.uncertainty # None
      /\ m.cheap /\ Consistent
  BY <1>1 DEF Missing, Evidence, ServiceKnown
<1>3. /\ ServiceApplies(m) => ServiceSlack(m) >= Penalty(m)
      /\ ContactApplies(m) => ContactSlack(m) >= Penalty(m)
      /\ DeadlineApplies(m) => DeadlineSlack(m) >= Penalty(m)
  BY <1>1, MarginSign, ReportParts
<1> DEFINE excess == IF UncertaintyApplies(m)
                     THEN Most(0, m.uncertainty - cfg.tolerance) ELSE 0
<1>4. excess = Penalty(m)
  BY <1>2 DEF Penalty, UncertaintyKnown
<1>5. DeadlineApplies(m) => m.deadline # None /\ m.deadline >= excess
  BY <1>2, <1>3, <1>4 DEF DeadlineSlack
<1>6. ContactApplies(m) => m.contact # None /\ m.contact >= excess
  BY <1>2, <1>3, <1>4 DEF ContactSlack
<1>7. ASSUME ServiceApplies(m) PROVE m.certified * m.horizon >= ServiceWork(m) + excess
  <2> DEFINE cumulative == m.certified * ServiceSpan(m)
             most == m.certified * m.horizon
  <2>1. /\ cumulative \in Nat /\ cumulative <= most /\ ServiceWork(m) \in Nat
        /\ ServiceSlack(m) = cumulative - ServiceWork(m) - cfg.reserve
    BY <1>2, <1>7, ServiceBound
  <2>2. most \in Nat
    BY <1>2, <1>7, ServiceBound, Product
  <2>3. ServiceSlack(m) >= Penalty(m) /\ excess = Penalty(m) /\ Penalty(m) \in Nat
    BY <1>3, <1>4, <1>7, ReportParts
  <2> HIDE DEF cumulative, most, excess
  <2>4. most >= ServiceWork(m) + excess
    BY <2>1, <2>2, <2>3
  <2> QED  BY <2>4 DEF most
<1> HIDE DEF excess
<1>8. excess = IF UncertaintyApplies(m) THEN Most(0, m.uncertainty - cfg.tolerance) ELSE 0
  BY DEF excess
<1> QED  BY <1>2, <1>5, <1>6, <1>7, <1>8 DEF Certified

LEMMA SilentKeep ==
  ASSUME TypeOK, NEW m \in Monitors, KeepSilently(m), cfg.mode # "legacy_slotwise"
  PROVE  Status(m) = "VIABLE" /\ ~Risky(m)
<1>1. Take(m) /\ ~report'.needs  BY DEF KeepSilently
<1>2. report'.needs = (Observed(m).needs \/ Forced(m))
  BY <1>1, TakenReport DEF Observed, Bypassed, Evaluated
<1>3. ~Observed(m).needs  BY <1>1, <1>2
<1>4. Observed(m) = Evaluated(m)  BY <1>3 DEF Observed, Bypassed
<1>5. Evaluated(m).needs = (Status(m) # "VIABLE" \/ Risky(m))  BY DEF Evaluated
<1> QED  BY <1>3, <1>4, <1>5

LEMMA KeepStep ==
  ASSUME TypeOK, [Next]_vars, epoch' # epoch, decision' = "kept",
         cfg.mode # "legacy_slotwise"
  PROVE  /\ Consistent /\ Certified(monitor')
         /\ cfg.soft => monitor'.risk <= cfg.threshold
<1>1. ASSUME NEW m \in Monitors, Kept(m)
      PROVE  /\ Consistent /\ Certified(monitor')
             /\ cfg.soft => monitor'.risk <= cfg.threshold
  <2>1. KeepSilently(m) /\ monitor' = m
    BY <1>1, EpochEffect DEF Take
  <2>2. Status(m) = "VIABLE" /\ ~Risky(m)  BY <2>1, SilentKeep
  <2>3. Consistent /\ Certified(m)  BY <2>2, ViableIsCertified DEF TypeOK
  <2>4. cfg.soft => m.risk <= cfg.threshold
    BY <2>2, MonitorFields, SettingFields DEF Risky, TypeOK
  <2> QED  BY <2>1, <2>3, <2>4
<1>2. ASSUME NEW m \in Monitors PROVE ~Raise(m) /\ ~Select(m)
  BY DEF Raise, Select
<1>3. Accept \/ Refuse \/ Reset \/ UNCHANGED vars => epoch' = epoch
  BY DEF Accept, Refuse, Reset, vars
<1> QED  BY <1>1, <1>2, <1>3 DEF Next, MonitorEpoch, Kept

\* In the endogenous mode an epoch keeps the configuration without a word only while
\* the backend runs it, on all the evidence that applies, with slack in every
\* constraint and a tolerable risk (viability.py:240-575, controller.py:252).
THEOREM KeepJustified == Spec => KeepIsJustified
<1>1. TypeOK /\ [Next]_vars =>
        [epoch' # epoch /\ decision' = "kept" /\ cfg.mode # "legacy_slotwise" =>
           /\ Consistent /\ Certified(monitor')
           /\ cfg.soft => monitor'.risk <= cfg.threshold]_vars
  BY KeepStep
<1> QED  BY <1>1, TypeCorrect, PTL DEF Spec, KeepIsJustified

-----------------------------------------------------------------------------
\* An inviable configuration.

LEMMA InviableIsBelow ==
  ASSUME cfg \in Settings, NEW m \in Monitors, Status(m) = "INVIABLE"
  PROVE  Measured(m)
<1> USE MonitorFields, SettingFields, NumberAssumption
<1>1. Margin(m) < 0
  BY DEF Status
<1>2. CASE UncertaintyKnown(m) /\ m.uncertainty > cfg.tolerance
  BY <1>2 DEF Measured
<1>3. CASE ~(UncertaintyKnown(m) /\ m.uncertainty > cfg.tolerance)
  <2>1. Penalty(m) = 0
    BY <1>3 DEF Penalty, UncertaintyKnown, Most
  <2>2. CASE ServiceApplies(m) /\ ServiceSlack(m) < 0
    <3> DEFINE span == m.certified * ServiceSpan(m)
    <3>1. ServiceKnown(m)  BY <2>2 DEF ServiceSlack
    <3>2. /\ span \in Nat /\ ServiceSlack(m) = span - ServiceWork(m) - cfg.reserve
          /\ ServiceWork(m) \in Nat
      BY <3>1, ServiceBound
    <3> HIDE DEF span
    <3>3. span < ServiceWork(m) + cfg.reserve  BY <2>2, <3>2
    <3>4. CASE ServiceSpan(m) = m.horizon
      BY <3>1, <3>3, <3>4 DEF span, Measured
    <3>5. CASE ServiceSpan(m) = m.lifetime /\ m.lifetime # None
      BY <3>1, <3>3, <3>5 DEF span, Measured
    <3> QED  BY <3>4, <3>5 DEF ServiceSpan, Least
  <2>3. CASE ContactApplies(m) /\ ContactSlack(m) < 0
    BY <2>3 DEF ContactSlack, Measured
  <2>4. CASE DeadlineApplies(m) /\ DeadlineSlack(m) < 0
    BY <2>4 DEF DeadlineSlack, Measured
  <2> QED  BY <1>1, <2>1, <2>2, <2>3, <2>4, MarginSign
<1> QED  BY <1>2, <1>3

\* An epoch that keeps its report is a Take; every other step leaves it alone.
LEMMA ReportChange ==
  ASSUME [Next]_vars
  PROVE  /\ cfg' = cfg /\ covers' = covers
         /\ \/ UNCHANGED <<monitor, report>>
            \/ \E m \in Monitors : Take(m)
<1>1. ASSUME NEW m \in Monitors, Kept(m) \/ Select(m)
      PROVE  Take(m) /\ cfg' = cfg /\ covers' = covers
  BY <1>1, EpochEffect DEF Select, Deciding, fixed
<1>2. ASSUME NEW m \in Monitors, Raise(m)
      PROVE  UNCHANGED <<cfg, covers, monitor, report>>
  BY <1>2 DEF Raise, fixed
<1>3. Accept \/ Refuse \/ Reset \/ UNCHANGED vars
        => UNCHANGED <<cfg, covers, monitor, report>>
  BY DEF Accept, Refuse, Reset, vars, fixed
<1> QED  BY <1>1, <1>2, <1>3 DEF Next, MonitorEpoch, Kept

LEMMA InviableStep == TypeOK /\ InviableIsMeasured /\ [Next]_vars => InviableIsMeasured'
<1> SUFFICES ASSUME TypeOK, InviableIsMeasured, [Next]_vars,
                    report' # None, report'.status = "INVIABLE"
             PROVE  Measured(monitor)'
  BY DEF InviableIsMeasured
<1>1. cfg' = cfg  BY ReportChange
<1>2. CASE UNCHANGED <<monitor, report>>
  BY <1>1, <1>2 DEF InviableIsMeasured, Measured
<1>3. ASSUME NEW m \in Monitors, Take(m) PROVE Measured(monitor)'
  <2>1. report'.status = Observed(m).status
    BY <1>3, TakenReport DEF Observed, Bypassed, Evaluated
  <2>2. Status(m) = "INVIABLE"
    BY <2>1 DEF Observed, Bypassed, Evaluated
  <2>3. Measured(m)  BY <2>2, InviableIsBelow DEF TypeOK
  <2>4. monitor' = m  BY <1>3 DEF Take
  <2> QED  BY <1>1, <2>3, <2>4 DEF Measured
<1> QED  BY <1>2, <1>3, ReportChange

\* Within the tolerated uncertainty, INVIABLE stands for a slack that was measured
\* below zero, never for evidence that is missing (viability.py:352-391).
THEOREM InviableWasMeasured == Spec => []InviableIsMeasured
<1>1. Init => InviableIsMeasured  BY DEF Init, InviableIsMeasured
<1> QED  BY <1>1, TypeCorrect, InviableStep, PTL DEF Spec

-----------------------------------------------------------------------------
\* Truncation: ranks number the elements that are kept from 1.

Upto(S, e) == {f \in S : f <= e}
Rank(S, e) == Cardinality(Upto(S, e))

LEMMA Ranked ==
  ASSUME NEW S \in SUBSET Entities
  PROVE  /\ S \subseteq Nat /\ IsFiniteSet(S)
         /\ \A e \in S : /\ Upto(S, e) \in SUBSET S /\ IsFiniteSet(Upto(S, e))
                         /\ e \in Upto(S, e) /\ Rank(S, e) \in Nat
         /\ \A d, e \in S : d < e => /\ e \notin Upto(S, d)
                                     /\ Upto(S, d) \subseteq Upto(S, e)
         /\ cfg \in Settings =>
              Truncated(S) = {e \in S : Rank(S, e) <= cfg.max_entities}
<1>1. S \subseteq Nat /\ IsFiniteSet(S)  BY NumberAssumption, FS_Subset
<1>2. \A e \in S : Upto(S, e) \in SUBSET S /\ e \in Upto(S, e)
  BY <1>1 DEF Upto
<1>3. \A e \in S : IsFiniteSet(Upto(S, e)) /\ Rank(S, e) \in Nat
  BY <1>1, <1>2, FS_Subset, FS_CardinalityType DEF Rank
<1>4. ASSUME NEW d \in S, NEW e \in S, d < e
      PROVE  e \notin Upto(S, d) /\ \A f \in Upto(S, d) : f \in Upto(S, e)
  BY <1>1, <1>4 DEF Upto
<1>5. Truncated(S) = {e \in S : Rank(S, e) <= cfg.max_entities}
  BY DEF Truncated, Rank, Upto
<1> QED  BY <1>1, <1>2, <1>3, <1>4, <1>5

LEMMA RankOrder ==
  ASSUME NEW S \in SUBSET Entities, NEW e \in S
  PROVE  /\ Rank(S, e) \in Nat /\ Rank(S, e) >= 1
         /\ \A d \in S : d < e => Rank(S, d) < Rank(S, e)
<1>1. Rank(S, e) >= 1
  BY Ranked, FS_EmptySet DEF Rank
<1>2. ASSUME NEW d \in S, d < e PROVE Rank(S, d) < Rank(S, e)
  <2>1. /\ IsFiniteSet(Upto(S, e) \ {e})
        /\ Cardinality(Upto(S, e) \ {e}) = Rank(S, e) - 1
    BY Ranked, FS_RemoveElement DEF Rank
  <2>2. Upto(S, d) \in SUBSET (Upto(S, e) \ {e})
    BY <1>2, Ranked
  <2>3. Rank(S, d) <= Cardinality(Upto(S, e) \ {e})
    BY <2>1, <2>2, FS_Subset DEF Rank
  <2> QED  BY <2>1, <2>3, Ranked
<1> QED  BY <1>1, <1>2, Ranked

LEMMA TruncatedBound ==
  ASSUME cfg \in Settings, NEW S \in SUBSET Entities
  PROVE  /\ Truncated(S) \subseteq S /\ IsFiniteSet(Truncated(S))
         /\ Cardinality(Truncated(S)) \in Nat
         /\ Cardinality(Truncated(S)) <= cfg.max_entities
<1> DEFINE T == Truncated(S)
           n == cfg.max_entities
           rank == [e \in T |-> Rank(S, e)]
<1>1. T = {e \in S : Rank(S, e) <= n} /\ n \in Nat
  BY Ranked, SettingFields
<1> HIDE DEF T, n
<1>2. T \subseteq S /\ IsFiniteSet(T)  BY <1>1, Ranked, FS_Subset
<1>3. ASSUME NEW e \in T PROVE rank[e] \in 1..n
  BY <1>1, RankOrder
<1>4. ASSUME NEW d \in T, NEW e \in T, rank[d] = rank[e] PROVE d = e
  <2>1. d \in Nat /\ e \in Nat /\ d \in S /\ e \in S  BY <1>2, Ranked
  <2>2. Rank(S, d) = Rank(S, e) /\ Rank(S, e) \in Nat  BY <1>4, <2>1, RankOrder
  <2>3. ~(d < e) /\ ~(e < d)  BY <2>1, <2>2, RankOrder
  <2> QED  BY <2>1, <2>3
<1>5. rank \in Injection(T, 1..n)
  BY <1>3, <1>4 DEF Injection, IsInjective
<1>6. IsFiniteSet(1..n) /\ Cardinality(1..n) = IF 1 > n THEN 0 ELSE n - 1 + 1
  BY <1>1, FS_Interval
<1>7. Cardinality(T) <= Cardinality(1..n)
  BY <1>5, <1>6, FS_Injection
<1>8. Cardinality(T) \in Nat
  BY <1>2, FS_CardinalityType
<1>9. Cardinality(T) <= n
  BY <1>1, <1>6, <1>7, <1>8
<1> QED  BY <1>2, <1>8, <1>9 DEF T, n

\* What is not empty has a least element, which is kept if anything is.
LEMMA TruncatedNonEmpty ==
  ASSUME cfg \in Settings, NEW S \in SUBSET Entities, S # {}, cfg.max_entities # 0
  PROVE  Truncated(S) # {}
<1> DEFINE All == {Upto(S, e) : e \in S}
<1>1. All \subseteq FiniteSubsetsOf(S) /\ All # {}
  BY Ranked DEF FiniteSubsetsOf
<1>2. PICK A \in All : \A B \in All : ~(<<B, A>> \in StrictSubsetOrdering(S))
  <2> HIDE DEF All
  <2> QED  BY <1>1, FS_StrictSubsetOrderingWellFounded, WFMin
<1>3. PICK e \in S : A = Upto(S, e)  BY <1>2
<1>4. ASSUME NEW d \in S, d < e PROVE FALSE
  <2>1. ~(<<Upto(S, d), A>> \in StrictSubsetOrdering(S))  BY <1>2
  <2>2. /\ Upto(S, d) \in SUBSET S /\ A \in SUBSET S
        /\ Upto(S, d) \subseteq A /\ Upto(S, d) # A
    BY <1>3, <1>4, Ranked
  <2> QED  BY <2>1, <2>2 DEF StrictSubsetOrdering
<1>5. Upto(S, e) = {e}  
  <2>1. \A f \in S : f <= e => f = e  BY <1>4, Ranked
  <2> QED  BY <2>1, Ranked DEF Upto
<1>6. Rank(S, e) = 1  BY <1>5, FS_Singleton DEF Rank
<1> QED  BY <1>6, Ranked, SettingFields

-----------------------------------------------------------------------------
\* The choice. Everything that values a candidate is fixed but the configuration
\* of the run and what is covered, and those never change.

LEMMA Fixed ==
  ASSUME cfg' = cfg, covers' = covers
  PROVE  /\ \A c, r : ScopeOf(c, r)' = ScopeOf(c, r)
         /\ \A r : Candidates(r)' = Candidates(r)
         /\ \A c, r : Cost(c, r)' = Cost(c, r)
         /\ \A c, m, r : Worth(c, m, r)' = Worth(c, m, r)
<1>1. \A S : Truncated(S)' = Truncated(S)  BY DEF Truncated
<1>2. \A c, r : ScopeOf(c, r)' = ScopeOf(c, r)  BY <1>1 DEF ScopeOf
<1>3. \A r : Candidates(r)' = Candidates(r)  BY <1>2 DEF Candidates
<1>4. \A c, r : Cost(c, r)' = Cost(c, r)  BY <1>2 DEF Cost
<1>5. \A c, m, r : Worth(c, m, r)' = Worth(c, m, r)  BY <1>4 DEF Worth
<1> QED  BY <1>2, <1>3, <1>4, <1>5

LEMMA FixedClaims ==
  ASSUME cfg' = cfg, covers' = covers
  PROVE  /\ \A c, m, r : PaysBest(c, m, r)' <=> PaysBest(c, m, r)
         /\ \A c, m, r : Implicated(c, m, r)' <=> Implicated(c, m, r)
  BY Fixed DEF PaysBest, Implicated

\* An intervention under way was selected by this step or was under way before it.
LEMMA ChoiceChange ==
  ASSUME TypeOK, [Next]_vars, pc' = "planned"
  PROVE  \/ pc = "planned" /\ UNCHANGED <<monitor, report, choice>>
         \/ /\ monitor' \in Monitors /\ Take(monitor')
            /\ IsMaximum(choice', monitor', report')
            /\ ~NonPositive(Worth(choice', monitor', report'))
<1>1. ASSUME NEW m \in Monitors, pc = "idle" PROVE ~Kept(m) /\ ~Raise(m)
  BY <1>1, EpochEffect DEF Raise
<1>2. ASSUME NEW m \in Monitors, Select(m)
      PROVE  /\ monitor' = m /\ Take(m)
             /\ IsMaximum(choice', m, report') /\ ~NonPositive(Worth(choice', m, report'))
  BY <1>2 DEF Select, Deciding, Take
<1>3. ~Accept /\ ~Refuse  BY DEF Accept, Refuse
<1>4. Reset \/ UNCHANGED vars => UNCHANGED <<pc, monitor, report, choice>>
  BY DEF Reset, vars
<1> QED  BY <1>1, <1>2, <1>3, <1>4 DEF Next, MonitorEpoch, Kept

\* What makes a strict run intervene: the report is complete, so it is inviable, or
\* uncertain for its contact alone, or risky, or the epoch is forced by the period.
LEMMA StrictReason ==
  ASSUME TypeOK, NEW m \in Monitors, Take(m), report'.needs, cfg.strict
  PROVE  \/ Measured(m) \/ Risky(m)
         \/ ContactApplies(m) /\ ~cfg.predictable
         \/ cfg.trigger = "fixed_period" /\ (epoch + 1) % cfg.period = 0
<1>1. Observed(m).certificate /\ Observed(m).missing = {}
  BY DEF Take, Unpublishable
<1>2. Observed(m) = Evaluated(m) /\ ~(cfg.trigger = "state_change" /\ m.changed)
  BY <1>1 DEF Observed, Bypassed
<1>3. Missing(m) = {}  BY <1>1, <1>2 DEF Evaluated
<1>4. report'.needs = (Evaluated(m).needs \/ Forced(m))
  BY <1>2, TakenReport DEF Evaluated
<1>5. CASE Forced(m)
  BY <1>2, <1>5 DEF Forced
<1>6. CASE Evaluated(m).needs
  <2>1. Status(m) # "VIABLE" \/ Risky(m)  BY <1>6 DEF Evaluated
  <2>2. CASE Margin(m) < 0
    BY <2>2, InviableIsBelow DEF TypeOK, Status
  <2>3. CASE ~(Margin(m) < 0)
    BY <1>3, <2>1, <2>3 DEF Status
  <2> QED  BY <2>2, <2>3
<1> QED  BY <1>4, <1>5, <1>6

\* A strict run never intervenes for want of evidence, nor on the report that
\* replaces a certificate when the state changed (controller.py:214-262).
THEOREM StrictOnMeasured == Spec => []StrictIntervenesOnMeasured
<1>1. Init => StrictIntervenesOnMeasured  BY DEF Init, StrictIntervenesOnMeasured
<1>2. TypeOK /\ StrictIntervenesOnMeasured /\ [Next]_vars => StrictIntervenesOnMeasured'
  <2> SUFFICES ASSUME TypeOK, StrictIntervenesOnMeasured, [Next]_vars,
                      cfg'.strict, pc' = "planned"
               PROVE  (\/ Measured(monitor) \/ Risky(monitor)
                       \/ ContactApplies(monitor) /\ ~cfg.predictable
                       \/ cfg.trigger = "fixed_period" /\ epoch % cfg.period = 0)'
    BY DEF StrictIntervenesOnMeasured
  <2>1. cfg' = cfg  BY ReportChange
  <2>2. CASE pc = "planned"
    <3>1. UNCHANGED <<monitor, epoch>>
      BY <2>2 DEF Next, MonitorEpoch, Accept, Refuse, Reset, vars
    <3>2. \/ Measured(monitor) \/ Risky(monitor)
          \/ ContactApplies(monitor) /\ ~cfg.predictable
          \/ cfg.trigger = "fixed_period" /\ epoch % cfg.period = 0
      BY <2>1, <2>2 DEF StrictIntervenesOnMeasured
    <3> QED  BY <2>1, <3>1, <3>2 DEF Measured, Risky
  <2>3. ASSUME NEW m \in Monitors, Select(m)
        PROVE  (\/ Measured(monitor) \/ Risky(monitor)
                \/ ContactApplies(monitor) /\ ~cfg.predictable
                \/ cfg.trigger = "fixed_period" /\ epoch % cfg.period = 0)'
    <3>1. Take(m) /\ report'.needs /\ monitor' = m /\ epoch' = epoch + 1
      BY <2>3 DEF Select, Deciding, Take
    <3>2. \/ Measured(m) \/ Risky(m)
          \/ ContactApplies(m) /\ ~cfg.predictable
          \/ cfg.trigger = "fixed_period" /\ (epoch + 1) % cfg.period = 0
      BY <2>1, <3>1, StrictReason
    <3> QED  BY <2>1, <3>1, <3>2 DEF Measured, Risky
  <2>4. CASE \E m \in Monitors : Select(m)
    BY <2>3, <2>4
  <2>5. pc = "planned" \/ \E m \in Monitors : Select(m)
    <3>1. ASSUME NEW m \in Monitors, pc = "idle" PROVE ~Kept(m) /\ ~Raise(m)
      BY <3>1, EpochEffect DEF Raise
    <3> QED  BY <3>1 DEF Next, MonitorEpoch, Accept, Refuse, Reset, vars, Kept
  <2> QED  BY <2>2, <2>4, <2>5
<1> QED  BY <1>1, <1>2, TypeCorrect, PTL DEF Spec

LEMMA CandidateScope ==
  ASSUME TypeOK, NEW r \in Report, NEW c \in Candidates(r)
  PROVE  /\ c \in [planner: DOMAIN Planners, wide: BOOLEAN] /\ r.affected # {}
         /\ ScopeOf(c, r) # {}
         /\ ScopeOf(c, r) \subseteq (IF c.wide THEN covers ELSE r.affected)
         /\ Cardinality(ScopeOf(c, r)) \in Nat \ {0}
         /\ Cardinality(ScopeOf(c, r)) <= cfg.max_entities
<1> DEFINE S == IF c.wide THEN covers ELSE r.affected
<1>1. S \in SUBSET Entities  BY DEF TypeOK, Report
<1>2. ScopeOf(c, r) = Truncated(S)  BY DEF ScopeOf
<1>3. /\ c \in [planner: DOMAIN Planners, wide: BOOLEAN]
      /\ r.affected # {} /\ ScopeOf(c, r) # {}
  BY DEF Candidates
<1> HIDE DEF S
<1>4. /\ Truncated(S) \subseteq S /\ IsFiniteSet(Truncated(S))
      /\ Cardinality(Truncated(S)) \in Nat
      /\ Cardinality(Truncated(S)) <= cfg.max_entities
  BY <1>1, TruncatedBound DEF TypeOK
<1>5. Cardinality(Truncated(S)) # 0  BY <1>2, <1>3, <1>4, FS_EmptySet
<1> QED  BY <1>2, <1>3, <1>4, <1>5 DEF S

\* The parts of a value, with a service rate.
LEMMA WorthParts ==
  ASSUME TypeOK, NEW m \in Monitors, NEW r \in Report, NEW c \in Candidates(r),
         Rate(m) # None
  PROVE  LET p == Planners[c.planner]
         IN  /\ HoldCost(m) \in Nat /\ Benefit(p, r) \in Nat /\ p.delay \in Nat
             /\ Gain(p, m, r) \in Nat /\ Cost(c, r) \in Nat /\ cfg.beta * Doubt(p, m) \in Nat
             /\ Worth(c, m, r) = Gain(p, m, r) - Horizon * (cfg.beta * Doubt(p, m) + Cost(c, r))
             /\ Worth(c, m, r) \in Int
<1> DEFINE p == Planners[c.planner]
<1> USE NumberAssumption
<1>1. /\ p.benefit \in Nat /\ p.uncertainty \in Nat /\ p.delay \in Nat /\ p.cost \in Nat
  BY CandidateScope, PlannerFields
<1>2. HoldCost(m) \in Nat
  <2>1. Rate(m) \in Nat /\ m.work \in Nat /\ m.other \in Nat
    BY MonitorFields DEF Rate
  <2>2. m.work * Stall \in Nat  BY <2>1, Product
  <2>3. Rate(m) # 0 => m.work \div Rate(m) \in Nat  BY <2>1
  <2> QED  BY <2>1, <2>2, <2>3 DEF HoldCost
<1>3. Benefit(p, r) \in Nat
  BY <1>1 DEF Benefit, Screening, Most, Report
<1>4. Horizon - Least(p.delay, Horizon) \in Nat /\ Least(HoldCost(m), Benefit(p, r)) \in Nat
  BY <1>1, <1>2, <1>3 DEF Least
<1>5. Gain(p, m, r) \in Nat
  <2> DEFINE left == Horizon - Least(p.delay, Horizon)
             each == Least(HoldCost(m), Benefit(p, r))
  <2>1. left \in Nat /\ each \in Nat /\ Gain(p, m, r) = left * each
    BY <1>4 DEF Gain
  <2> HIDE DEF left, each
  <2> QED  BY <2>1, Product
<1>6. cfg.beta * Doubt(p, m) \in Nat
  <2>1. Doubt(p, m) \in Nat
    BY <1>1, MonitorFields DEF Doubt, Uncertainty, Most
  <2> HIDE DEF p
  <2> QED  BY <2>1, SettingFields, Product DEF TypeOK
<1>7. Cost(c, r) \in Nat
  <2> DEFINE size == Most(1, Cardinality(ScopeOf(c, r)))
  <2>1. size \in Nat  BY CandidateScope DEF Most
  <2> HIDE DEF size
  <2>2. cfg.signal_price * size \in Nat  BY <2>1, SettingFields, Product DEF TypeOK
  <2>3. Cost(c, r) = IF cfg.include_cost THEN p.cost + cfg.signal_price * size ELSE 0
    BY DEF Cost, size
  <2> QED  BY <1>1, <2>2, <2>3
<1>8. Worth(c, m, r) = Gain(p, m, r) - Horizon * (cfg.beta * Doubt(p, m) + Cost(c, r))
  BY DEF Worth
<1>9. Horizon * (cfg.beta * Doubt(p, m) + Cost(c, r)) \in Nat
  <2> DEFINE rest == cfg.beta * Doubt(p, m) + Cost(c, r)
  <2>1. rest \in Nat  BY <1>6, <1>7
  <2> HIDE DEF rest
  <2>2. Horizon * rest \in Nat  BY <2>1, Product
  <2> QED  BY <2>2 DEF rest
<1>10. Worth(c, m, r) \in Int
  BY <1>5, <1>8, <1>9
<1> QED  BY <1>1, <1>2, <1>3, <1>5, <1>6, <1>7, <1>8, <1>10

\* A maximum is worth at least as much as every candidate.
LEMMA MaximumIsMost ==
  ASSUME TypeOK, NEW m \in Monitors, NEW r \in Report, NEW c, IsMaximum(c, m, r),
         Rate(m) # None
  PROVE  \A d \in Candidates(r) : Worth(d, m, r) <= Worth(c, m, r)
<1> SUFFICES ASSUME NEW d \in Candidates(r) PROVE Worth(d, m, r) <= Worth(c, m, r)
  OBVIOUS
<1>1. c \in Candidates(r)  BY DEF IsMaximum
<1>2. Worth(c, m, r) \in Int /\ Worth(d, m, r) \in Int  BY <1>1, WorthParts
<1>3. CASE d = c  BY <1>2, <1>3
<1>4. CASE d # c
  <2>1. IF Before(d, c) THEN Exceeds(Worth(c, m, r), Worth(d, m, r))
        ELSE ~Exceeds(Worth(d, m, r), Worth(c, m, r))
    BY <1>4 DEF IsMaximum
  <2>2. Worth(c, m, r) # NaN /\ Worth(d, m, r) # NaN  BY <1>2, NumberAssumption
  <2> QED  BY <1>2, <2>1, <2>2 DEF Exceeds
<1> QED  BY <1>3, <1>4

\* What is left of the horizon times the gain exceeds the horizon times the cost.
LEMMA PositiveLeaves ==
  ASSUME NEW H \in Nat \ {0}, NEW d \in Nat, NEW x \in Nat, NEW k \in Nat, NEW y \in Nat,
         (H - Least(d, H)) * x - H * (y + k) > 0
  PROVE  d < H /\ k < x
<1>1. H * (y + k) \in Nat  BY Product
<1>2. d < H
  <2> SUFFICES ASSUME ~(d < H) PROVE FALSE  OBVIOUS
  <2>1. H - Least(d, H) = 0  BY DEF Least
  <2>2. (H - Least(d, H)) * x = 0  BY <2>1
  <2> QED  BY <1>1, <2>2
<1>3. k < x
  <2> SUFFICES ASSUME x <= k PROVE FALSE  OBVIOUS
  <2> DEFINE left == H - Least(d, H)
  <2>1. left \in Nat /\ left <= H  BY DEF Least
  <2> HIDE DEF left
  <2>2. x * left \in Nat /\ x * H \in Nat /\ x * left <= x * H  BY <2>1, Product
  <2>3. y + k \in Nat /\ x <= y + k  OBVIOUS
  <2> DEFINE all == y + k
  <2>4. all \in Nat /\ x <= all  BY <2>3
  <2> HIDE DEF all
  <2>5. H * x \in Nat /\ H * x <= H * all  BY <2>4, Product
  <2>6. x * left = left * x /\ x * H = H * x  BY <2>1
  <2> DEFINE u == left * x
             v == H * x
             w == H * all
  <2>7. u <= w
    <3>1. u \in Nat /\ v \in Nat /\ w \in Int /\ u <= v /\ v <= w
      BY <1>1, <2>2, <2>5, <2>6 DEF all
    <3> HIDE DEF u, v, w
    <3> QED  BY <3>1
  <2>8. left * x - H * all > 0  BY DEF left, all
  <2>9. left * x \in Nat /\ H * all \in Nat  BY <1>1, <2>2, <2>6 DEF all
  <2> QED  BY <2>7, <2>8, <2>9
<1> QED  BY <1>2, <1>3

LEMMA SelectedPays ==
  ASSUME TypeOK, NEW m \in Monitors, NEW r \in Report, NEW c, IsMaximum(c, m, r),
         ~NonPositive(Worth(c, m, r)), Rate(m) # None
  PROVE  PaysBest(c, m, r)
<1> DEFINE p == Planners[c.planner]
           y == cfg.beta * Doubt(p, m)
           x == Least(HoldCost(m), Benefit(p, r))
<1>1. c \in Candidates(r)  BY DEF IsMaximum
<1>2. /\ HoldCost(m) \in Nat /\ Benefit(p, r) \in Nat /\ p.delay \in Nat
      /\ Cost(c, r) \in Nat /\ y \in Nat /\ Worth(c, m, r) \in Int
      /\ Worth(c, m, r) = Gain(p, m, r) - Horizon * (y + Cost(c, r))
  BY <1>1, WorthParts
<1>3. Worth(c, m, r) > 0
  BY <1>2, NumberAssumption DEF NonPositive
<1>4. x \in Nat /\ Gain(p, m, r) = (Horizon - Least(p.delay, Horizon)) * x
  BY <1>2 DEF Gain, Least
<1>5. (Horizon - Least(p.delay, Horizon)) * x - Horizon * (y + Cost(c, r)) > 0
  BY <1>2, <1>3, <1>4
<1> HIDE DEF y
<1>6. p.delay < Horizon /\ Cost(c, r) < x
  <2> HIDE DEF x, p
  <2> QED  BY <1>2, <1>4, <1>5, NumberAssumption, PositiveLeaves
<1>7. Cost(c, r) < HoldCost(m) /\ Cost(c, r) < Benefit(p, r)
  BY <1>2, <1>6 DEF Least
<1> QED  BY <1>6, <1>7, MaximumIsMost DEF PaysBest

LEMMA SelectedIsImplicated ==
  ASSUME TypeOK, NEW m \in Monitors, NEW r \in Report, r.affected \subseteq m.names \cup covers,
         NEW c, IsMaximum(c, m, r)
  PROVE  Implicated(c, m, r)
<1>1. c \in Candidates(r)  BY DEF IsMaximum
<1>2. /\ c \in [planner: DOMAIN Planners, wide: BOOLEAN] /\ ScopeOf(c, r) # {}
      /\ ScopeOf(c, r) \subseteq m.names \cup covers
      /\ Cardinality(ScopeOf(c, r)) \in Nat \ {0}
      /\ Cardinality(ScopeOf(c, r)) <= cfg.max_entities
  BY <1>1, CandidateScope
<1>3. ASSUME c.wide PROVE Cardinality(ScopeOf(c, r)) < Cardinality(ScopeOf(Direct(c), r))
  <2> DEFINE d == Direct(c)
  <2>1. /\ d \in [planner: DOMAIN Planners, wide: BOOLEAN]
        /\ ~d.wide /\ d.planner = c.planner /\ d # c
    BY <1>2, <1>3 DEF Direct
  <2>2. r.affected # {} /\ r.affected \in SUBSET Entities
    BY <1>1, CandidateScope DEF Report
  <2>3. cfg.max_entities # 0
    BY <1>2, SettingFields DEF TypeOK
  <2>4. Truncated(r.affected) # {}
    BY <2>2, <2>3, TruncatedNonEmpty DEF TypeOK
  <2> HIDE DEF d
  <2>5. d \in Candidates(r)
    BY <2>1, <2>2, <2>4 DEF Candidates, ScopeOf
  <2>6. Before(d, c)  BY <1>3, <2>1 DEF Before
  <2>7. Exceeds(Worth(c, m, r), Worth(d, m, r))
    BY <2>1, <2>5, <2>6 DEF IsMaximum
  <2>8. Rate(m) # None  BY <2>7 DEF Exceeds, Worth
  <2> DEFINE g == Gain(Planners[c.planner], m, r)
             y == cfg.beta * Doubt(Planners[c.planner], m)
             k == y + Cost(c, r)
             j == y + Cost(d, r)
  <2>9. /\ g \in Nat /\ y \in Nat /\ Cost(c, r) \in Nat /\ Cost(d, r) \in Nat
        /\ Worth(c, m, r) = g - Horizon * k /\ Worth(d, m, r) = g - Horizon * j
    BY <1>1, <2>1, <2>5, <2>8, WorthParts
  <2> HIDE DEF g, y
  <2>10. k \in Nat /\ j \in Nat  BY <2>9
  <2>11. g - Horizon * k > g - Horizon * j
    BY <2>7, <2>9 DEF Exceeds
  <2>12. k < j
    <3> HIDE DEF k, j
    <3> SUFFICES ASSUME j <= k PROVE FALSE  BY <2>10
    <3>1. Horizon * j \in Nat /\ Horizon * k \in Nat /\ Horizon * j <= Horizon * k
      BY <2>10, NumberAssumption, Product
    <3> QED  BY <2>9, <2>11, <3>1
  <2>13. Cost(c, r) < Cost(d, r)  BY <2>9, <2>12
  <2> DEFINE a == Cardinality(ScopeOf(c, r))
             b == Cardinality(ScopeOf(d, r))
  <2>14. a \in Nat \ {0} /\ b \in Nat \ {0}  BY <1>1, <2>5, CandidateScope
  <2>15. /\ cfg.include_cost => /\ Cost(c, r) = Planners[c.planner].cost + cfg.signal_price * a
                                /\ Cost(d, r) = Planners[c.planner].cost + cfg.signal_price * b
         /\ ~cfg.include_cost => Cost(c, r) = Cost(d, r)
    BY <2>1, <2>14 DEF Cost, Most
  <2> HIDE DEF a, b
  <2>16. a < b
    <3> SUFFICES ASSUME b <= a PROVE FALSE  BY <2>14
    <3>1. /\ cfg.signal_price * b \in Nat /\ cfg.signal_price * a \in Nat
          /\ cfg.signal_price * b <= cfg.signal_price * a
      BY <2>14, SettingFields, Product DEF TypeOK
    <3>2. Planners[c.planner].cost \in Nat  BY <1>2, PlannerFields
    <3> QED  BY <2>9, <2>13, <2>15, <3>1, <3>2
  <2> QED  BY <2>16 DEF a, b, d
<1> QED  BY <1>2, <1>3 DEF Implicated

\* Where a service rate is known, an intervention is under way only if its delay
\* ends within the horizon and its price is below what it can gain, and then it is
\* the best candidate (benefit.py:237-319, arbitration.py:79-92).
THEOREM SelectionIsWorthIt == Spec => []SelectionPays
<1>1. Init => SelectionPays  BY DEF Init, SelectionPays
<1>2. TypeOK /\ SelectionPays /\ [Next]_vars => SelectionPays'
  <2> SUFFICES ASSUME TypeOK, SelectionPays, [Next]_vars, pc' = "planned",
                      Rate(monitor') # None
               PROVE  PaysBest(choice', monitor', report')
    BY ReportChange, FixedClaims DEF SelectionPays, Rate
  <2>1. CASE pc = "planned" /\ UNCHANGED <<monitor, report, choice>>
    BY <2>1 DEF SelectionPays
  <2>2. CASE /\ monitor' \in Monitors /\ Take(monitor')
             /\ IsMaximum(choice', monitor', report')
             /\ ~NonPositive(Worth(choice', monitor', report'))
    BY <2>2, TakenReport, SelectedPays
  <2> QED  BY <2>1, <2>2, ChoiceChange
<1> QED  BY <1>1, <1>2, TypeCorrect, PTL DEF Spec

\* An intervention stays within what is implicated or covered and within the
\* limit, and includes the wider scope only where that is the smaller one
\* (scope.py:487-540).
THEOREM WiderScopeIsSmaller == Spec => []WiderOnlyIfSmaller
<1>1. Init => WiderOnlyIfSmaller  BY DEF Init, WiderOnlyIfSmaller
<1>2. TypeOK /\ WiderOnlyIfSmaller /\ [Next]_vars => WiderOnlyIfSmaller'
  <2> SUFFICES ASSUME TypeOK, WiderOnlyIfSmaller, [Next]_vars, pc' = "planned"
               PROVE  Implicated(choice', monitor', report')
    BY ReportChange, FixedClaims DEF WiderOnlyIfSmaller
  <2>1. CASE pc = "planned" /\ UNCHANGED <<monitor, report, choice>>
    BY <2>1 DEF WiderOnlyIfSmaller
  <2>2. CASE /\ monitor' \in Monitors /\ Take(monitor')
             /\ IsMaximum(choice', monitor', report')
    BY <2>2, TakenReport, SelectedIsImplicated
  <2> QED  BY <2>1, <2>2, ChoiceChange
<1> QED  BY <1>1, <1>2, TypeCorrect, PTL DEF Spec

\* A report that implicates what is covered has no wider candidate.
LEMMA NothingIsWider ==
  ASSUME NEW r, r.affected = covers, NEW c \in Candidates(r)
  PROVE  ~c.wide /\ ScopeOf(c, r) = Truncated(covers)
<1>1. c \in [planner: DOMAIN Planners, wide: BOOLEAN]  BY DEF Candidates
<1>2. ~Direct(c).wide  BY <1>1 DEF Direct
<1>3. ScopeOf(c, r) = Truncated(covers) /\ ScopeOf(Direct(c), r) = Truncated(covers)
  BY <1>2 DEF ScopeOf
<1> QED  BY <1>3 DEF Candidates

\* Without a name, and on a bypassed report, an intervention refreshes what the
\* configuration covers: turning the global candidate off does not prevent it
\* (scope.py:311-312, 487-540).
THEOREM RefreshTakesAll == Spec => []RefreshIsWhole
<1>1. Init => RefreshIsWhole  BY DEF Init, RefreshIsWhole
<1>2. TypeOK /\ RefreshIsWhole /\ [Next]_vars => RefreshIsWhole'
  <2> SUFFICES ASSUME TypeOK, RefreshIsWhole, [Next]_vars, pc' = "planned",
                      monitor'.names = {} \/ ~report'.certificate
               PROVE  (~choice.wide /\ ScopeOf(choice, report) = Truncated(covers))'
    BY DEF RefreshIsWhole
  <2>1. cfg' = cfg /\ covers' = covers  BY ReportChange
  <2>2. CASE pc = "planned" /\ UNCHANGED <<monitor, report, choice>>
    <3>1. ~choice.wide /\ ScopeOf(choice, report) = Truncated(covers)
      BY <2>2 DEF RefreshIsWhole
    <3> QED  BY <2>1, <2>2, <3>1 DEF ScopeOf, Truncated
  <2>3. CASE /\ monitor' \in Monitors /\ Take(monitor')
             /\ IsMaximum(choice', monitor', report')
    <3>1. report'.affected = covers
      BY <2>3 DEF Take, Observed, Evaluated, Bypassed, Affected
    <3>2. ~choice'.wide /\ ScopeOf(choice', report') = Truncated(covers)
      BY <2>3, <3>1, NothingIsWider DEF IsMaximum
    <3> QED  BY <2>1, <3>2 DEF ScopeOf, Truncated
  <2> QED  BY <2>2, <2>3, ChoiceChange
<1> QED  BY <1>1, <1>2, TypeCorrect, PTL DEF Spec

\* An intervention under way has a positive value, or one that is no number for
\* want of a service rate.
THEOREM PositiveWithRate == Spec => []RateDecidesValue
<1>1. Init => RateDecidesValue  BY DEF Init, RateDecidesValue
<1>2. TypeOK /\ RateDecidesValue /\ [Next]_vars => RateDecidesValue'
  <2> SUFFICES ASSUME TypeOK, RateDecidesValue, [Next]_vars, pc' = "planned"
               PROVE  IF Rate(monitor') = None
                        THEN Worth(choice', monitor', report') = NaN
                        ELSE Worth(choice', monitor', report') > 0
    BY ReportChange, Fixed DEF RateDecidesValue, Rate
  <2>1. CASE pc = "planned" /\ UNCHANGED <<monitor, report, choice>>
    BY <2>1 DEF RateDecidesValue
  <2>2. CASE /\ monitor' \in Monitors /\ Take(monitor')
             /\ IsMaximum(choice', monitor', report')
             /\ ~NonPositive(Worth(choice', monitor', report'))
    <3>1. CASE Rate(monitor') = None
      BY <3>1 DEF Worth
    <3>2. CASE Rate(monitor') # None
      <4>1. report' \in Report /\ choice' \in Candidates(report')
        BY <2>2, TakenReport DEF IsMaximum
      <4>2. Worth(choice', monitor', report') \in Int
        BY <2>2, <3>2, <4>1, WorthParts
      <4> QED  BY <2>2, <3>2, <4>2, NumberAssumption DEF NonPositive
    <3> QED  BY <3>1, <3>2
  <2> QED  BY <2>1, <2>2, ChoiceChange
<1> QED  BY <1>1, <1>2, TypeCorrect, PTL DEF Spec

-----------------------------------------------------------------------------
\* The maximum of the candidates.

\* Every non-empty list of candidates has a first one.
LEMMA FirstCandidate ==
  ASSUME NEW S \in SUBSET [planner: DOMAIN Planners, wide: BOOLEAN], S # {}
  PROVE  \E c \in S : \A d \in S : ~Before(d, c)
<1> DEFINE ranks == {c.planner : c \in S}
<1>1. \A c \in S : c.planner \in Nat /\ c.wide \in BOOLEAN
  BY RecordAssumption
<1>2. ranks \subseteq Nat /\ ranks # {}
  BY <1>1
<1>3. PICK n \in ranks : \A k \in ranks : n <= k
  <2> HIDE DEF ranks
  <2> QED  BY <1>2, LeastNumber
<1>4. \A d \in S : n <= d.planner
  BY <1>3
<1>5. n \in Nat
  BY <1>2, <1>3
<1>6. CASE \E c \in S : c.planner = n /\ ~c.wide
  <2>1. PICK c \in S : c.planner = n /\ ~c.wide
    BY <1>6
  <2>2. \A d \in S : ~Before(d, c)
    BY <1>1, <1>4, <1>5, <2>1 DEF Before
  <2> QED  BY <2>2
<1>7. CASE ~ \E c \in S : c.planner = n /\ ~c.wide
  <2>1. PICK c \in S : c.planner = n
    BY <1>3
  <2>2. \A d \in S : ~Before(d, c)
    BY <1>1, <1>4, <1>5, <1>7, <2>1 DEF Before
  <2> QED  BY <2>2
<1> QED  BY <1>6, <1>7

\* No candidate is worth more than the horizon times what holding costs.
LEMMA WorthBound ==
  ASSUME TypeOK, NEW m \in Monitors, NEW r \in Report, NEW c \in Candidates(r),
         Rate(m) # None
  PROVE  /\ HoldCost(m) \in Nat /\ Horizon * HoldCost(m) \in Nat
         /\ Worth(c, m, r) \in Int /\ Worth(c, m, r) <= Horizon * HoldCost(m)
<1> DEFINE p == Planners[c.planner]
           b == cfg.beta * Doubt(p, m)
           left == Horizon - Least(p.delay, Horizon)
           each == Least(HoldCost(m), Benefit(p, r))
<1>1. /\ HoldCost(m) \in Nat /\ Benefit(p, r) \in Nat /\ p.delay \in Nat
      /\ Gain(p, m, r) \in Nat /\ Cost(c, r) \in Nat /\ b \in Nat
      /\ Worth(c, m, r) = Gain(p, m, r) - Horizon * (b + Cost(c, r))
      /\ Worth(c, m, r) \in Int
  BY WorthParts
<1>2. Horizon \in Nat  BY NumberAssumption
<1>3. left \in Nat /\ left <= Horizon /\ each \in Nat /\ each <= HoldCost(m)
  BY <1>1, <1>2 DEF Least
<1>4. Gain(p, m, r) = left * each
  BY DEF Gain
<1> HIDE DEF left, each, b
<1>5. left * each <= left * HoldCost(m)  BY <1>1, <1>3, Product
<1>6. HoldCost(m) * left <= HoldCost(m) * Horizon  BY <1>1, <1>2, <1>3, Product
<1>7. left * HoldCost(m) = HoldCost(m) * left /\ Horizon * HoldCost(m) = HoldCost(m) * Horizon
  BY <1>1, <1>2, <1>3
<1>8. left * HoldCost(m) \in Nat /\ Horizon * HoldCost(m) \in Nat /\ left * each \in Nat
  BY <1>1, <1>2, <1>3, Product
<1>9. Horizon * (b + Cost(c, r)) \in Nat
  <2> DEFINE rest == b + Cost(c, r)
  <2>1. rest \in Nat  BY <1>1
  <2> HIDE DEF rest
  <2>2. Horizon * rest \in Nat  BY <1>2, <2>1, Product
  <2> QED  BY <2>2 DEF rest
<1>10. \A g, h, k, w, z \in Int : g <= h /\ h <= k /\ w = g - z /\ z >= 0 => w <= k
  OBVIOUS
<1>11. Worth(c, m, r) <= Horizon * HoldCost(m)
  <2> DEFINE g == Gain(p, m, r)
             z == Horizon * (b + Cost(c, r))
             k == Horizon * HoldCost(m)
             h == left * HoldCost(m)
             w == Worth(c, m, r)
  <2>1. g \in Int /\ h \in Int /\ k \in Int /\ w \in Int /\ z \in Int /\ z >= 0
        /\ g <= h /\ h <= k /\ w = g - z
    <3>1. z \in Int /\ z >= 0
      <4> HIDE DEF z
      <4> QED  BY <1>9 DEF z
    <3>2. h <= k
      BY <1>6, <1>7
    <3>3. g <= h
      BY <1>4, <1>5
    <3> HIDE DEF g, z, k, h, w
    <3> QED  BY <1>1, <1>4, <1>8, <3>1, <3>2, <3>3 DEF g, z, k, h, w
  <2> HIDE DEF g, z, k, h, w
  <2>2. w <= k  BY <1>10, <2>1
  <2> QED  BY <2>2 DEF w, k
<1> QED  BY <1>1, <1>8, <1>11

\* There is a maximum.
LEMMA MaximumExists ==
  ASSUME TypeOK, NEW m \in Monitors, NEW r \in Report, Candidates(r) # {}
  PROVE  \E c \in Candidates(r) : IsMaximum(c, m, r)
<1> DEFINE C == Candidates(r)
<1>1. C \in SUBSET [planner: DOMAIN Planners, wide: BOOLEAN]
  BY DEF Candidates
<1>2. CASE Rate(m) = None
  <2>1. \A c : Worth(c, m, r) = NaN
    BY <1>2 DEF Worth
  <2>2. PICK c \in C : \A d \in C : ~Before(d, c)
    <3> HIDE DEF C
    <3>1. C # {}  BY DEF C
    <3> QED  BY <1>1, <3>1, FirstCandidate
  <2>3. IsMaximum(c, m, r)
    BY <2>1, <2>2 DEF IsMaximum, Exceeds
  <2> QED  BY <2>3
<1>3. CASE Rate(m) # None
  <2> DEFINE B == Horizon * HoldCost(m)
             W(c) == Worth(c, m, r)
             gaps == {B - W(c) : c \in C}
  <2>1. \A c \in C : B \in Nat /\ W(c) \in Int /\ W(c) <= B
    BY <1>3, WorthBound
  <2>2. gaps \subseteq Nat /\ gaps # {}
    <3> HIDE DEF B, W
    <3>1. \A c \in C : B - W(c) \in Nat
      BY <2>1
    <3> QED  BY <3>1
  <2>3. PICK g \in gaps : \A k \in gaps : g <= k
    <3> HIDE DEF gaps
    <3> QED  BY <2>2, LeastNumber
  <2>4. PICK a \in C : g = B - W(a)
    BY <2>3
  <2>5. \A d \in C : W(d) <= W(a)
    <3> SUFFICES ASSUME NEW d \in C PROVE W(d) <= W(a)
      OBVIOUS
    <3>1. B - W(a) <= B - W(d)
      BY <2>3, <2>4
    <3> HIDE DEF B, W
    <3> QED  BY <2>1, <3>1
  <2> DEFINE best == {d \in C : W(d) = W(a)}
  <2>6. PICK c \in best : \A d \in best : ~Before(d, c)
    <3>1. best \in SUBSET [planner: DOMAIN Planners, wide: BOOLEAN] /\ best # {}
      BY <1>1
    <3> HIDE DEF best
    <3> QED  BY <3>1, FirstCandidate
  <2>7. \A d \in C : W(d) \in Int /\ W(d) # NaN
    BY <2>1, NumberAssumption
  <2>8. ASSUME NEW d \in C \ {c}
        PROVE  IF Before(d, c) THEN Exceeds(W(c), W(d)) ELSE ~Exceeds(W(d), W(c))
    <3>1. c \in C /\ W(c) = W(a) /\ W(d) <= W(c)
      BY <2>5, <2>6
    <3>2. Before(d, c) => W(d) # W(c)
      BY <2>6, <3>1
    <3> HIDE DEF W, C, best
    <3> QED  BY <2>7, <3>1, <3>2 DEF Exceeds
  <2>9. IsMaximum(c, m, r)
    BY <2>6, <2>8 DEF IsMaximum
  <2> QED  BY <2>6, <2>9
<1> QED  BY <1>2, <1>3

\* There is only one.
LEMMA MaximumIsUnique ==
  ASSUME TypeOK, NEW m \in Monitors, NEW r \in Report,
         NEW c, IsMaximum(c, m, r), NEW d, IsMaximum(d, m, r)
  PROVE  c = d
<1> SUFFICES ASSUME c # d PROVE FALSE
  OBVIOUS
<1>1. /\ c \in Candidates(r) /\ d \in Candidates(r)
      /\ c \in [planner: DOMAIN Planners, wide: BOOLEAN]
      /\ d \in [planner: DOMAIN Planners, wide: BOOLEAN]
  BY DEF IsMaximum, Candidates
<1>2. c.planner \in Nat /\ d.planner \in Nat
  BY <1>1, RecordAssumption
<1>3. c.planner # d.planner \/ c.wide # d.wide
  BY <1>1
<1>4. (Before(c, d) /\ ~Before(d, c)) \/ (Before(d, c) /\ ~Before(c, d))
  BY <1>1, <1>2, <1>3 DEF Before
<1>5. Before(d, c) => Exceeds(Worth(c, m, r), Worth(d, m, r))
  BY <1>1 DEF IsMaximum
<1>6. Before(c, d) => Exceeds(Worth(d, m, r), Worth(c, m, r))
  BY <1>1 DEF IsMaximum
<1>7. ~Before(d, c) => ~Exceeds(Worth(d, m, r), Worth(c, m, r))
  BY <1>1 DEF IsMaximum
<1>8. ~Before(c, d) => ~Exceeds(Worth(c, m, r), Worth(d, m, r))
  BY <1>1 DEF IsMaximum
<1> QED  BY <1>4, <1>5, <1>6, <1>7, <1>8

\* Exactly one of the candidates of a report is chosen, whatever their values.
THEOREM EvidenceDecides == Spec => []DecisionIsDetermined
<1> DEFINE Observes == report # None => monitor \in Monitors
<1>1. Init => Observes  BY DEF Init
<1>2. TypeOK /\ Observes /\ [Next]_vars => Observes'
  <2> SUFFICES ASSUME TypeOK, Observes, [Next]_vars PROVE Observes'
    OBVIOUS
  <2>1. CASE UNCHANGED <<monitor, report>>
    BY <2>1
  <2>2. ASSUME NEW m \in Monitors, Take(m) PROVE Observes'
    BY <2>2 DEF Take
  <2> QED  BY <2>1, <2>2, ReportChange
<1>3. TypeOK /\ Observes => DecisionIsDetermined
  <2> SUFFICES ASSUME TypeOK, monitor \in Monitors, report # None, Candidates(report) # {}
               PROVE  \E c \in Candidates(report) : \A d \in Candidates(report) :
                        IsMaximum(d, monitor, report) <=> d = c
    BY DEF DecisionIsDetermined
  <2>1. report \in Report
    BY DEF TypeOK, Report, Optional
  <2>2. PICK c \in Candidates(report) : IsMaximum(c, monitor, report)
    BY <2>1, MaximumExists
  <2>3. ASSUME NEW d \in Candidates(report), IsMaximum(d, monitor, report) PROVE d = c
    BY <2>1, <2>2, <2>3, MaximumIsUnique
  <2> QED  BY <2>2, <2>3
<1> QED  BY <1>1, <1>2, <1>3, TypeCorrect, PTL DEF Spec

=============================================================================
