------------------------- MODULE InterventionDecision -------------------------
(***************************************************************************)
(* What one control epoch decides, and on which evidence: the viability    *)
(* report (control/viability.py), the candidate scopes (control/scope.py), *)
(* the value of a candidate (control/benefit.py), the choice among them    *)
(* (control/arbitration.py) and the order in which                         *)
(* EndogenousReplanningController consults them (control/controller.py).   *)
(* How a chosen intervention is carried out is ReplanningController's      *)
(* subject: here it is accepted or refused.                                *)
(*                                                                         *)
(* A scope is a set of numbers: entities in the order truncate() takes     *)
(* them. Quantities are whole multiples of one half.                       *)
(***************************************************************************)
EXTENDS Integers, FiniteSets, Sequences

CONSTANTS
  Entities,   \* tasks, sources, nodes, links, routes and resources, in this order
  Monitors,   \* what the cheap monitor may report, see Monitor
  Settings,   \* the configurations that are tried, see Setting
  Planners,   \* the registered planners, in the registry's order, see Planner
  Horizon,    \* config.benefit.evaluation_horizon_sec
  Stall,      \* 1 / 1.0e-9: what a unit of work costs at a service rate of zero
  MaxEpochs,  \* bound: control epochs
  None, NaN

Optional(S) == S \cup {None}

\* "work" is the remaining work, "ready" the part of it that waits for dispatch or
\* computation (None when the backend reports no phases); "waived" and "claimed" are
\* the evidence that the backend declares not applicable, or applicable;
\* "certified" and "observed" the service rates, the first net of the safety
\* fraction; "contact" the least contact slack (lifetime - required completion
\* when no slack is listed); "risk" the performance risk, "other" the queue,
\* deadline and configuration terms of the holding cost; "cheap" whether the
\* monitor is verified to be cheap; "names" the entities the monitor names.
Declarable == {"service", "deadline", "uncertainty"}
Monitor == [work: Nat, ready: Optional(Nat), waived: SUBSET Declarable,
            claimed: SUBSET Declarable, certified: Optional(Nat),
            observed: Optional(Nat), horizon: Optional(Nat), remote: BOOLEAN,
            contact: Optional(Int), lifetime: Optional(Nat), deadline: Optional(Int),
            uncertainty: Optional(Nat), risk: Nat, other: Nat, cheap: BOOLEAN,
            changed: BOOLEAN, names: SUBSET Entities]

Setting == [mode: {"legacy_slotwise", "endogenous"}, strict: BOOLEAN,
            trigger: {"viability", "fixed_period", "state_change"}, period: Nat \ {0},
            tolerance: Nat, reserve: Nat, threshold: Nat, soft: BOOLEAN,
            predictable: BOOLEAN, authoritative: BOOLEAN, max_entities: Nat,
            include_global: BOOLEAN, max_candidates: Nat \ {0}, beta: Nat,
            include_cost: BOOLEAN, signal_price: Nat]

\* The descriptor of a planner: expected benefit (0: none is known) and its
\* uncertainty, delay, and cost besides the signalling of the scope.
Planner == [benefit: Nat, uncertainty: Nat, delay: Nat, cost: Nat]

ASSUME NumberAssumption ==
  /\ Entities \subseteq Nat /\ IsFiniteSet(Entities)
  /\ Horizon \in Nat \ {0} /\ Stall \in Nat \ {0} /\ MaxEpochs \in Nat
  /\ None \notin Int /\ NaN \notin Int /\ NaN # None
  /\ None \notin [planner: Nat, wide: BOOLEAN]
ASSUME RecordAssumption ==
  /\ Monitors \subseteq Monitor /\ \A m \in Monitors : m.waived \cap m.claimed = {}
  /\ Settings \subseteq Setting /\ Planners \in Seq(Planner)

VARIABLES
  cfg,       \* the configuration of the run; never changes
  covers,    \* the entities the persistent configuration covers
  current,   \* current_configuration.version
  active,    \* the version the backend reports, None for a new session
  pc,        \* "idle", "planned" (an intervention is under way) or "raised"
  epoch,     \* clock.monitor_epoch
  monitor,   \* _last_monitor, None before the first epoch
  report,    \* _last_viability, None before the first epoch
  choice,    \* the selected candidate, None if there is none
  decision   \* the reason the last decision carries

vars == <<cfg, covers, current, active, pc, epoch, monitor, report, choice, decision>>

Least(a, b) == IF a <= b THEN a ELSE b
Most(a, b)  == IF a <= b THEN b ELSE a

-----------------------------------------------------------------------------
\* ConservativeViabilityEstimator.evaluate.

\* What a constraint calls for: derived from the work and its phases, unless the
\* backend declares it. A declaration overrides the phases only while there is
\* work, and brings the uncertainty into an idle report.
ServiceWork(m) == IF m.ready # None THEN m.ready ELSE m.work
ServiceApplies(m) ==
  IF m.work > 0 /\ "service" \in m.waived \cup m.claimed
  THEN "service" \in m.claimed ELSE ServiceWork(m) > 0
ServiceKnown(m)   == ServiceApplies(m) /\ m.certified # None /\ m.horizon # None
ContactApplies(m) == m.work > 0 /\ m.remote
DeadlineApplies(m) == m.work > 0 /\ "deadline" \notin m.waived
UncertaintyApplies(m) ==
  "uncertainty" \in m.claimed \/ (m.work > 0 /\ "uncertainty" \notin m.waived)
UncertaintyKnown(m) == UncertaintyApplies(m) /\ m.uncertainty # None

\* _configuration_truth: a new session is tolerated where the backend is not
\* authoritative, another version never.
Consistent == active = current \/ (active = None /\ ~cfg.authoritative)

Evidence == {"service", "horizon", "contact", "deadline", "uncertainty",
             "configuration", "cheap"}
Missing(m) ==
  {e \in Evidence :
     \/ e = "service" /\ ServiceApplies(m) /\ ~ServiceKnown(m)
     \/ e = "horizon" /\ ServiceApplies(m) /\ m.horizon = None
     \/ e = "contact" /\ ContactApplies(m) /\ m.contact = None
     \/ e = "deadline" /\ DeadlineApplies(m) /\ m.deadline = None
     \/ e = "uncertainty" /\ UncertaintyApplies(m) /\ m.uncertainty = None
     \/ e = "configuration" /\ ~Consistent
     \/ e = "cheap" /\ ~m.cheap}

\* Slack before the uncertainty penalty; 0 where the evidence is missing.
ServiceSpan(m) == IF ContactApplies(m) /\ m.lifetime # None
                  THEN Least(m.horizon, m.lifetime) ELSE m.horizon
ServiceSlack(m) == IF ServiceKnown(m)
                   THEN m.certified * ServiceSpan(m) - ServiceWork(m) - cfg.reserve ELSE 0
ContactSlack(m)  == IF m.contact # None THEN m.contact ELSE 0
DeadlineSlack(m) == IF m.deadline # None THEN m.deadline ELSE 0

\* Mutant of Penalty: all the uncertainty counts, not its excess over the tolerance.
PenaltyInFull(m) == IF UncertaintyKnown(m) THEN m.uncertainty ELSE 0
Penalty(m) == IF UncertaintyKnown(m) THEN Most(0, m.uncertainty - cfg.tolerance) ELSE 0

\* The least margin of the three; one that does not apply is 0.
Margin(m) ==
  Least(IF ServiceApplies(m) THEN ServiceSlack(m) - Penalty(m) ELSE 0,
        Least(IF ContactApplies(m) THEN ContactSlack(m) - Penalty(m) ELSE 0,
              IF DeadlineApplies(m) THEN DeadlineSlack(m) - Penalty(m) ELSE 0))

\* Mutant of Status: only a negative margin is looked at.
StatusByMargin(m) == IF Margin(m) < 0 THEN "INVIABLE" ELSE "VIABLE"
Status(m) ==
  IF Margin(m) < 0 THEN "INVIABLE"
  ELSE IF Missing(m) # {} \/ (ContactApplies(m) /\ ~cfg.predictable) THEN "UNCERTAIN"
  ELSE "VIABLE"

Risky(m) == cfg.soft /\ m.risk > cfg.threshold

\* extract_typed_affected_entities: what the configuration covers, when the
\* monitor names nothing.
Affected(m) == IF m.names # {} THEN m.names ELSE covers

Evaluated(m) ==
  [status |-> Status(m), missing |-> Missing(m), certificate |-> TRUE,
   margin |-> Margin(m), risk |-> m.risk, affected |-> Affected(m),
   needs |-> Status(m) # "VIABLE" \/ Risky(m)]

\* The state-change ablation replaces the estimator when the state changed.
Bypassed == [status |-> "UNCERTAIN", missing |-> {}, certificate |-> FALSE, margin |-> 0,
             risk |-> 0, affected |-> covers, needs |-> TRUE]

Forced(m) == \/ cfg.trigger = "fixed_period" /\ (epoch + 1) % cfg.period = 0
             \/ cfg.trigger = "state_change" /\ m.changed

Observed(m) == IF cfg.trigger = "state_change" /\ m.changed THEN Bypassed ELSE Evaluated(m)

\* Mutant of Unpublishable: the check's "or" and "and" grouped the other way.
UnpublishableRegrouped(r) ==
  (~r.certificate \/ r.missing # {} \/ r.status # "VIABLE") /\ r.status = "VIABLE"
\* strict_publication_mode: a report without a complete certificate. (A VIABLE
\* report that is complete is always certified safe: the third test never adds one.)
Unpublishable(r) == ~r.certificate \/ r.missing # {}

-----------------------------------------------------------------------------
\* ScopeGenerator.generate and the value of a candidate.

Truncated(S) == {e \in S : Cardinality({f \in S : f <= e}) <= cfg.max_entities}

\* A candidate is a planner with the implicated scope or with the wider one.
ScopeOf(c, r) == Truncated(IF c.wide THEN covers ELSE r.affected)
Direct(c) == [c EXCEPT !.wide = FALSE]

Candidates(r) ==
  {c \in [planner: DOMAIN Planners, wide: BOOLEAN] :
     /\ r.affected # {} /\ ScopeOf(c, r) # {}
     /\ c.wide => /\ cfg.include_global /\ cfg.max_candidates > 1
                  /\ ScopeOf(c, r) # ScopeOf(Direct(c), r)}

\* Mutant of Before: the wider scope is listed first.
BeforeWideFirst(c, d) ==
  c.planner < d.planner \/ (c.planner = d.planner /\ c.wide /\ ~d.wide)
Before(c, d) == c.planner < d.planner \/ (c.planner = d.planner /\ ~c.wide /\ d.wide)

\* _service_rate_info, estimate_hold: with no rate the expected delay is infinite.
Rate(m) == IF m.certified # None THEN m.certified ELSE m.observed
HoldCost(m) == m.work + m.other
               + IF Rate(m) = 0 THEN m.work * Stall ELSE m.work \div Rate(m)

\* _describe_planner: a planner that expects nothing is given the screening benefit.
Screening(r) == Most(0, 0 - r.margin) + r.risk
Benefit(p, r) == IF p.benefit # 0 THEN p.benefit ELSE Screening(r)

\* What holding costs beyond the candidate, over the part of the horizon that
\* the delay leaves; times Horizon, as every value below.
Gain(p, m, r) == (Horizon - Least(p.delay, Horizon)) * Least(HoldCost(m), Benefit(p, r))
Uncertainty(m) == IF m.uncertainty # None THEN m.uncertainty ELSE 0
Doubt(p, m) == Most(Uncertainty(m), IF m.cheap THEN 0 ELSE 1)
               + Most(p.uncertainty, Uncertainty(m))
Cost(c, r) == IF cfg.include_cost
              THEN Planners[c.planner].cost
                   + cfg.signal_price * Most(1, Cardinality(ScopeOf(c, r)))
              ELSE 0

\* With an infinite holding cost the gain is infinity less infinity.
Worth(c, m, r) ==
  LET p == Planners[c.planner]
  IN  IF Rate(m) = None THEN NaN
      ELSE Gain(p, m, r) - Horizon * (cfg.beta * Doubt(p, m) + Cost(c, r))

\* Comparisons with NaN are false.
Exceeds(x, y)  == x # NaN /\ y # NaN /\ x > y
\* Mutant of NonPositive: a value of zero is worth an intervention.
IsNegative(x)  == x # NaN /\ x < 0
NonPositive(x) == x # NaN /\ x <= 0

\* max(candidates, key=...): the first that no later one exceeds.
IsMaximum(c, m, r) ==
  /\ c \in Candidates(r)
  /\ \A d \in Candidates(r) \ {c} :
       IF Before(d, c) THEN Exceeds(Worth(c, m, r), Worth(d, m, r))
       ELSE ~Exceeds(Worth(d, m, r), Worth(c, m, r))

-----------------------------------------------------------------------------
Init ==
  /\ cfg \in Settings /\ covers \in SUBSET Entities
  /\ current = 1 /\ active = 1        \* the initial plan has been applied
  /\ pc = "idle" /\ epoch = 0
  /\ monitor = None /\ report = None /\ choice = None /\ decision = "none"

fixed == <<cfg, covers>>

\* on_monitor_epoch up to the report; the strict mode raises before it is kept.
Raise(m) ==
  /\ cfg.strict /\ Unpublishable(Observed(m))
  /\ pc' = "raised" /\ epoch' = epoch + 1 /\ decision' = "strict_publication"
  /\ UNCHANGED <<fixed, current, active, monitor, report, choice>>

\* The report is kept; an intervention that is forced is needed.
Take(m) ==
  /\ ~(cfg.strict /\ Unpublishable(Observed(m)))
  /\ monitor' = m
  /\ report' = [Observed(m) EXCEPT !.needs = @ \/ Forced(m)]
  /\ epoch' = epoch + 1

Keep(reason) ==
  /\ decision' = reason
  /\ UNCHANGED <<fixed, current, active, pc, choice>>

\* Nothing is recorded but the KEEP.
KeepSilently(m) ==
  /\ Take(m)
  /\ cfg.mode = "legacy_slotwise" \/ ~report'.needs
  /\ Keep("kept")

Deciding(m) == Take(m) /\ cfg.mode # "legacy_slotwise" /\ report'.needs

NothingToScope(r) == r.affected = {} /\ r.status = "UNCERTAIN"

\* decide_intervention: nothing is implicated and nothing is certain.
Hold(m) ==
  /\ Deciding(m) /\ NothingToScope(report')
  /\ Keep("empty_scope_hold_under_uncertainty")

Decline(m) ==
  /\ Deciding(m) /\ ~NothingToScope(report')
  /\ \/ Candidates(report') = {} /\ Keep("no_candidate")
     \/ \E c \in Candidates(report') :
          /\ IsMaximum(c, m, report') /\ NonPositive(Worth(c, m, report'))
          /\ Keep("voc_non_positive")

Select(m) ==
  /\ Deciding(m) /\ ~NothingToScope(report')
  /\ \E c \in Candidates(report') :
       /\ IsMaximum(c, m, report') /\ ~NonPositive(Worth(c, m, report'))
       /\ choice' = c
  /\ pc' = "planned" /\ decision' = "best_positive_voc"
  /\ UNCHANGED <<fixed, current, active>>

MonitorEpoch ==
  /\ pc = "idle" /\ epoch < MaxEpochs
  /\ \E m \in Monitors :
       Raise(m) \/ KeepSilently(m) \/ Hold(m) \/ Decline(m) \/ Select(m)

\* Mutant of Accept: the receipt's version is not taken over.
AcceptWithoutReceipt ==
  /\ pc = "planned" /\ active = current
  /\ active' = current + 1
  /\ pc' = "idle" /\ choice' = None /\ decision' = "applied"
  /\ UNCHANGED <<fixed, current, epoch, monitor, report>>
\* The patch names the controller's version as its base, and the backend
\* (which is not in this repository) takes it only if it runs that version.
Accept ==
  /\ pc = "planned" /\ active = current
  /\ current' = current + 1 /\ active' = current + 1
  /\ pc' = "idle" /\ choice' = None /\ decision' = "applied"
  /\ UNCHANGED <<fixed, epoch, monitor, report>>

\* Revalidation or the backend refuses the plan: a KEEP.
Refuse ==
  /\ pc = "planned"
  /\ pc' = "idle" /\ choice' = None /\ decision' = "refused"
  /\ UNCHANGED <<fixed, current, active, epoch, monitor, report>>

\* SatEdgeSimPhysicalBackend.reset: a new session knows no configuration, and the
\* controller is not told.
Reset ==
  /\ pc = "idle" /\ active # None
  /\ active' = None
  /\ UNCHANGED <<fixed, current, pc, epoch, monitor, report, choice, decision>>

Next == MonitorEpoch \/ Accept \/ Refuse \/ Reset

Spec == Init /\ [][Next]_vars

-----------------------------------------------------------------------------
\* Types: the report, the choice and the two versions are what the code holds,
\* and the backend never reports a version the controller has not reached.
TypeOK ==
  /\ cfg \in Settings /\ covers \in SUBSET Entities
  /\ current \in Nat /\ active \in Optional(0..current)
  /\ pc \in {"idle", "planned", "raised"} /\ epoch \in Nat
  /\ monitor \in Optional(Monitors)
  /\ report \in Optional([status: {"VIABLE", "UNCERTAIN", "INVIABLE"},
                          missing: SUBSET Evidence, certificate: BOOLEAN, margin: Int,
                          risk: Nat, affected: SUBSET Entities, needs: BOOLEAN])
  /\ choice \in Optional([planner: DOMAIN Planners, wide: BOOLEAN])
  /\ (choice = None) = (pc # "planned")
  /\ decision \in {"none", "strict_publication", "kept", "best_positive_voc",
                   "empty_scope_hold_under_uncertainty", "no_candidate",
                   "voc_non_positive", "applied", "refused"}

\* Every piece of evidence that applies to m is there, and every slack that applies
\* is at least the uncertainty beyond the tolerance.
Certified(m) ==
  LET excess == IF UncertaintyApplies(m) THEN Most(0, m.uncertainty - cfg.tolerance) ELSE 0
  IN  /\ m.cheap
      /\ UncertaintyApplies(m) => m.uncertainty # None
      /\ DeadlineApplies(m) => m.deadline # None /\ m.deadline >= excess
      /\ ContactApplies(m) => m.contact # None /\ m.contact >= excess
      /\ ServiceApplies(m) => /\ m.certified # None /\ m.horizon # None
                              /\ m.certified * m.horizon >= ServiceWork(m) + excess

\* An epoch keeps the configuration silently only while the backend runs it (or
\* runs none and is not authoritative), with slack in every constraint and all the
\* evidence that the work, or the backend's own declaration, calls for, and with
\* no performance risk beyond the threshold (certifies_keep is a reading of the
\* same report, viability.py:121, that on_monitor_epoch never consults;
\* controller.py:252). A reset between two epochs is in it.
KeepIsJustified ==
  [][epoch' # epoch /\ decision' = "kept" /\ cfg.mode # "legacy_slotwise" =>
       /\ Consistent /\ Certified(monitor')
       /\ cfg.soft => monitor'.risk <= cfg.threshold]_vars

\* A slack that applies to m was measured below zero, or an uncertainty that
\* applies is not tolerated.
Measured(m) ==
  \/ UncertaintyKnown(m) /\ m.uncertainty > cfg.tolerance
  \/ DeadlineApplies(m) /\ m.deadline # None /\ m.deadline < 0
  \/ ContactApplies(m) /\ m.contact # None /\ m.contact < 0
  \/ /\ ServiceKnown(m)
     /\ \/ m.certified * m.horizon < ServiceWork(m) + cfg.reserve
        \/ m.lifetime # None /\ m.certified * m.lifetime < ServiceWork(m) + cfg.reserve

\* A configuration is called inviable for something that was measured, while the
\* uncertainty is tolerated: beyond that the penalty is taken off the zero that
\* stands for missing evidence as well (viability.py:359-371).
InviableIsMeasured ==
  report # None /\ report.status = "INVIABLE" => Measured(monitor)

\* c's delay ends before the horizon, it is priced below what its planner expects
\* and below what holding costs, and no other candidate is worth more.
PaysBest(c, m, r) ==
  /\ Planners[c.planner].delay < Horizon
  /\ Cost(c, r) < HoldCost(m) /\ Cost(c, r) < Benefit(Planners[c.planner], r)
  /\ \A d \in Candidates(r) : Worth(d, m, r) <= Worth(c, m, r)

\* With a service rate, an intervention under way pays for itself and is the best
\* of the candidates (arbitration.py:79-92, benefit.py:237-319).
SelectionPays ==
  pc = "planned" /\ Rate(monitor) # None => PaysBest(choice, monitor, report)

Implicated(c, m, r) ==
  /\ ScopeOf(c, r) # {} /\ ScopeOf(c, r) \subseteq m.names \cup covers
  /\ Cardinality(ScopeOf(c, r)) <= cfg.max_entities
  /\ c.wide => Cardinality(ScopeOf(c, r)) < Cardinality(ScopeOf(Direct(c), r))

\* The scope of an intervention is implicated or covered and within the limit,
\* and the wider of a planner's candidates is taken only when it is the smaller:
\* the expected benefit does not depend on the scope, the signalling cost does
\* (controller.py:375-397, scope.py:525-540).
WiderOnlyIfSmaller == pc = "planned" => Implicated(choice, monitor, report)

\* In strict publication mode the lack of evidence is no reason to intervene:
\* behind an intervention is something measured, a contact that is not predictable,
\* a risk, or the fixed period. The state-change trigger, whose report has no
\* certificate, starts none (controller.py:234-262, scope.py:487-540).
StrictIntervenesOnMeasured ==
  cfg.strict /\ pc = "planned" =>
    \/ Measured(monitor) \/ Risky(monitor)
    \/ ContactApplies(monitor) /\ ~cfg.predictable
    \/ cfg.trigger = "fixed_period" /\ epoch % cfg.period = 0

\* docs/ALGORITHM_SEMANTICS_V2.md:60 "KEEP is selected when every candidate has
\* non-positive value": an intervention is under way only for a positive value.
InterventionsPay ==
  pc = "planned" => /\ Worth(choice, monitor, report) # NaN
                    /\ Worth(choice, monitor, report) > 0

\* That statement holds exactly where a service rate is known: then an intervention
\* is under way only for a positive value, and without one its value is no number.
RateDecidesValue ==
  pc = "planned" =>
    IF Rate(monitor) = None THEN Worth(choice, monitor, report) = NaN
                            ELSE Worth(choice, monitor, report) > 0

\* The evidence determines the decision: of the candidates of a report exactly one
\* is the maximum, ties and values that are no number included, so max() neither
\* depends on chance nor leaves an epoch without a decision (arbitration.py:79).
DecisionIsDetermined ==
  report # None /\ Candidates(report) # {} =>
    \E c \in Candidates(report) :
      \A d \in Candidates(report) : IsMaximum(d, monitor, report) <=> d = c

\* scope.py:526 "Missing provenance must not be converted into an implicit global
\* refresh": nothing is planned by the viability trigger when the monitor names no entity.
NoImplicitRefresh ==
  pc = "planned" /\ cfg.trigger = "viability" => monitor.names # {}

\* What it is converted into: an intervention for a monitor that names nothing, or
\* one the state change asked for, takes the whole of what is covered up to the
\* limit, and never as the wider candidate, so include_global does not switch it off.
RefreshIsWhole ==
  pc = "planned" /\ (monitor.names = {} \/ ~report.certificate) =>
    ~choice.wide /\ ScopeOf(choice, report) = Truncated(covers)

=============================================================================
