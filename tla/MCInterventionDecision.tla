------------------------ MODULE MCInterventionDecision ------------------------
(* Three entities, three planners, and monitors that differ from a safe one  *)
(* in what can decide: a slack, a piece of evidence, a name, the risk.       *)
EXTENDS InterventionDecision

MCEntities == 1..3

Safe == [work |-> 2, ready |-> None, waived |-> {}, claimed |-> {}, certified |-> 2, observed |-> 2, horizon |-> 4,
         remote |-> TRUE, contact |-> 2, lifetime |-> 3, deadline |-> 2, uncertainty |-> 0,
         risk |-> 0, other |-> 0, cheap |-> TRUE, changed |-> FALSE, names |-> {2}]

MCMonitors ==
  {Safe,
   [Safe EXCEPT !.deadline = -2, !.names = {1, 2}, !.changed = TRUE],
   [Safe EXCEPT !.deadline = -4, !.names = {1, 2, 3}, !.other = 6],
   [Safe EXCEPT !.certified = 0, !.contact = -1, !.names = {1, 3}],
   [Safe EXCEPT !.work = 6, !.lifetime = 1, !.names = {1, 2, 3}],
   [Safe EXCEPT !.uncertainty = 3],
   [Safe EXCEPT !.uncertainty = 1, !.deadline = 0],
   [Safe EXCEPT !.uncertainty = 3, !.contact = None, !.deadline = 9],
   [Safe EXCEPT !.certified = None, !.lifetime = None, !.contact = None],
   [Safe EXCEPT !.certified = None, !.observed = None, !.names = {}],
   [Safe EXCEPT !.deadline = -4, !.uncertainty = None, !.names = {3}],
   [Safe EXCEPT !.horizon = None, !.remote = FALSE],
   [Safe EXCEPT !.deadline = None, !.ready = 0, !.certified = None],
   [Safe EXCEPT !.risk = 3, !.changed = TRUE, !.names = {1, 2}],
   [Safe EXCEPT !.work = 0, !.risk = 3, !.names = {}, !.contact = -3, !.deadline = None],
   [Safe EXCEPT !.work = 0, !.certified = None, !.observed = None, !.risk = 3],
   [Safe EXCEPT !.cheap = FALSE, !.deadline = -3, !.names = {1, 2}],
   [Safe EXCEPT !.work = 0, !.names = {}],
   [Safe EXCEPT !.waived = {"deadline", "uncertainty"}, !.deadline = None,
                !.uncertainty = None],
   [Safe EXCEPT !.waived = {"service"}, !.certified = None, !.deadline = -1],
   [Safe EXCEPT !.ready = 0, !.claimed = {"service"}, !.certified = None],
   [Safe EXCEPT !.work = 0, !.ready = 9, !.claimed = {"uncertainty"}, !.uncertainty = 2],
   [Safe EXCEPT !.work = 9, !.ready = 1]}

Plain == [mode |-> "endogenous", strict |-> FALSE, trigger |-> "viability", period |-> 1,
          tolerance |-> 1, reserve |-> 0, threshold |-> 1, soft |-> TRUE,
          predictable |-> TRUE, authoritative |-> TRUE, max_entities |-> 2, include_global |-> TRUE,
          max_candidates |-> 4, beta |-> 0, include_cost |-> TRUE, signal_price |-> 1]

MCSettings ==
  {Plain,
   [Plain EXCEPT !.strict = TRUE, !.max_entities = 3],
   [Plain EXCEPT !.strict = TRUE, !.trigger = "state_change", !.beta = 1],
   [Plain EXCEPT !.strict = TRUE, !.trigger = "fixed_period", !.period = 2,
                 !.soft = FALSE],
   [Plain EXCEPT !.trigger = "fixed_period", !.period = 2, !.max_entities = 3,
                 !.reserve = 1],
   [Plain EXCEPT !.trigger = "state_change", !.max_entities = 1, !.soft = FALSE],
   [Plain EXCEPT !.include_cost = FALSE, !.tolerance = 0, !.max_entities = 3],
   [Plain EXCEPT !.beta = 1, !.include_global = FALSE, !.predictable = FALSE,
                 !.authoritative = FALSE],
   [Plain EXCEPT !.max_candidates = 1, !.max_entities = 0],
   [Plain EXCEPT !.max_entities = 3, !.signal_price = 0, !.threshold = 3],
   [Plain EXCEPT !.mode = "legacy_slotwise", !.trigger = "fixed_period"]}

\* A quick planner that is given the screening benefit, and two slower ones
\* whose benefit is known, one of it uncertain.
MCPlanners == << [benefit |-> 0, uncertainty |-> 0, delay |-> 0, cost |-> 0],
                 [benefit |-> 5, uncertainty |-> 1, delay |-> 2, cost |-> 1],
                 [benefit |-> 9, uncertainty |-> 0, delay |-> 4, cost |-> 0] >>

=============================================================================
