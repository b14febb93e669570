# A verification project for TriSatFlow

TriSatFlow decides when a satellite edge-computing system should re-plan how
tasks are offloaded, and by how much. An *endogenous replanning controller*
holds a persistent configuration (assignments, reusable rules, resource shares,
routes, priorities), watches a simulator (SatEdgeSim, a Java service reached over
HTTP) through cheap monitor epochs, and intervenes only when a viability
certificate no longer covers the configuration. An intervention costs simulated
time, is restricted to a *modification scope*, is revalidated after its own
decision delay and is sent to the simulator as a versioned delta. One of the planners
it can call is learned: a two-layer agent trained in a simulated
GEO/LEO/ground environment.

The project models the three places where the program's own logic is: the protocol
between the controller and a server whose answers get lost and whose world keeps
moving; the decision an epoch takes and the evidence it takes it on; and the
environment and the training loop behind the learned planner. Everything below
refers to files under `src/`.

## 1. Inventory

| Part | State it keeps | Operations | Interacts with |
|---|---|---|---|
| `trisatflow/control/controller.py` | `current_configuration`, `context`, `clock`, `metrics`, last monitor and report | `initialize`, `on_monitor_epoch`, `decide_intervention`, `select_scope_planner_budget`, `execute_intervention`, `dispatch_under_current_configuration`, `run` | calls planners, viability, arbitration, and the backend by blocking HTTP requests |
| `control/decision_delay.py` | none | `estimate`, `enforce`, `revalidate` | `advance_*`, `current_time`, `validate_configuration` |
| `control/viability.py`, `scope.py`, `benefit.py`, `arbitration.py`, `decision_cost.py` | dual prices nobody reads | `evaluate`, `generate`, `estimate_*`, `choose`, `update` | called in a monitor epoch |
| `adapters/satedgesim_client.py` | the last monitor and planner state (a cache `current_time` answers from), capabilities | one method per endpoint | the Java backend |
| the backend (outside the repository) | active configuration and version, simulation time, stopped or running | `/configuration/{apply,patch,validate,dispatch}`, `/control/epoch/{advance,resume}`, `/advance_world`, monitor and planner states | answers requests |
| `planners/greedy_planner.py` | none | `plan` | reads the configuration and candidates |
| `control/persistent_configuration.py` | tables | `diff`, `materialize_execution_rule` | used by controller, planners, adapter |
| `control/metrics.py`, `control/types.py` | counters, lifetimes, clock | `record`, `add_lifetime`, `advance`, `mark_*` | written by the controller |
| `envs/geo_leo_ground_env.py`, `action_masks.py`, `mask_predictors.py`, `mask_noise.py`, `physical_model.py` | queues of the satellites and of the remote targets, slot, two mask caches | `reset`, `step` | stepped by the trainer |
| `agents/hierarchical_trainer.py`, `mappo_upper.py`, `upper_variants.py`, `maddpg_lower.py`, `replay.py`, `models/gnn.py` | rollout, replay ring, encoder history, update counters, networks | `train`, `act`, `update`, `add`, `sample` | step the environment, share an encoder |
| `satedgesim_eval`, `baselines`, `analysis`, `scripts`, vendored `benchmarl` | result files | evaluation, statistics | the controller's planner interface |

What is hard here, and what should hold:

* **Lost and late calls.** A patch may be executed after the client gave up on it.
  Versions must still identify contents, and a plan made from an outdated view
  must never be activated.
* **A world that moves between any two calls.** A plan must not be activated before
  its decision delay has passed, and must be activated exactly as it was projected
  although only a delta travels.
* **A world that is stopped.** At a control epoch the backend waits for the
  activation. Every way an epoch can end has to let it run again.
* **Evidence.** A configuration may be kept without a word only on complete evidence;
  missing numbers must not turn into safe ones, nor into violations, and an
  intervention has to be worth what it costs.
* **Two views of one entry.** The scope check, the projection and the execution of
  rules identify table entries by different strings; what is outside a scope must
  stay frozen and execution must follow the planner.
* **Books.** Counters, clock and lifetimes are written in different places and must
  agree, exceptions included.
* **Masks behind two caches.** A policy must be judged by the mask it acted under and
  never be served out of view, although masks are predicted, noisy, stale and cached
  across episodes; and no cycle of work may be counted twice.
* **Two learners on two cadences.** Updates are skipped, stopped early and share an
  encoder; each must train on the data it is meant for.

`PROJECT.json` lists every component with its status and every hazard with the line
where it bites.

## 2. Modules

| Module | Models | Extended or used by |
|---|---|---|
| `VersionedConfiguration` | abstract specification: an optimistically locked register and the controller's view of it | `ReplanningController` (refinement) |
| `ReplanningController` | one monitor epoch after the other, cut at each backend call; adapter cache; patch channel; the backend's side as far as the client relies on it | `MCReplanningController`, proofs |
| `ScopeProjection` | configuration tables, greedy proposals, scope check, projection, execution of rules | `MCScopeProjection`, proofs |
| `InterventionDecision` | what one epoch decides: viability report, candidate scopes, values, choice | `MCInterventionDecision`, proofs |
| `ControlLedger` | clock, counters, lifetimes over every way an epoch ends | proofs |
| `GeoLeoEnvironment` | the offloading environment: queues, masks, predictions, caches | `MCGeoLeoEnvironment`, proofs |
| `TrainingSchedule` | the training loop: buffers, history, PPO epochs, cadences | `MCTrainingSchedule`, proofs |
| `*_proofs` | the theorems | |
| `NumberLemmas` | lemmas only: quotients and remainders by a parameter, least numbers, induction over a set of numbers | the proofs of the decision, the environment and training |

### ReplanningController

`pc` names the backend call that comes next, because between two calls the world
may move; within one action the Python code runs without a pause. The table reads
from the state to the code:

| State | Code |
|---|---|
| `current`, `context`, `inten`, `clock`, `epoch` | `current_configuration` (version and bindings), `context.current_config_version`, `clock.intervention_epoch`, `clock.physical_time_sec`, `clock.monitor_epoch` |
| `job` | the locals of `execute_intervention`: scope, plan (then projected plan), `planned_at`, requested delay, `before`, the receipt's delta and `accepted`, the pause flag, the revalidated world token |
| `cached`, `observed` | whether the adapter's `_last_state` is filled, and the time in it |
| `active`, `time`, `paused` | the backend |
| `wire`, `reply` | patches sent and not yet executed; the receipt the caller waits for |

One action per step: `StartEpoch`, `Keep`/`Select` (monitor answer, viability and
arbitration), `Dispatch`, `Plan`, `NoDelay`/`Advance`/`AdvanceRefused`/
`AdvanceAnswerLost`, `UnverifiedRaises`/`OutOfScopeRaises`/`Measure`,
`ValidateAccepted`/`ValidateRefused`/`ValidateRefusedPaused`, `Resume` and its
failures, `SendPatch`, `ReceiveAccepted`/`ReceiveRefused`/`PatchTimeout`, `CallFails`.
Only the patch is split into sending, executing and receiving: it is the one call
that changes what the controller reasons about, so its delay and loss matter. Other
calls are a single action plus, where they have an effect, a variant whose answer
is lost.

Abstractions. A configuration is a version and one function from entities to values
(the seven tables and their key formats are `ScopeProjection`'s subject). World
versions are compared only for equality and are represented by the world's time.
Whether a configuration is worth keeping, and which candidate wins, is left open
(`Keep` or `Select` with any scope). Planners return any successor, within
their scope if `ScopedPlanners`. The tolerance of the delay comparison is zero. What a
verdict on the delay rests on is a choice where reads may fail (`Evidence`): the two times, the
delta in the receipt, or, when neither can be had, the receipt's own flag
(`decision_delay.py:126-144`).

Assumptions on the backend (definitions marked External; they are what
`docs/SATEDGESIM_BACKEND_CONTRACT.md` and the client's calls rely on): a patch
applies only to the base version and the world it names, and then raises the version
by one; a validation passes only for the active base; an accepted patch and a resume
let the world run; a patch that is refused does not. A full apply is atomic and takes over
the version it is given.

### ScopeProjection

A key is a prefix (`""`, `task:`, `source:`) and an id, which is all the code looks
at. `Propose` is what `GreedyPlanner.plan` writes for the sources it rebinds and for a
candidate without a source; scores and most budgets only decide which candidates are
chosen, and the choice is free. `max_scope_entities` narrows the scope the planner works
with (`Narrowed`), while the check and the projection keep the full one. `InScope` and `Project` are the two functions of
the controller, `Materialize` the execution rule for a source's tasks.

### ControlLedger

An epoch is the monitor step, possibly a delay, one of its ends (kept, stale, refused,
activated, or raised before anything is recorded) and, after a recorded KEEP, possibly the
dispatch of a task, which can raise as well. `Init` is what `initialize()` leaves: the
clock synchronised before the first configuration, and that configuration applied at the
clock's time or, if it is the empty one, at none. `Synced` is `_sync_clock`, whose reading may
fail (`Unreadable`). History variables count the ends; the program's counters are compared
with them.

### InterventionDecision

`ReplanningController` leaves open whether an epoch keeps or selects; this module is
that choice. `Evidence`, `Margin`, `Status`, `Risky` and `Evaluated` are
`ConservativeViabilityEstimator.evaluate`; `Affected`, `ScopeOf` and `Candidates` are
`ScopeGenerator.generate` and the loop over planners; `HoldCost`, `Gain`, `Doubt`, `Cost` and
`Worth` are the value of a candidate; `IsMaximum` is `max()`, which takes the first of
equals. The actions are the exits of `on_monitor_epoch` and `decide_intervention`:
`Raise` (strict publication mode), `KeepSilently`, `Hold`, `Decline`, `Select`, then
`Accept` or `Refuse` for what the other module models in full, and the adapter's `Reset`.
Which evidence a report calls for is derived from the work and its phases, unless the
backend declares it: `waived` and `claimed` are the `*EvidenceApplicable` fields it may send
(`satedgesim_client.py:557-568`), and the estimator obeys them (`viability.py:251`, `304`, `318`).
`authoritative` is the flag without which a backend that reports no configuration is
believed to run the controller's (`viability.py:697-706`).

Abstractions. A scope is a set of numbers in the order in which `truncate` takes entities.
Quantities are whole multiples of a half, values of candidates are multiplied by the
horizon, so that all arithmetic is on integers; `NaN` is a value of its own with the
comparisons of floating point. Left out, with the reason: dependency expansion
(`evaluate` never supplies a `dependency_graph`), the weighting of risk components (one
number here), the learned performance profile, the ablations `global_only`, fixed
scope, always-high-fidelity and heuristic multiplier, and the dual prices, which
`ResourceBudgetState.update` writes and no decision reads.

### GeoLeoEnvironment

`queue`, `geo_queue`, `ground_queue`, `t` are the attributes of the same names; `predictions` and
`masks` are `_mask_prediction_cache` and `_action_mask_details_cache`. `Reset` and `Step` are
`reset()` and `step()`, whole: serve behind the mask, move the residual, let work
arrive, clamp, read the mask to report, observe the next slot. A mask is built by
`Layered` from `VisibleAt` and `Predicted`; `MasksFor` is the cache. `owed`, `handed` and `last` are
history variables: the work a satellite is owed, what was left at a neighbour, and
what the last step saw.

Abstractions. Work is counted in cycles. Orbits, link lifetimes and paces are
constants; a noise rate strictly between 0 and 1 is a choice of any subset, and noise on the
completion times or link lifetimes a choice of the safe sets, ordered as the margin orders them; the
capacity of the chosen target is a choice. Rewards, energy and the virtual delay queue
are written by `step()` and read by nothing that is modelled. Mask sources are the two
that need no trace file.

### TrainingSchedule

A transition is its number, an observation the transition it opens, a network the
number of optimizer steps it has taken. `pc` follows one iteration of
`HierarchicalTrainer.train()`: `StartEpisode`, `Act` per slot, then `SkipUpper`, `StartPPO` with one
`Minibatch` per optimizer step, or `ValueUpdate`, then `SkipLower` or `LowerUpdate`. `storage` and `pos`
are the replay ring, `history` the temporal encoder's memory, `rollout` the
transitions of the episode with the context and the network each was acted with.
Losses and gradients are one optimizer step each; rewards and values are small
integers, which is enough for the returns to be told apart. Left out:
`_update_legacy_compact` and `flat_hybrid_trainer.py`.

## 3. Runs

| Run | Question | Instance |
|---|---|---|
| `nominal_epochs` | Does every epoch end, does the world always run again, does a task run under what the backend executes, is the register implemented with its liveness? | 2 entities, 2 values, 2 scopes, delay 0 or 2, 2 epochs, drift before time 2; no faults |
| `faulty_epochs` | What survives lost calls, late patches, refusals, short advances and planners that leave their scope? | delay 0 or 1, 3 epochs, all fault switches on |
| `decision` | Is what is kept certified, what is inviable measured, what is selected worth it? | 3 entities, 3 planners, 11 configurations, 23 monitors, 2 epochs |
| `scoped_intervention` | Is what lies outside the scope frozen, and does execution follow the plan? | 2 sources, 1 node, 2 interchangeable targets (symmetry), 3 scopes with what they narrow to, 2 interventions |
| `books` | Do the counters and lifetimes add up? | delays up to 2, drift up to 1 between calls, 4 epochs, activation with a moving world, readings of the time that may fail |
| `offloading` | Is work counted once, is the mask reported the mask faced, is nothing served out of view? | 2 satellites, 2 episodes of 2 slots, 4 scenarios (measured; stale; stale and noisy in the completion time, with false positives; legacy and noisy in the link lifetime, with false negatives) |
| `training` | Do the buffers hold what they should, is PPO on policy, does training end? | 4 episodes of 3 steps, a ring of 4, 5 configurations |
| `refused_patch_pause`, `short_advance`, `missing_rate`, `implicit_refresh`, `vanished_work` | five statements of the repository's own text that the code does not meet; see section 6 | as small as shows it |

Why the bounds are enough. Two entities let one be inside and one outside a scope, two
values let a binding change or stay. Three epochs are what a late patch needs: one
to send it, one to plan from the outdated view, one to meet its effect. A delay of
zero takes the path without a stop, a positive one the path with it; `MaxTime`
limits only how far the world drifts by itself, not the advances. Two interventions
let the second meet the rules the first left behind. In `decision` the monitors differ
from a safe one in each thing that can decide (a slack below zero, a piece of
evidence missing, waived or claimed by the backend, work that waits on the network alone,
doubt inside and beyond the tolerance, no name, no rate, idle), and
the settings in each trigger, limit and price and in whether the backend is authoritative;
a second epoch meets a backend that was
reset or moved on. In `offloading` a second episode meets the masks the first one left;
arrivals of two against a capacity of one leave residuals, a buffer of three
overflows. In `training` the ring wraps in the second episode and
is left in the middle by the third; four episodes are two rounds of every cadence. The
theorems of section 5 drop all of these bounds.

Deadlock is checked in `nominal_epochs`, `faulty_epochs`, `scoped_intervention` and `books`; there the
only terminal states are those of `Finished`, after the last epoch of `run()`. It is not
checked in `decision` (strict mode raises, which ends the run, and `run()` stops after its
epochs), nor in `offloading` and `training`, which stop after their episodes.

Fairness. `FairSpec` of the controller asks for weak fairness of `EpochStep`, because
`on_monitor_epoch` is straight-line code and every request returns or times out
(`satedgesim_eval/client.py`, the timeout of `_request`), and of `ServerStep`, because the
backend executes what it receives. Nothing obliges a caller to start an epoch or
the world to move. `TrainingSchedule` asks for weak fairness of `Next`: `train()` is a loop of one
thread that waits for nothing.

## 4. What the properties say

* `SameVersionSameContent`: equal versions mean equal bindings, and the backend is at
  most one version ahead. This is why a delta is enough.
* `NoActivationWhileSplit`: once a receipt was lost and the controller is a version
  behind, no later plan of its is activated, and its own view and intervention count do
  not change either: it stays behind, because the code has no operation that reads the
  active configuration back.
* `AppliedIsPlanned`: what an accepted receipt reports is the projected plan.
* `InterventionsAreVersions`: counted interventions are activated versions.
* `EpochSeesCurrent`: the version in the context is the configuration in force,
  although `_apply_backend_configuration` writes the version of a refused plan there.
* `NoEarlyActivation`: a patch leaves only after the decision delay, counted from the
  snapshot the plan was made from. One case is excepted, and has to be: where neither the
  times nor a delta could be read, the code takes the receipt's word
  (`decision_delay.py:143-144`), so a backend that advances less than it was asked to gets
  its patch early.
* `DispatchUnderActive`, `IdleWorldRuns`, `EpochEnds`, `PauseEnds`: see the table of runs.
* `ImplementsSafely`, `Implements`: the controller implements `VersionedConfiguration`,
  with `active` for the store and `current` for the view; with fairness, the view
  catches up with the store.
* `KeepIsJustified`: in the epoch of a silent KEEP the backend runs the configuration that
  is kept (or, when it is not authoritative, reports none), there is slack in every
  constraint, doubt included, and every piece of evidence is there that the work or the
  backend's declaration calls for, although `on_monitor_epoch` never reads `certifies_keep`.
  It is a property of the step, so that it meets a reset between two epochs. Evidence the
  backend waives is not asked for: with work under way it can have a configuration kept
  that nobody looked at the deadlines of.
* `InviableIsMeasured`: a configuration is called inviable for a measured violation
  or for doubt beyond the tolerance, never for missing evidence within it.
* `SelectionPays`: an intervention under way ends its delay before the horizon, costs
  less than holding and than what its planner promises, and is the best candidate.
* `WiderOnlyIfSmaller`: the wider scope wins only when truncation makes it the smaller
  one: expected benefits do not depend on the scope, the signalling price does.
* `StrictIntervenesOnMeasured`: in strict publication mode an intervention has a measured
  violation, doubt beyond the tolerance, an unpredictable contact, a risk or the fixed period
  behind it. That missing evidence stops the run is one guard; that everything else that
  can call for an intervention then is one of these takes the report, the triggers and the
  scopes together, and excludes the state-change trigger altogether.
* `OutsideScopeFrozen`, `ExecutionFollowsPlan`, `GreedyScopedUnlessDefault`: scopes bind, and a
  source executes where the planner decided. The greedy planner leaves its scope by the
  default rule, and with a budget of no entities, see section 6.
* `EpochsAccounted`: every monitor epoch is recorded once, as a KEEP or a replan, unless it
  raised before it was decided; one whose dispatch raised is a recorded KEEP without a
  dispatch (`controller.py:254-256`, `260-261`). The property takes the code's counting as it is: a
  refused patch is among the KEEPs, a stale plan counts twice as rejected, so the two
  can still be told apart.
* `LifetimesDisjoint`: the lifetimes fit between the first and the last `applied_at`, and from
  the first intervention on also together with the age of the configuration in force.
  Before that the age is the time since time 0, whenever the configuration was applied.
* `WorkAccounted`: owed work is in the source's queue, at GEO, on the ground or left at
  a neighbour. `ServedWhereVisible`: no prediction, noise, staleness or fallback opens a
  target out of view. `MaskReportedIsMaskFaced`; `StalenessAlternates`: staleness `k` delays
  only every second block of `k` slots. `PlainMaskIsSlotFunction`: without predicted layers
  the mask cache that survives `reset()` is harmless.
* `ReplayIsWindow`, `OnPolicyRollout`, `ContextIsWindow`, `ReturnsAreTargets`,
  `EpochsUseEachStepOnce`, `CountersFollowCadence`, `TrainingEnds`.

Stated for the theorems of section 5 only (each was checked by TLC on the instance of the
module's passing run, `LifetimesExact` with `FreeRunning` and `Unreadable` off, and `WaiterIsServed`, `EpochDescends`
and `ActivationOutdates` with faults, but is in no run's configuration):

* `ActivationOutdates`: of the patches under way with one base at most one takes effect.
  `WaiterIsServed` and `EpochDescends`: a waiter's request is not lost track of, and an
  epoch passes no control point twice; the progress half of `EpochEnds`.
* `RateDecidesValue`, `RefreshIsWhole`, `WorkKeptUnlessHanded` say where exactly three of the
  statements that section 6 refutes still hold: a value is positive where a rate is known;
  a refresh nobody asked for is the narrow candidate over all that is covered, so
  `include_global` does not switch it off; work is lost only at a neighbour of the
  physical simulator. `DecisionIsDetermined`: exactly one candidate is the maximum, with
  ties and NaN.
* `MasksArePlayable`: no layer, prediction or noise draw leaves a satellite without an action
  its architecture has.
* `CheckGuardsDefault`: for the greedy planner the scope check comes down to the default
  entries, if its budget leaves it an entity. `RulesAreFinal`: no intervention changes a
  prefixed or a default entry, so the reusable rules it proposes are never active.
* `LifetimesExact`: in a world that is stopped during activations and whose time can be read
  the lifetimes leave no gap, and from the first intervention on the age is exact.
* `TrainingRunsOut`: every step of `train()` uses up one of at most `StepsAhead` steps.

## 5. What is proved

TLAPS proves, for every value of the constants that meets the modules' named
assumptions, the type invariant of each module and:

* of the controller, for every setting of the fault switches: `SameVersionSameContent`,
  `InterventionsAreVersions`, `AppliedIsPlanned`, `NoActivationWhileSplit`, `ActivationOutdates`,
  `EpochSeesCurrent`, `NoEarlyActivation`, `WaiterIsServed`, `EpochDescends`,
  `ImplementsSafely`; without short advances `VerifiedDelayIsPhysical`; and under `Nominal`
  (planners in scope, no refusal, no lost call, no short advance) `IdleWorldRuns` and
  `DispatchUnderActive`;
* of the decision: `KeepIsJustified`, `InviableIsMeasured`, `SelectionPays`, `WiderOnlyIfSmaller`,
  `StrictIntervenesOnMeasured`, `RateDecidesValue`, `DecisionIsDetermined`, `RefreshIsWhole`;
* of scope projection: `OutsideScopeFrozen`, `GreedyScopedUnlessDefault`, `ExecutionFollowsPlan`,
  `CheckGuardsDefault`, `RulesAreFinal`;
* of the books: `EpochsAccounted`, `LifetimesDisjoint`, `LifetimesExact`; of the register:
  `AtMostOneBehind`;
* of the environment: `WorkAccounted`, `WorkKeptUnlessHanded`, `MaskReportedIsMaskFaced`,
  `MasksArePlayable`, `ServedWhereVisible`, `StalenessAlternates`, `PlainMaskIsSlotFunction`;
* of training: `ReplayIsWindow`, `OnPolicyRollout`, `EpochsUseEachStepOnce`, `ContextIsWindow`,
  `CountersFollowCadence`, `ReturnsAreTargets`, `TrainingRunsOut`.

The argument for versions (`VersionInv`): every request on the wire was made from a
version the controller has already had (`RequestInv`), so when the backend is one
ahead none of them names its version and all are refused; the request of the epoch
under way carries the delta from the current bindings to the plan, and a delta
applied to its base gives the plan (`DeltaRealises`); a receipt waiting to be read
holds what is active (`ReceiptInv`). `SameVersionSameContent` alone is not inductive: it
says nothing of the patches still under way, whose execution is what could break it.

The argument for time (`TimeInv`): the clock and the cache never run ahead of the
world, and from the monitor answer to the advance the cache holds exactly the
snapshot the plan was made from; so `before` is at least `planned_at`, and `after -
before` bounds `after - planned_at` from below. This is also why `VerifiedDelayIsPhysical`
fails while `NoEarlyActivation` holds: the drift since the snapshot counts. The flag of a
receipt bounds nothing; there the property rests on the backend (`ShortAdvance` off). With a backend
that advances what it is asked to, the measured move is the requested delay itself
(`PhysicalInv`), and the property holds again.

The argument for an end of every epoch: `StepsLeft` numbers the control points, every action
of an epoch lowers it or stays where the backend acts, and the request of the epoch under
way leaves the wire only with a receipt (`WaiterIsServed`). Fairness then has something to
act on at each point; that last step is liveness and stays with TLC.

The argument for a running world (`NominalInv`): without faults the controller and the
backend agree on the version whenever no patch is under way, the world is stopped
only between an accepted advance and the answer to the patch or the resume, and the
job's pause flag says so; the only exits of an epoch from there are accepted
patches and resumes.

The argument for a justified KEEP (`ViableIsCertified`): a margin is negative exactly when one
of the applicable slacks is below the penalty (`MarginSign`), and a report that needs no
intervention is viable, so nothing that applies is missing; the rest unfolds each slack. For
inviability the same lemma is read the other way. In strict mode the report is complete, so
one that calls for an intervention without a negative margin is uncertain for its contact,
risky or forced (`StrictReason`). For the choice: a value is
positive only if the delay leaves part of the horizon and the gain there exceeds the
price (`PositiveLeaves`, which needs that a product of naturals is at least each factor);
planners are ordered, so the wider candidate can beat the direct one of the same
planner, which is listed first, only by a lower price, that is by a smaller scope
(`TruncatedBound`, `TruncatedNonEmpty`, `SelectedIsImplicated`). That there is exactly one
maximum (`MaximumExists`, `MaximumIsUnique`): values are bounded, so the greatest value
exists by `LeastNumber`, and of the candidates that have it the first in the order of
planners is the one; where there is no rate all values are NaN and the first candidate
is the maximum.

The argument for scopes: until it is activated, a proposal is what the greedy
planner wrote for the configuration still in force (`ProposalInv`); from there, one
lemma gives its entries and another those of the projection. A prefixed key is never
contained in a scope, and the default id is in none (`ScopesAssumption`), which gives
`RulesAreFinal`. The argument for lifetimes
(`LifetimesInv`): an activation is timed at the controller's clock, which never runs ahead of
the world, and the receipt is never earlier.

The argument for masks: every cached mask lies in view if the visibility layer is on
(`MasksInView`), because layers only intersect and the fallback adds local execution; and
the mask of the current slot is cached before `step()` can be called, so both readings
in `step()` hit the cache. For work: the two residuals and what is served split the backlog
(`Residuals`); a mask only names what the architecture has (`LayeredPlayable`), so without the
neighbour tier, or without the physical simulator, nothing is ever handed over. For staleness (`StaleCaches`): the first episode fills the mask cache slot by
slot, the prediction cache holds exactly the slots of the fresh blocks, and so slot `s`
finds an answer `k` slots back exactly if its own block is a stale one (`BlocksAlternate`);
later episodes find every mask cached, which is why nothing need be known of the
prediction cache then. For plain masks (`PlainMasks`): the layers ignore the prediction, so
the cached mask is a function of the slot.

The argument for training (`Ring`, `Collected`, `OnPolicy`, `EpochState`): cell `i` of a full ring holds the
only number in the window that is congruent to it, which one write moves by one;
while an episode is collected no optimizer step is taken, so all its steps carry the same
network; a minibatch moves steps from `left` to used. For contexts (`HistoryIsWindow`): the
history is the end of the observations so far, and forgetting before or after adding is
the same (`LastAppend`). For the counters (`Cadence`): in each phase they are those of the
last complete upper and lower phase plus the steps since; `LowerMetAfterPretraining` is the
arithmetic of a cadence of which the first multiples fall into the pretraining.

The argument for returns (`GaeTargets`): `Gae` is a recursive function over the positions
of a rollout, and its targets are compared with rewards to go, a second recursive function.
`BackwardRecursion` shows that such a definition has a value at every position, and
`BackwardInduction` that two functions which agree at the end and step alike agree
everywhere; both rest on `SetInduction`, which is induction over a set of numbers, taken
from the least element of its complement (`LeastNumber`), and so needs no operator as a
parameter. The only rollout it is applied to is one whole episode (`OnPolicy`), whose last
step alone is done.

The argument for an end of training (`TrainingIsFinite`): an update under way has a step left
to do (`UpdateHasWork`), every minibatch takes at least one sample from `left` or opens the
next of finitely many epochs, and an episode passes through each phase once.

Only model-checked: liveness, that is `EpochEnds`, `PauseEnds`, `TrainingEnds` and the fairness
half of `Implements`; the prover handles neither `ENABLED` nor the rule for weak fairness.
For the first and the third the measures above are what remains to be combined with it.

## 6. Disagreements found

Each is shown by a run:

1. A refused patch leaves a stopped world stopped (`refused_patch_pause`): the branch at
   `controller.py:535` returns without the resume that the stale-plan branch performs.
2. A delay counts as physically verified although the backend advanced less
   (`short_advance`): `before` is the cached monitor time, which
   `satedgesim_client.py:267` says must not be used as proof.
3. Without a service rate every candidate's value is NaN, which is not `<= 0`: the first
   candidate is selected as `best_positive_voc` (`missing_rate`).
4. A monitor that names no entity is answered with everything the configuration covers
   (`implicit_refresh`), which the comment at `scope.py:525` excludes.
5. What a neighbour does not serve of an offload is in no queue (`vanished_work`), against
   the comment at `geo_leo_ground_env.py:335`.

Met while modelling, described by the models and not shown by a run of their own:

* the reusable rule proposed with an assignment is dropped by the projection, because the scope
  check strips `source:` and the projection does not (`controller.py:966` and `994`);
  execution still follows the plan (`ExecutionFollowsPlan`);
* a new default rule of the greedy planner passes no modification scope
  (`greedy_planner.py:137`);
* a refused patch is recorded and counted as KEEP, which the comment at
  `controller.py:536` says it must not be, and a stale plan is counted twice;
* with times that cannot be read and no delta in the receipt, the receipt's `accepted` alone
  makes a delay verified (`decision_delay.py:143-144`), although
  `docs/SATEDGESIM_BACKEND_CONTRACT.md:64` accepts it "only when before/after backend time
  verifies the requested delta" and `docs/CONTROL_PLANE_SEMANTICS_AUDIT.md:63-67` asks for the
  times or a structured receipt of at least that delta;
* the age of the first configuration counts from time 0, because `initialize()` synchronises
  the clock and resets nothing (`controller.py:170`, `types.py:114-120`);
* a dispatch that raises leaves its epoch recorded as a KEEP and the task undispatched;
* `max_scope_entities = 0` truncates every scope to the empty one, which the greedy planner
  reads as no restriction (`greedy_planner.py:72`, `122-125`); the scope check then raises;
* doubt beyond the tolerance together with missing evidence gives INVIABLE rather than
  UNCERTAIN, because the penalty is taken off the zero that stands for the missing margin;
* the branch `certificate_safe_keep` of `decide_intervention` is not reachable from
  `on_monitor_epoch`;
* after the adapter's `reset()` every patch names a version the backend does not run, and no
  epoch certifies the configuration unless the backend is not authoritative: the
  controller does not recover by itself;
* the mask cache survives `reset()`, so predicted masks of an earlier episode's queues are
  reused, although the comment at `geo_leo_ground_env.py:98` says that what depends on
  queues is not cached.

## 7. Plan and what is not modelled

Built: the register, the controller's protocol, scope projection, the ledger, the
decision, the environment, the training schedule. What would come next:

1. `ControllerSession`: capability detection, backends without patch or control-epoch
   capability, the full-apply path, the task queue of `run()`.
2. `PatchEncoding`: `_configuration_patch_changes` and `_configuration_from_receipt` on tables,
   refining the delta of `ReplanningController`.
3. `ExecutionRule`: selectors and specificity against a reference order.
4. The flat hybrid trainer and the compact update as variants of `TrainingSchedule`.

Worth proving next: that a world left stopped at the end of an epoch was stopped by a refused
patch or an exception and by nothing else (the exact form of `IdleWorldRuns`), and that the
replay ring implements a bounded queue.

Not modelled, and why: the gradients, losses and networks of the agents (real-valued
optimisation; the schedule shows which networks and contexts an update and an action
have, but not the re-encoding of a rollout at `mappo_upper.py:90`, whose effect is on the
ratios); the orbits, rates, energy and rewards of the environment (real-valued functions of the slot); baselines
and oracles (stateless rules over one observation); statistics, figures, reports and the
scripts around them (offline passes over result files, half of the repository's lines);
static configuration validation, trace manifests and hashing (no state); the frozen-policy
evaluation (one pass over an episode, apart from its HTTP client); vendored BenchMARL.

## 8. Running

In this directory: `tlc -config ctl_nominal.cfg MCReplanningController` (or another pair of
`PROJECT.json`'s runs) and `tlapm ReplanningController_proofs.tla`. Definitions whose comment
starts with "Mutant of" are deliberately wrong variants of a definition;
`PROJECT.json` names the property each of them violates when it takes that definition's place.
They are used by no specification.
