------------------------ MODULE ReplanningController ------------------------
(***************************************************************************)
(* The endogenous replanning controller (trisatflow/control/controller.py) *)
(* driving the authoritative SatEdgeSim backend through its adapter        *)
(* (trisatflow/adapters/satedgesim_client.py).                             *)
(*                                                                         *)
(* One monitor epoch is one call of on_monitor_epoch().  It is cut at the  *)
(* calls it makes to the backend, because the physical world moves between *)
(* any two of them: `pc' names the call that comes next.                   *)
(*                                                                         *)
(*   down     initialize() has not returned                                *)
(*   idle     between two epochs                                           *)
(*   monitor  GET /get_monitor_state, viability, arbitration               *)
(*   dispatch POST /configuration/dispatch, after a KEEP                   *)
(*   acquire  POST /get_planner_state, then the planner                    *)
(*   delay    /control/epoch/advance or /advance_world                     *)
(*   measure  current_time() after the delay, then the scope checks        *)
(*   validate POST /configuration/validate                                 *)
(*   resume   POST /control/epoch/resume, after a stale plan               *)
(*   patch    POST /configuration/patch is about to leave                  *)
(*   await    the patch is out and its receipt has not arrived             *)
(*                                                                         *)
(* The backend is outside this repository.  Its side of each call (the     *)
(* definitions marked External) is what the adapter and                    *)
(* docs/SATEDGESIM_BACKEND_CONTRACT.md rely on.  World versions are only   *)
(* compared for equality, so the world's time stands for its version.      *)
(***************************************************************************)
EXTENDS Integers, FiniteSets

CONSTANTS
  Entities,           \* the keys a configuration binds
  Values,             \* what a key can be bound to
  Scopes,             \* the modification scopes arbitration can select
  Delays,             \* the decision delays estimate() can return
  ControlEpoch,       \* the backend declares the control-epoch capability
  RequireEnforcement, \* decision_delay.require_physical_enforcement
  ScopedPlanners,     \* the planners keep to the scope they are given
  Refusals,           \* the backend may refuse a patch it has validated
  Faults,             \* a call or its answer may be lost, a resume refused
  ShortAdvance,       \* the backend may advance less than it was asked to
  MaxEpoch,           \* bound: epochs run() is asked for
  MaxTime             \* bound: the world drifts by itself only before this

ASSUME EntitiesAssumption == Entities # {} /\ Values # {}
ASSUME ScopesAssumption == Scopes \subseteq SUBSET Entities
ASSUME DelaysAssumption == Delays \subseteq Nat
ASSUME FlagsAssumption ==
  \A flag \in {ControlEpoch, RequireEnforcement, ScopedPlanners, Refusals,
               Faults, ShortAdvance} : flag \in BOOLEAN
ASSUME BoundsAssumption == MaxEpoch \in Nat /\ MaxTime \in Nat

VARIABLES
  pc,
  current,   \* controller: current_configuration
  context,   \* controller: context.current_config_version
  clock,     \* controller: clock.physical_time_sec
  epoch,     \* controller: clock.monitor_epoch
  inten,     \* controller: clock.intervention_epoch
  job,       \* controller: the locals of the epoch under way
  cached,    \* adapter: _last_state is not empty
  observed,  \* adapter: the simulation time in _last_state
  active,    \* backend: the configuration it executes
  time,      \* backend: simulation time, and so the world version
  paused,    \* backend: stopped at a control epoch
  wire,      \* patch requests sent and not yet executed
  reply      \* the receipt of the patch the controller waits for

controller == <<current, context, inten>>
adapter    == <<cached, observed>>
world      == <<active, time, paused>>
channel    == <<wire, reply>>
vars       == <<pc, controller, clock, epoch, job, adapter, world, channel>>

-----------------------------------------------------------------------------
(* Configurations, patches and the locals of an epoch.                     *)

Bodies  == [Entities -> Values]
Config  == [ver: Nat, body: Bodies]
Patches == UNION {[S -> Values] : S \in SUBSET Entities}

Request == [epoch: Nat, base: Nat, changes: Patches, token: Nat]
Receipt == [status: {"none", "refused", "accepted"}, after: Config]

\* The entities two configurations bind differently (diff).
Changed(old, new) == {e \in Entities : old[e] # new[e]}

\* Mutants of Delta: the change records of diff(), old and new value, travel
\* whole; or the old value is taken out of them.
DeltaOfPairs(old, new) == [e \in Changed(old, new) |-> <<old[e], new[e]>>]
DeltaOfOld(old, new)   == [e \in Changed(old, new) |-> old[e]]

\* The delta the adapter sends instead of the configuration.
Delta(old, new) == [e \in Changed(old, new) |-> new[e]]

\* What the backend makes of its configuration when it applies a delta.
Patched(body, changes) ==
  [e \in Entities |-> IF e \in DOMAIN changes THEN changes[e] ELSE body[e]]

\* Everything outside the scope keeps its current binding.
Project(old, new, scope) ==
  [e \in Entities |-> IF e \in scope THEN new[e] ELSE old[e]]

\* What the verdict on a delay rests on: the two readings of the world's time,
\* the delta in the receipt, or no more than the receipt's flag.
Evidence == {"none", "time", "delta", "flag"}

Job == [scope: SUBSET Entities, plan: Bodies, plannedAt: Nat, delay: Nat,
        before: Nat, moved: Nat, accepted: BOOLEAN, evidence: Evidence,
        verified: BOOLEAN, pausedSeen: BOOLEAN, token: Nat]

\* No epoch under way: the locals are gone.
NoJob == [scope |-> {}, plan |-> [e \in Entities |-> CHOOSE v \in Values : TRUE],
          plannedAt |-> 0, delay |-> 0, before |-> 0, moved |-> 0,
          accepted |-> FALSE, evidence |-> "none", verified |-> FALSE,
          pausedSeen |-> FALSE, token |-> 0]

NoReceipt(c) == [status |-> "none", after |-> c]

Later(s, t) == IF t > s THEN t ELSE s

\* What current_time() returns: the cached monitor state if there is one.
\* _sync_clock() swallows a failing read and keeps the controller's clock.
CurrentTime == IF cached THEN observed ELSE time
SyncReads   == {CurrentTime} \cup (IF Faults /\ ~cached THEN {clock} ELSE {})

\* The handler returns, or an exception leaves it.
LeaveEpoch(next) == pc' \in next /\ job' = NoJob

-----------------------------------------------------------------------------
Init ==
  /\ pc = "down"
  /\ active \in [ver: {0}, body: Bodies]
  /\ current = active
  /\ context = 0
  /\ clock = 0 /\ epoch = 0 /\ inten = 0
  /\ job = NoJob
  /\ cached = FALSE /\ observed = 0
  /\ time = 0 /\ paused = FALSE
  /\ wire = {} /\ reply = NoReceipt(active)

\* initialize(): plan from the empty configuration (version 0), apply the
\* whole plan, then count as initialised.
Initialize ==
  /\ pc = "down"
  /\ \E b \in Bodies :
       /\ current' = [ver |-> 1, body |-> b]
       /\ active' = current'
  /\ \E t \in SyncReads : clock' = Later(clock, t)
  /\ context' = 1
  /\ pc' = "idle"
  /\ UNCHANGED <<epoch, inten, job, adapter, time, paused, channel>>

\* The planner state cannot be read; or the apply request, or only its answer,
\* is lost: current_configuration is already the new plan then, but the next
\* call starts initialize() again.
InitializeRaises ==
  /\ pc = "down"
  /\ Faults
  /\ \/ UNCHANGED <<current, active>>
     \/ \E b \in Bodies :
          /\ current' = [ver |-> 1, body |-> b]
          /\ active' \in {active, current'}
  /\ \E t \in SyncReads : clock' = Later(clock, t)
  /\ UNCHANGED <<pc, context, epoch, inten, job, adapter, time, paused, channel>>

\* Mutant of StartEpoch: _update_context() is not called.
StartWithOldContext ==
  /\ pc = "idle"
  /\ epoch < MaxEpoch
  /\ \E t \in SyncReads : clock' = Later(clock, t)
  /\ epoch' = epoch + 1
  /\ pc' = "monitor"
  /\ UNCHANGED <<controller, job, adapter, world, channel>>

\* on_monitor_epoch() up to the monitor request.
StartEpoch ==
  /\ pc = "idle"
  /\ epoch < MaxEpoch
  /\ \E t \in SyncReads : clock' = Later(clock, t)
  /\ epoch' = epoch + 1
  /\ context' = current.ver
  /\ pc' = "monitor"
  /\ UNCHANGED <<current, inten, job, adapter, world, channel>>

\* The monitor answer: a snapshot of the world, kept by the adapter.
Snapshot ==
  /\ pc = "monitor"
  /\ cached' = TRUE
  /\ observed' = time
  /\ clock' = Later(clock, time)

\* KEEP: certified, held under uncertainty, or no candidate worth its cost.
Keep ==
  /\ Snapshot
  /\ LeaveEpoch({"idle", "dispatch"})
  /\ UNCHANGED <<controller, epoch, world, channel>>

\* Arbitration selects a scope, a planner and a budget.
Select ==
  /\ Snapshot
  /\ \E s \in Scopes : job' = [job EXCEPT !.scope = s]
  /\ pc' = "acquire"
  /\ UNCHANGED <<controller, epoch, world, channel>>

\* dispatch_under_current_configuration(): the task runs under `current'.
Dispatch ==
  /\ pc = "dispatch"
  /\ LeaveEpoch({"idle"})
  /\ UNCHANGED <<controller, clock, epoch, adapter, world, channel>>

\* The planner state is acquired and backend.plan() proposes a successor.
Plan ==
  /\ pc = "acquire"
  /\ \E b \in Bodies, d \in Delays :
       /\ ScopedPlanners => Changed(current.body, b) \subseteq job.scope
       /\ job' = [job EXCEPT !.plan = b, !.delay = d, !.plannedAt = clock]
  /\ pc' = "delay"
  /\ UNCHANGED <<controller, clock, epoch, adapter, world, channel>>

-----------------------------------------------------------------------------
(* DecisionDelayModel.enforce().                                           *)

\* Nothing to enforce: no call, and the monitor state stays cached.
NoDelay ==
  /\ pc = "delay"
  /\ job.delay = 0
  /\ pc' = "measure"
  /\ UNCHANGED <<controller, clock, epoch, job, adapter, world, channel>>

\* External: an accepted advance stops the world at a control epoch; the
\* plain advance_world lets it run on.
Advance ==
  /\ pc = "delay"
  /\ job.delay > 0
  /\ \E m \in (IF ShortAdvance THEN 0 .. job.delay ELSE {job.delay}) :
       /\ time' = time + m
       /\ job' = [job EXCEPT !.before = CurrentTime, !.moved = m,
                             !.accepted = TRUE, !.pausedSeen = ControlEpoch]
  /\ paused' = ControlEpoch
  /\ cached' = FALSE
  /\ pc' = "measure"
  /\ UNCHANGED <<controller, clock, epoch, observed, active, channel>>

\* External: the world moved, but the receipt says accepted = false and does
\* not report a pause.
AdvanceRefused ==
  /\ pc = "delay"
  /\ job.delay > 0
  /\ ShortAdvance
  /\ \E m \in 0 .. job.delay :
       /\ time' = time + m
       /\ job' = [job EXCEPT !.before = CurrentTime, !.moved = m]
  /\ cached' = FALSE
  /\ pc' = "measure"
  /\ UNCHANGED <<controller, clock, epoch, observed, active, paused, channel>>

\* The advance takes place and its answer is lost: the adapter does not get
\* to clear its cache.
AdvanceAnswerLost ==
  /\ pc = "delay"
  /\ job.delay > 0
  /\ Faults
  /\ time' = time + job.delay
  /\ paused' = ControlEpoch
  /\ LeaveEpoch({"idle"})
  /\ UNCHANGED <<controller, clock, epoch, adapter, active, channel>>

\* after - before; when the read of `after' fails, the receipt's own
\* actualDeltaSec; when the receipt has none either, its flag is all there is.
Readable == IF Faults THEN Evidence \ {"none"} ELSE {"time"}

\* Mutant of Verified: the tolerance is a whole unit of time.
VerifiedLoosely(e) ==
  /\ job.accepted
  /\ e = "time"  => time - job.before + 1 >= job.delay
  /\ e = "delta" => job.moved + 1 >= job.delay

\* The delay as requested, on evidence e; a refused receipt verifies nothing.
Verified(e) ==
  /\ job.accepted
  /\ e = "time"  => time - job.before >= job.delay
  /\ e = "delta" => job.moved >= job.delay

OutOfScope == ~ (Changed(current.body, job.plan) \subseteq job.scope)

\* "returned no verifiable physical time advancement"
UnverifiedRaises ==
  /\ pc = "measure"
  /\ job.delay > 0
  /\ RequireEnforcement
  /\ \E e \in Readable : ~ Verified(e)
  /\ LeaveEpoch({"idle"})
  /\ UNCHANGED <<controller, clock, epoch, adapter, world, channel>>

\* _assert_modification_scope() raises, after the delay has been enforced.
OutOfScopeRaises ==
  /\ pc = "measure"
  /\ RequireEnforcement /\ job.delay > 0 => \E e \in Readable : Verified(e)
  /\ OutOfScope
  /\ \E t \in SyncReads : clock' = Later(clock, t)
  /\ LeaveEpoch({"idle"})
  /\ UNCHANGED <<controller, epoch, adapter, world, channel>>

\* The delay is accounted for and the proposal projected onto its scope.
Measure ==
  /\ pc = "measure"
  /\ ~ OutOfScope
  /\ \E e \in (IF job.delay = 0 THEN {"none"} ELSE Readable) :
       /\ RequireEnforcement /\ job.delay > 0 => Verified(e)
       /\ job' = [job EXCEPT !.evidence = e,
                             !.verified = job.delay > 0 /\ Verified(e),
                             !.plan = Project(current.body, job.plan, job.scope)]
  /\ \E t \in SyncReads : clock' = Later(clock, t)
  /\ pc' = "validate"
  /\ UNCHANGED <<controller, epoch, adapter, world, channel>>

-----------------------------------------------------------------------------
(* PostDelayRevalidator, the stale-plan branch and the patch.              *)

\* External: only a plan made from the configuration that is active passes;
\* the answer carries the world version it was checked against.
ValidateAccepted ==
  /\ pc = "validate"
  /\ current.ver = active.ver
  /\ job' = [job EXCEPT !.token = time]
  /\ pc' = "patch"
  /\ UNCHANGED <<controller, clock, epoch, adapter, world, channel>>

\* Mutant of ValidateRefused: whether the world was paused is not looked at.
RefusedWithoutResume ==
  /\ pc = "validate"
  /\ LeaveEpoch({"idle", "dispatch"})
  /\ UNCHANGED <<controller, clock, epoch, adapter, world, channel>>

\* The plan is stale, for its base or for what the world has become.
ValidateRefused ==
  /\ pc = "validate"
  /\ ~ job.pausedSeen
  /\ LeaveEpoch({"idle", "dispatch"})
  /\ UNCHANGED <<controller, clock, epoch, adapter, world, channel>>

\* Mutant of ValidateRefusedPaused: the stale plan is tried once more.
RetryStalePlan ==
  /\ pc = "validate"
  /\ job.pausedSeen
  /\ pc' = "measure"
  /\ UNCHANGED <<controller, clock, epoch, job, adapter, world, channel>>

ValidateRefusedPaused ==
  /\ pc = "validate"
  /\ job.pausedSeen
  /\ pc' = "resume"
  /\ UNCHANGED <<controller, clock, epoch, job, adapter, world, channel>>

\* Mutant of Resume: the request is forgotten.
NoResume ==
  /\ pc = "resume"
  /\ LeaveEpoch({"idle", "dispatch"})
  /\ UNCHANGED <<controller, clock, epoch, adapter, world, channel>>

\* resume_control_epoch(): the old configuration runs on.
Resume ==
  /\ pc = "resume"
  /\ paused' = FALSE
  /\ cached' = FALSE
  /\ LeaveEpoch({"idle", "dispatch"})
  /\ UNCHANGED <<controller, clock, epoch, observed, active, time, channel>>

\* "failed to resume the old configuration after stale-plan rejection"
ResumeRefused ==
  /\ pc = "resume"
  /\ Faults
  /\ cached' = FALSE
  /\ LeaveEpoch({"idle"})
  /\ UNCHANGED <<controller, clock, epoch, observed, world, channel>>

ResumeAnswerLost ==
  /\ pc = "resume"
  /\ Faults
  /\ paused' = FALSE
  /\ LeaveEpoch({"idle"})
  /\ UNCHANGED <<controller, clock, epoch, adapter, active, time, channel>>

\* Mutant of SendPatch: the base is the version the backend has by now.
SendPatchToLatest ==
  /\ pc = "patch"
  /\ wire' = wire \cup {[epoch   |-> epoch,
                         base    |-> active.ver,
                         changes |-> Delta(current.body, job.plan),
                         token   |-> job.token]}
  /\ pc' = "await"
  /\ UNCHANGED <<controller, clock, epoch, job, adapter, world, reply>>

\* apply_configuration_patch(): the delta leaves with its base version and
\* the revalidated world version.
SendPatch ==
  /\ pc = "patch"
  /\ wire' = wire \cup {[epoch   |-> epoch,
                         base    |-> current.ver,
                         changes |-> Delta(current.body, job.plan),
                         token   |-> job.token]}
  /\ pc' = "await"
  /\ UNCHANGED <<controller, clock, epoch, job, adapter, world, reply>>

\* The receipt is for the caller that still waits for this request.
Answer(req, status, after) ==
  reply' = IF pc = "await" /\ req.epoch = epoch
             THEN [status |-> status, after |-> after]
             ELSE reply

\* External: a patch applies only to the version and the world it names.
Current(req) == req.base = active.ver /\ req.token = time

PatchAccepted ==
  \E req \in wire :
    /\ Current(req)
    /\ active' = [ver |-> active.ver + 1, body |-> Patched(active.body, req.changes)]
    /\ paused' = FALSE
    /\ wire' = wire \ {req}
    /\ Answer(req, "accepted", active')
    /\ UNCHANGED <<pc, controller, clock, epoch, job, adapter, time>>

PatchRefused ==
  \E req \in wire :
    /\ Refusals \/ ~ Current(req)
    /\ wire' = wire \ {req}
    /\ Answer(req, "refused", reply.after)
    /\ UNCHANGED <<pc, controller, clock, epoch, job, adapter, world>>

\* Mutants of ReceiveAccepted: the receipt is not adopted, or only its version.
KeepOldConfiguration ==
  /\ pc = "await"
  /\ reply.status = "accepted"
  /\ context' = reply.after.ver
  /\ inten' = inten + 1
  /\ reply' = NoReceipt(reply.after)
  /\ LeaveEpoch({"idle"})
  /\ UNCHANGED <<current, clock, epoch, adapter, world, wire>>

AdoptVersionOnly ==
  /\ pc = "await"
  /\ reply.status = "accepted"
  /\ current' = [current EXCEPT !.ver = reply.after.ver]
  /\ context' = reply.after.ver
  /\ inten' = inten + 1
  /\ reply' = NoReceipt(reply.after)
  /\ LeaveEpoch({"idle"})
  /\ UNCHANGED <<clock, epoch, adapter, world, wire>>

\* The after-configuration of the receipt becomes the controller's state.
ReceiveAccepted ==
  /\ pc = "await"
  /\ reply.status = "accepted"
  /\ current' = reply.after
  /\ context' = reply.after.ver
  /\ inten' = inten + 1
  /\ reply' = NoReceipt(reply.after)
  /\ LeaveEpoch({"idle"})
  /\ UNCHANGED <<clock, epoch, adapter, world, wire>>

\* Mutants of ReceiveRefused: the refused plan is adopted, or counted.
AdoptRefusedPlan ==
  /\ pc = "await"
  /\ reply.status = "refused"
  /\ current' = [ver |-> current.ver + 1, body |-> job.plan]
  /\ context' = current.ver + 1
  /\ reply' = NoReceipt(reply.after)
  /\ LeaveEpoch({"idle", "dispatch"})
  /\ UNCHANGED <<inten, clock, epoch, adapter, world, wire>>

CountRefused ==
  /\ pc = "await"
  /\ reply.status = "refused"
  /\ context' = current.ver + 1
  /\ inten' = inten + 1
  /\ reply' = NoReceipt(reply.after)
  /\ LeaveEpoch({"idle", "dispatch"})
  /\ UNCHANGED <<current, clock, epoch, adapter, world, wire>>

\* A refused patch: recorded as KEEP.  _apply_backend_configuration() has put
\* the version of the refused plan, current.ver + 1, into the context.
ReceiveRefused ==
  /\ pc = "await"
  /\ reply.status = "refused"
  /\ context' = current.ver + 1
  /\ reply' = NoReceipt(reply.after)
  /\ LeaveEpoch({"idle", "dispatch"})
  /\ UNCHANGED <<current, inten, clock, epoch, adapter, world, wire>>

\* Mutant of PatchTimeout: no answer is taken for an acceptance.
AssumeApplied ==
  /\ pc = "await"
  /\ Faults
  /\ current' = [ver |-> current.ver + 1, body |-> job.plan]
  /\ inten' = inten + 1
  /\ reply' = NoReceipt(reply.after)
  /\ LeaveEpoch({"idle"})
  /\ UNCHANGED <<context, clock, epoch, adapter, world, wire>>

\* The client's read times out: the request may still be executed later.
PatchTimeout ==
  /\ pc = "await"
  /\ Faults
  /\ reply' = NoReceipt(reply.after)
  /\ LeaveEpoch({"idle"})
  /\ UNCHANGED <<controller, clock, epoch, adapter, world, wire>>

\* Any other call fails before it has an effect; the exception ends the epoch.
CallFails ==
  /\ Faults
  /\ pc \in {"monitor", "dispatch", "acquire", "delay", "validate", "resume", "patch"}
  /\ pc = "delay" => job.delay > 0
  /\ LeaveEpoch({"idle"})
  /\ UNCHANGED <<controller, clock, epoch, adapter, world, channel>>

-----------------------------------------------------------------------------
\* External: the world runs by itself unless it is stopped.
Drift ==
  /\ ~ paused
  /\ time < MaxTime
  /\ time' = time + 1
  /\ UNCHANGED <<pc, controller, clock, epoch, job, adapter, active, paused, channel>>

\* run() has gone through the epochs it was asked for.
Finished ==
  /\ pc = "idle"
  /\ epoch = MaxEpoch
  /\ UNCHANGED vars

\* The controller inside an epoch.
EpochStep ==
  \/ Keep \/ Select \/ Dispatch \/ Plan
  \/ NoDelay \/ Advance \/ AdvanceRefused \/ AdvanceAnswerLost
  \/ UnverifiedRaises \/ OutOfScopeRaises \/ Measure
  \/ ValidateAccepted \/ ValidateRefused \/ ValidateRefusedPaused
  \/ Resume \/ ResumeRefused \/ ResumeAnswerLost
  \/ SendPatch \/ ReceiveAccepted \/ ReceiveRefused \/ PatchTimeout
  \/ CallFails

ServerStep == PatchAccepted \/ PatchRefused

Next ==
  \/ Initialize \/ InitializeRaises
  \/ StartEpoch \/ EpochStep
  \/ ServerStep
  \/ Drift
  \/ Finished

Spec == Init /\ [][Next]_vars

\* on_monitor_epoch() is straight-line code whose calls return or time out,
\* and the backend executes the requests it receives.  Nothing obliges the
\* caller to start an epoch or the world to move.
FairSpec == Spec /\ WF_vars(EpochStep) /\ WF_vars(ServerStep)

-----------------------------------------------------------------------------
TypeOK ==
  /\ pc \in {"down", "idle", "monitor", "dispatch", "acquire", "delay",
             "measure", "validate", "resume", "patch", "await"}
  /\ current \in Config /\ active \in Config
  /\ context \in Nat /\ clock \in Nat /\ epoch \in Nat /\ inten \in Nat
  /\ job \in Job
  /\ cached \in BOOLEAN /\ observed \in Nat
  /\ time \in Nat /\ paused \in BOOLEAN
  /\ wire \subseteq Request /\ reply \in Receipt

\* Versions identify contents.  Whenever the controller and the backend agree
\* on the version they agree on every binding, and a patch under way that
\* could still be accepted was computed from exactly the bindings it will be
\* applied to.  This is why sending only the delta is enough, whatever late
\* patches were executed in between.
SameVersionSameContent ==
  pc # "down" =>
    /\ current.ver = active.ver => current = active
    /\ active.ver \in {current.ver, current.ver + 1}

\* Once a patch has taken effect and its receipt was lost, the controller is
\* one version behind for good: nothing but a receipt changes its view, and no
\* plan made from that view is ever activated, because it names an old base.
NoActivationWhileSplit ==
  [][pc # "down" /\ current.ver # active.ver =>
       /\ active' = active
       /\ reply.status # "accepted" =>
            UNCHANGED <<current, inten>> /\ reply'.status # "accepted"]_vars

\* intervention_epoch counts configuration versions: no intervention is counted
\* that did not activate one, and at most the last activation is missing.
InterventionsAreVersions ==
  pc # "down" => current.ver = inten + 1 /\ active.ver - inten \in {1, 2}

\* What the backend activates for the intervention that is waiting is the
\* projected plan, binding for binding, although only the delta travelled.
AppliedIsPlanned ==
  pc = "await" /\ reply.status = "accepted" =>
    /\ reply.after = active
    /\ reply.after.body = job.plan

\* With physical enforcement, a patch leaves only when the world is at least
\* the decision delay past the snapshot the plan was made from: wherever a time
\* or a delta was compared, whatever the backend advanced; and where the verdict
\* rests on the receipt's flag alone (decision_delay.py:143), if the backend
\* advances what it is asked to.  On that flag a backend that advances less is
\* believed, which docs/SATEDGESIM_BACKEND_CONTRACT.md:64 does not allow.
NoEarlyActivation ==
  /\ RequireEnforcement
  /\ pc \in {"validate", "resume", "patch", "await"}
  /\ job.evidence = "flag" => ~ ShortAdvance
  => time - job.plannedAt >= job.delay

\* The context every monitor, planner and viability call receives in an epoch
\* names the configuration that epoch decides about, even though a refused
\* patch and an abandoned one leave another version in it.
EpochSeesCurrent ==
  pc \notin {"down", "idle", "dispatch"} => context = current.ver

\* A task is dispatched under the configuration the backend executes.
DispatchUnderActive == pc = "dispatch" => current = active

\* The physical backend is stopped only inside an intervention that is still
\* deciding: no epoch ends and leaves the world paused.
IdleWorldRuns == paused => pc \notin {"down", "idle", "monitor", "dispatch"}

\* A delay reported as verified was physically enforced: the world advanced
\* by at least the requested amount in answer to the request.
VerifiedDelayIsPhysical == job.verified => job.moved >= job.delay

\* Every epoch ends, whatever the planner proposes and the backend answers.
EpochEnds == pc \notin {"down", "idle"} ~> pc = "idle"

\* The world never stays stopped.
PauseEnds == paused ~> ~ paused

\* A waiter is not forgotten: while the controller waits for the answer to its
\* patch, that very request is still to be executed or its receipt is there,
\* whatever other requests, late ones included, the backend executes first.
WaiterIsServed ==
  pc = "await" => reply.status # "none" \/ \E req \in wire : req.epoch = epoch

\* How many control points an epoch can still pass.
StepsLeft ==
  CASE pc \in {"down", "idle"}    -> 0
    [] pc = "dispatch"            -> 1
    [] pc = "await"               -> 2
    [] pc \in {"patch", "resume"} -> 3
    [] pc = "validate"            -> 4
    [] pc = "measure"             -> 5
    [] pc = "delay"               -> 6
    [] pc = "acquire"             -> 7
    [] pc = "monitor"             -> 8

\* An epoch goes through no control point twice, and nothing is sent while it
\* waits: no retry, after a refusal or a timeout, is hidden in it.  With
\* WaiterIsServed this is why EpochEnds needs no more than fairness.
EpochDescends ==
  [][pc \notin {"down", "idle"} =>
       /\ epoch' = epoch
       /\ pc' = pc \/ StepsLeft' < StepsLeft
       /\ pc = "await" => wire' \subseteq wire]_vars

\* One activation outdates every other patch under way: of the requests that
\* timed out with the same base, at most one takes effect.
ActivationOutdates ==
  [][pc # "down" /\ active' # active => \A req \in wire' : req.base < active'.ver]_vars

\* The abstract register: the controller's view is empty before initialize().
Abstract == INSTANCE VersionedConfiguration
              WITH store <- active,
                   view  <- IF pc = "down" THEN {} ELSE {current}

ImplementsSafely == Abstract!SafeSpec
Implements       == Abstract!Spec

-----------------------------------------------------------------------------
(* The invariant behind the properties on versions.  It is inductive:      *)
(* every request on the wire was computed from a version the controller    *)
(* has already had, so none of them can be accepted once the backend is    *)
(* ahead; and the request of the epoch under way carries the delta from    *)
(* the current bindings to the plan.                                       *)

RequestInv ==
  /\ pc = "down" => wire = {}
  /\ \A req \in wire : req.base <= current.ver /\ req.epoch <= epoch
  /\ pc \notin {"idle", "dispatch", "await"} =>
       \A req \in wire : req.epoch < epoch
  /\ pc = "await" =>
       \A req \in wire : req.epoch = epoch =>
         req.base = current.ver /\ req.changes = Delta(current.body, job.plan)

ReceiptInv ==
  /\ reply.status # "none" => pc = "await"
  /\ reply.status = "accepted" =>
       /\ reply.after = active
       /\ reply.after.body = job.plan
       /\ active.ver = current.ver + 1

VersionInv ==
  /\ SameVersionSameContent
  /\ pc = "down" => inten = 0
  /\ pc # "down" => current.ver = inten + 1
  /\ RequestInv
  /\ ReceiptInv

(* The invariant behind NoEarlyActivation: the controller's clock and the  *)
(* adapter's cache never run ahead of the world, and between the monitor   *)
(* answer and the advance the cache holds the snapshot that was planned on.*)

TimeInv ==
  /\ clock <= time /\ observed <= time
  /\ pc \in {"acquire", "delay"} => cached /\ observed = clock
  /\ pc = "delay" => job.plannedAt = clock
  /\ pc \in {"measure", "validate", "resume", "patch", "await"} =>
       /\ job.plannedAt <= time
       /\ job.delay > 0 => /\ job.plannedAt <= job.before
                           /\ job.before + job.moved <= time
  /\ pc = "measure" /\ job.delay > 0 /\ ~ ShortAdvance => job.moved = job.delay
  /\ NoEarlyActivation

(* The invariant behind VerifiedDelayIsPhysical, with a backend that       *)
(* advances what it is asked to: there the measurement need not tell the   *)
(* advance from the drift before it.                                       *)

PhysicalInv ==
  /\ VerifiedDelayIsPhysical
  /\ pc \notin {"validate", "resume", "patch", "await"} => ~ job.verified
  /\ pc = "measure" /\ job.delay > 0 => job.moved = job.delay

(* The invariant behind IdleWorldRuns and DispatchUnderActive, under the   *)
(* switches of a backend that advances what it is asked to, answers every  *)
(* call and refuses only outdated patches: the request under way names the *)
(* version and the time the world still has while it is stopped, so it is  *)
(* refused only in a world that runs.                                      *)

Nominal == ScopedPlanners /\ ~ Refusals /\ ~ Faults /\ ~ ShortAdvance

NominalInv ==
  /\ reply.status # "accepted" => current = active
  /\ reply.status # "none" => pc = "await" /\ ~ paused
  /\ reply.status = "accepted" => reply.after = active
  /\ wire # {} => pc = "await" /\ reply.status = "none"
  /\ \A req \in wire :
       /\ req.epoch = epoch /\ req.base = current.ver /\ req.token = job.token
       /\ \A other \in wire : other = req
  /\ paused => pc \in {"measure", "validate", "resume", "patch", "await"}
  /\ paused /\ pc \in {"measure", "validate"} => job.pausedSeen
  /\ paused /\ pc \in {"patch", "await"} => job.token = time
  /\ pc \in {"delay", "measure"} => ~ OutOfScope
  /\ pc = "measure" /\ job.delay > 0 =>
       job.accepted /\ time - job.before >= job.delay

=============================================================================
