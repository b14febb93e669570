---------------------------- MODULE ControlLedger ----------------------------
(***************************************************************************)
(* The books the controller keeps about itself: ClockState (types.py), the *)
(* counters and configuration lifetimes of ControlMetrics (metrics.py) and *)
(* the order in which on_monitor_epoch() and execute_intervention() write  *)
(* to them, exceptions included.                                           *)
(*                                                                         *)
(* The calls themselves are in ReplanningController; here an epoch is the  *)
(* monitor step, possibly a decision delay, one of the ways it is decided, *)
(* and possibly a dispatch.                                                *)
(***************************************************************************)
EXTENDS Integers

CONSTANTS
  FreeRunning,  \* the world moves while a patch is being activated
  Unreadable,   \* a reading of the world's time may fail
  MaxDelay,     \* bound: the longest decision delay
  MaxDrift,     \* bound: how far the world moves between two calls
  MaxEpoch      \* bound: monitor epochs

ASSUME LedgerAssumption ==
  /\ FreeRunning \in BOOLEAN /\ Unreadable \in BOOLEAN
  /\ MaxDelay \in Nat /\ MaxDrift \in Nat /\ MaxEpoch \in Nat

VARIABLES
  pc,
  time,              \* the world's time
  clock,             \* ClockState, as a record
  appliedAt,         \* current_configuration.applied_at_sim_time
  activation,        \* execute_intervention's local applied_at
  keep_count, num_replans, num_dispatches, stale_plan_rejection,
  lifetime,          \* the sum of metrics.configuration_lifetimes
  initial,           \* history: when the first configuration was applied
  held, stale, refused, \* history: how many epochs were decided in each way,
  raised,               \* how many an exception left,
  undispatched          \* and how many of these in the dispatch

counters == <<keep_count, num_replans, num_dispatches, stale_plan_rejection>>
history  == <<initial, held, stale, refused, raised, undispatched>>
vars     == <<pc, time, clock, appliedAt, activation, counters, lifetime, history>>

-----------------------------------------------------------------------------
\* ClockState.advance(): the age of the configuration grows with the time,
\* whether a configuration is in force already or not.
Advanced(c, t) ==
  LET delta == IF t > c.physical_time_sec THEN t - c.physical_time_sec ELSE 0
  IN  [c EXCEPT !.physical_time_sec = @ + delta,
                !.configuration_age_sec = @ + delta]

\* _sync_clock(): a reading that fails leaves the clock where it is.
Synced(c, t) == {Advanced(c, t)} \cup (IF Unreadable THEN {c} ELSE {})

Drifted == 0 .. MaxDrift

New == [physical_time_sec |-> 0, monitor_epoch |-> 0, intervention_epoch |-> 0,
        configuration_age_sec |-> 0]

\* initialize() has returned: the clock of a new controller was synchronised
\* first, so the age starts at the world's time. The initial plan is applied at
\* the clock's time, an empty configuration (initial_plan=False) at none.
Init ==
  /\ pc = "idle"
  /\ time \in Drifted
  /\ clock \in Synced(New, time)
  /\ initial \in {clock.physical_time_sec, 0}
  /\ appliedAt = initial /\ activation = 0
  /\ keep_count = 0 /\ num_replans = 0 /\ num_dispatches = 0
  /\ stale_plan_rejection = 0
  /\ lifetime = 0 /\ held = 0 /\ stale = 0 /\ refused = 0
  /\ raised = 0 /\ undispatched = 0

\* mark_monitor() and the monitor answer.
Monitor ==
  /\ pc = "idle"
  /\ clock.monitor_epoch < MaxEpoch
  /\ \E d \in Drifted :
       /\ time' = time + d
       /\ \E c \in Synced(clock, time') : clock' = [c EXCEPT !.monitor_epoch = @ + 1]
  /\ pc' = "decide"
  /\ UNCHANGED <<appliedAt, activation, counters, lifetime, history>>

\* A decision recorded as KEEP. The task of the epoch, if there is one, is
\* dispatched only after that.
RecordKeep ==
  /\ keep_count' = keep_count + 1
  /\ pc' \in {"idle", "dispatch"}
  /\ UNCHANGED <<num_replans, num_dispatches>>

\* The configuration in force is kept.
Keep ==
  /\ pc = "decide"
  /\ RecordKeep
  /\ held' = held + 1
  /\ UNCHANGED <<time, clock, appliedAt, activation, stale_plan_rejection,
                 lifetime, initial, stale, refused, raised, undispatched>>

\* dispatch_under_current_configuration(): recorded when the backend has answered.
Dispatch ==
  /\ pc = "dispatch"
  /\ num_dispatches' = num_dispatches + 1
  /\ pc' = "idle"
  /\ UNCHANGED <<time, clock, appliedAt, activation, keep_count, num_replans,
                 stale_plan_rejection, lifetime, history>>

\* Mutant of DispatchRaises: the dispatch is recorded before it is tried.
CountedAnyway ==
  /\ pc = "dispatch"
  /\ num_dispatches' = num_dispatches + 1
  /\ raised' = raised + 1 /\ undispatched' = undispatched + 1
  /\ pc' = "idle"
  /\ UNCHANGED <<time, clock, appliedAt, activation, keep_count, num_replans,
                 stale_plan_rejection, lifetime, initial, held, stale, refused>>

\* The dispatch raises: the epoch has been recorded as a KEEP and stays so.
DispatchRaises ==
  /\ pc = "dispatch"
  /\ raised' = raised + 1 /\ undispatched' = undispatched + 1
  /\ pc' = "idle"
  /\ UNCHANGED <<time, clock, appliedAt, activation, counters, lifetime,
                 initial, held, stale, refused>>

\* The decision delay is enforced: the clock follows the world.
Enforce ==
  /\ pc = "decide"
  /\ \E d \in 0 .. MaxDelay :
       /\ time' = time + d
       /\ clock' \in Synced(clock, time')
       /\ activation' = clock'.physical_time_sec
  /\ pc' = "activate"
  /\ UNCHANGED <<appliedAt, counters, lifetime, history>>

\* An exception leaves the epoch before its decision is recorded.
Raise ==
  /\ pc \in {"decide", "activate"}
  /\ raised' = raised + 1
  /\ pc' = "idle"
  /\ UNCHANGED <<time, clock, appliedAt, activation, counters, lifetime,
                 initial, held, stale, refused, undispatched>>

\* Revalidation finds the plan stale: counted in execute_intervention() and
\* once more when the decision is recorded.
RejectStale ==
  /\ pc = "activate"
  /\ stale_plan_rejection' = stale_plan_rejection + 2
  /\ RecordKeep
  /\ stale' = stale + 1
  /\ UNCHANGED <<time, clock, appliedAt, activation, lifetime,
                 initial, held, refused, raised, undispatched>>

\* The patch is refused: the decision is a KEEP with stale_plan_rejection set.
RejectPatch ==
  /\ pc = "activate"
  /\ stale_plan_rejection' = stale_plan_rejection + 1
  /\ RecordKeep
  /\ refused' = refused + 1
  /\ UNCHANGED <<time, clock, appliedAt, activation, lifetime,
                 initial, held, stale, raised, undispatched>>

\* Mutants of Intervene: the new configuration keeps the old one's time, or
\* the lifetime is taken the wrong way round.
InterveneAtOldTime ==
  /\ pc = "activate"
  /\ lifetime' = lifetime + (activation - appliedAt)
  /\ clock' = [clock EXCEPT !.intervention_epoch = @ + 1,
                            !.configuration_age_sec = 0]
  /\ num_replans' = num_replans + 1
  /\ pc' = "idle"
  /\ UNCHANGED <<time, appliedAt, activation, keep_count, num_dispatches,
                 stale_plan_rejection, history>>

InterveneBackwards ==
  /\ pc = "activate"
  /\ lifetime' = lifetime + (appliedAt - activation)
  /\ appliedAt' = time
  /\ clock' = [clock EXCEPT !.intervention_epoch = @ + 1,
                            !.configuration_age_sec = 0]
  /\ num_replans' = num_replans + 1
  /\ pc' = "idle"
  /\ UNCHANGED <<time, activation, keep_count, num_dispatches,
                 stale_plan_rejection, history>>

\* The patch is activated: the new configuration carries the receipt's time, if
\* it has one, the old one's lifetime ends at the controller's.
Intervene ==
  /\ pc = "activate"
  /\ \E d \in (IF FreeRunning THEN Drifted ELSE {0}) : time' = time + d
  /\ lifetime' = lifetime + (IF activation > appliedAt THEN activation - appliedAt ELSE 0)
  /\ appliedAt' \in {activation, time'}
  /\ clock' = [clock EXCEPT !.intervention_epoch = @ + 1,
                            !.configuration_age_sec = 0]
  /\ num_replans' = num_replans + 1
  /\ pc' = "idle"
  /\ UNCHANGED <<activation, keep_count, num_dispatches, stale_plan_rejection, history>>

\* run() has gone through its epochs.
Finished == pc = "idle" /\ clock.monitor_epoch = MaxEpoch /\ UNCHANGED vars

Next == Monitor \/ Keep \/ Enforce \/ Raise \/ RejectStale \/ RejectPatch
          \/ Intervene \/ Dispatch \/ DispatchRaises \/ Finished

Spec == Init /\ [][Next]_vars

-----------------------------------------------------------------------------
Clock == [physical_time_sec: Nat, monitor_epoch: Nat, intervention_epoch: Nat,
          configuration_age_sec: Nat]

TypeOK ==
  /\ pc \in {"idle", "decide", "activate", "dispatch"}
  /\ time \in Nat /\ clock \in Clock
  /\ appliedAt \in Nat /\ activation \in Nat
  /\ keep_count \in Nat /\ num_replans \in Nat /\ num_dispatches \in Nat
  /\ stale_plan_rejection \in Nat /\ lifetime \in Nat
  /\ initial \in Nat /\ held \in Nat /\ stale \in Nat /\ refused \in Nat
  /\ raised \in Nat /\ undispatched \in Nat

\* Between two epochs the records account for every monitor epoch once: as a
\* KEEP, as a replan, or not at all because it raised before it was recorded;
\* one whose dispatch raised is a KEEP (controller.py:254-256, 260-261) that has
\* no dispatch. The replans are the interventions of the clock. A refused patch
\* is among the KEEPs, as controller.py:536 says it must not be, and can only be
\* told from the held epochs by the rejections, which count it once and a stale
\* plan twice.
EpochsAccounted ==
  pc = "idle" =>
    /\ keep_count + num_replans + (raised - undispatched) = clock.monitor_epoch
    /\ num_dispatches + undispatched <= keep_count
    /\ num_replans = clock.intervention_epoch
    /\ keep_count = held + stale + refused
    /\ stale_plan_rejection = 2 * stale + refused

\* Lifetimes of successive configurations never overlap: they fit into the time
\* between the first and the last applied_at, and from the first intervention on
\* also together with the age of the one in force, even when the world moves
\* during an activation or its time cannot be read. Until then the age is the
\* time since time 0, not since the first configuration was applied: initialize()
\* synchronises the clock and resets nothing (controller.py:170, types.py:114-120).
LifetimesDisjoint ==
  /\ lifetime <= appliedAt - initial
  /\ lifetime + clock.configuration_age_sec
       <= clock.physical_time_sec - (IF clock.intervention_epoch = 0 THEN 0 ELSE initial)

\* With the world stopped during an activation, and readable, they are equalities:
\* no time between two configurations is lost, and from the first intervention on
\* the age of the one in force is the time since its applied_at, whatever was
\* refused or raised in between.
LifetimesExact ==
  ~ FreeRunning /\ ~ Unreadable =>
    /\ lifetime = appliedAt - initial
    /\ clock.configuration_age_sec
         = clock.physical_time_sec - (IF clock.intervention_epoch = 0 THEN 0 ELSE appliedAt)

=============================================================================
