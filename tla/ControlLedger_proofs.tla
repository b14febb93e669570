------------------------- MODULE ControlLedger_proofs -------------------------
(* The controller's books add up, for every bound on delays and drift.       *)
EXTENDS ControlLedger, TLAPS

\* The inductive form of EpochsAccounted: the epoch under way is not in the books
\* yet, or already and its dispatch is not.
EpochsInv ==
  /\ keep_count + num_replans + (raised - undispatched)
       + (IF pc \in {"decide", "activate"} THEN 1 ELSE 0) = clock.monitor_epoch
  /\ num_dispatches + undispatched + (IF pc = "dispatch" THEN 1 ELSE 0) <= keep_count
  /\ num_replans = clock.intervention_epoch
  /\ keep_count = held + stale + refused
  /\ stale_plan_rejection = 2 * stale + refused

\* The clock never runs ahead of the world, an activation that has been timed
\* happens at the clock's time, and until the first intervention the age is the
\* clock's time.
LifetimesInv ==
  /\ initial <= clock.physical_time_sec /\ clock.physical_time_sec <= time
  /\ pc = "activate" => activation = clock.physical_time_sec
  /\ clock.intervention_epoch = 0 =>
       /\ lifetime = 0 /\ appliedAt = initial
       /\ clock.configuration_age_sec = clock.physical_time_sec
  /\ ~ FreeRunning /\ ~ Unreadable =>
       /\ appliedAt <= clock.physical_time_sec
       /\ pc = "activate" => activation = time
  /\ LifetimesDisjoint /\ LifetimesExact

LEMMA AdvancedClock ==
  ASSUME NEW c \in Clock, NEW t \in Nat
  PROVE  /\ Advanced(c, t) \in Clock
         /\ Advanced(c, t).monitor_epoch = c.monitor_epoch
         /\ Advanced(c, t).intervention_epoch = c.intervention_epoch
         /\ Advanced(c, t).physical_time_sec
              = IF t > c.physical_time_sec THEN t ELSE c.physical_time_sec
         /\ Advanced(c, t).configuration_age_sec - c.configuration_age_sec
              = Advanced(c, t).physical_time_sec - c.physical_time_sec
<1>. DEFINE d == IF t > c.physical_time_sec THEN t - c.physical_time_sec ELSE 0
<1>1. /\ c.physical_time_sec \in Nat /\ c.configuration_age_sec \in Nat
      /\ c.monitor_epoch \in Nat /\ c.intervention_epoch \in Nat
  BY DEF Clock
<1>2. d \in Nat /\ c.physical_time_sec + d
                    = IF t > c.physical_time_sec THEN t ELSE c.physical_time_sec
  BY <1>1
<1>3. Advanced(c, t) = [c EXCEPT !.physical_time_sec = @ + d,
                                 !.configuration_age_sec = @ + d]
  BY DEF Advanced
<1>. HIDE DEF d
<1>4. Advanced(c, t) = [physical_time_sec     |-> c.physical_time_sec + d,
                        monitor_epoch         |-> c.monitor_epoch,
                        intervention_epoch    |-> c.intervention_epoch,
                        configuration_age_sec |-> c.configuration_age_sec + d]
  BY <1>3 DEF Clock
<1>5. /\ c.physical_time_sec + d \in Nat /\ c.configuration_age_sec + d \in Nat
      /\ (c.configuration_age_sec + d) - c.configuration_age_sec
           = (c.physical_time_sec + d) - c.physical_time_sec
  BY <1>1, <1>2
<1>. QED
  BY <1>1, <1>2, <1>4, <1>5 DEF Clock

\* A synchronised clock is the clock moved on by some amount, up to the time of
\* the world, and all the way if that can be read.
LEMMA SyncedClock ==
  ASSUME NEW c \in Clock, NEW t \in Nat, NEW n \in Synced(c, t)
  PROVE  /\ n \in Clock
         /\ n.monitor_epoch = c.monitor_epoch
         /\ n.intervention_epoch = c.intervention_epoch
         /\ n.physical_time_sec >= c.physical_time_sec
         /\ c.physical_time_sec <= t => n.physical_time_sec <= t
         /\ ~ Unreadable /\ c.physical_time_sec <= t => n.physical_time_sec = t
         /\ n.configuration_age_sec - c.configuration_age_sec
              = n.physical_time_sec - c.physical_time_sec
<1>1. c.physical_time_sec \in Nat /\ c.configuration_age_sec \in Nat
  BY DEF Clock
<1>2. CASE n = c /\ Unreadable
  BY <1>1, <1>2
<1>3. CASE n = Advanced(c, t)
  <2>1. /\ n \in Clock /\ n.physical_time_sec \in Nat /\ n.configuration_age_sec \in Nat
        /\ n.monitor_epoch = c.monitor_epoch
        /\ n.intervention_epoch = c.intervention_epoch
        /\ n.physical_time_sec = IF t > c.physical_time_sec THEN t ELSE c.physical_time_sec
        /\ n.configuration_age_sec - c.configuration_age_sec
             = n.physical_time_sec - c.physical_time_sec
    BY <1>3, AdvancedClock DEF Clock
  <2>2. /\ n.physical_time_sec >= c.physical_time_sec
        /\ c.physical_time_sec <= t => n.physical_time_sec = t
    BY <1>1, <2>1
  <2>. QED
    BY <1>1, <2>1, <2>2
<1>. QED
  BY <1>2, <1>3 DEF Synced

\* Every variable keeps its type.
THEOREM TypeCorrect == Spec => []TypeOK
<1>1. Init => TypeOK
  <2>. SUFFICES ASSUME Init PROVE TypeOK
    OBVIOUS
  <2>1. time \in Nat /\ New \in Clock
    BY LedgerAssumption DEF Init, Drifted, New, Clock
  <2>2. clock \in Clock
    BY <2>1, SyncedClock DEF Init
  <2>3. initial \in Nat
    BY <2>2 DEF Init, Clock
  <2>. QED
    BY <2>1, <2>2, <2>3 DEF Init, TypeOK
<1>2. TypeOK /\ [Next]_vars => TypeOK'
  <2>. SUFFICES ASSUME TypeOK, [Next]_vars PROVE TypeOK'
    OBVIOUS
  <2>. USE LedgerAssumption DEF TypeOK, counters, history
  <2>1. CASE Monitor
    <3>1. PICK d \in Drifted :
            /\ time' = time + d
            /\ \E c \in Synced(clock, time') : clock' = [c EXCEPT !.monitor_epoch = @ + 1]
      BY <2>1 DEF Monitor
    <3>2. time' \in Nat
      BY <3>1 DEF Drifted
    <3>3. clock' \in Clock
      BY <3>1, <3>2, SyncedClock DEF Clock
    <3>. QED
      BY <2>1, <3>2, <3>3 DEF Monitor
  <2>2. CASE Enforce
    <3>1. PICK d \in 0 .. MaxDelay :
            /\ time' = time + d
            /\ clock' \in Synced(clock, time')
            /\ activation' = clock'.physical_time_sec
      BY <2>2 DEF Enforce
    <3>2. time' \in Nat
      BY <3>1
    <3>3. clock' \in Clock /\ activation' \in Nat
      BY <3>1, <3>2, SyncedClock DEF Clock
    <3>. QED
      BY <2>2, <3>2, <3>3 DEF Enforce
  <2>3. CASE Keep
    BY <2>3 DEF Keep, RecordKeep
  <2>4. CASE Raise \/ Dispatch \/ DispatchRaises
    BY <2>4 DEF Raise, Dispatch, DispatchRaises
  <2>5. CASE RejectStale \/ RejectPatch
    BY <2>5 DEF RejectStale, RejectPatch, RecordKeep
  <2>6. CASE Intervene
    <3>1. PICK d \in (IF FreeRunning THEN Drifted ELSE {0}) : time' = time + d
      BY <2>6 DEF Intervene
    <3>2. time' \in Nat
      BY <3>1 DEF Drifted
    <3>3. clock' \in Clock
      <4>1. clock' = [clock EXCEPT !.intervention_epoch = @ + 1,
                                   !.configuration_age_sec = 0]
        BY <2>6 DEF Intervene
      <4>2. clock.intervention_epoch + 1 \in Nat
        BY DEF Clock
      <4>. QED
        BY <4>1, <4>2 DEF Clock
    <3>4. lifetime' \in Nat /\ appliedAt' \in Nat
      BY <2>6, <3>2 DEF Intervene
    <3>. QED
      BY <2>6, <3>2, <3>3, <3>4 DEF Intervene
  <2>7. CASE Finished \/ UNCHANGED vars
    BY <2>7 DEF Finished, vars
  <2>. QED
    BY <2>1, <2>2, <2>3, <2>4, <2>5, <2>6, <2>7 DEF Next
<1>. QED
  BY <1>1, <1>2, PTL DEF Spec

\* Between two epochs the counters account for every monitor epoch once.
THEOREM BooksBalance == Spec => []EpochsAccounted
<1>1. Init => EpochsInv
  <2>. SUFFICES ASSUME Init PROVE EpochsInv
    OBVIOUS
  <2>1. time \in Nat /\ New \in Clock
    BY LedgerAssumption DEF Init, Drifted, New, Clock
  <2>2. clock.monitor_epoch = 0 /\ clock.intervention_epoch = 0
    BY <2>1, SyncedClock DEF Init, New
  <2>. QED
    BY <2>2 DEF Init, EpochsInv
<1>2. TypeOK /\ EpochsInv /\ [Next]_vars => EpochsInv'
  <2>. SUFFICES ASSUME TypeOK, EpochsInv, [Next]_vars PROVE EpochsInv'
    OBVIOUS
  <2>. USE LedgerAssumption DEF TypeOK, EpochsInv, counters, history
  <2>1. CASE Monitor
    <3>1. PICK d \in Drifted :
            /\ time' = time + d
            /\ \E c \in Synced(clock, time') : clock' = [c EXCEPT !.monitor_epoch = @ + 1]
      BY <2>1 DEF Monitor
    <3>2. time' \in Nat
      BY <3>1 DEF Drifted
    <3>3. /\ clock'.monitor_epoch = clock.monitor_epoch + 1
          /\ clock'.intervention_epoch = clock.intervention_epoch
      BY <3>1, <3>2, SyncedClock DEF Clock
    <3>. QED
      BY <2>1, <3>3 DEF Monitor, Clock
  <2>2. CASE Enforce
    <3>1. PICK d \in 0 .. MaxDelay :
            time' = time + d /\ clock' \in Synced(clock, time')
      BY <2>2 DEF Enforce
    <3>2. time' \in Nat
      BY <3>1
    <3>3. /\ clock'.monitor_epoch = clock.monitor_epoch
          /\ clock'.intervention_epoch = clock.intervention_epoch
      BY <3>1, <3>2, SyncedClock
    <3>. QED
      BY <2>2, <3>3 DEF Enforce
  <2>3. CASE Keep
    BY <2>3 DEF Keep, RecordKeep, Clock
  <2>4. CASE Raise \/ Dispatch \/ DispatchRaises
    BY <2>4 DEF Raise, Dispatch, DispatchRaises, Clock
  <2>5. CASE RejectStale \/ RejectPatch
    BY <2>5 DEF RejectStale, RejectPatch, RecordKeep, Clock
  <2>6. CASE Intervene
    BY <2>6 DEF Intervene, Clock
  <2>7. CASE Finished \/ UNCHANGED vars
    BY <2>7 DEF Finished, vars
  <2>. QED
    BY <2>1, <2>2, <2>3, <2>4, <2>5, <2>6, <2>7 DEF Next
<1>3. TypeOK /\ EpochsInv => EpochsAccounted
  BY DEF TypeOK, Clock, EpochsInv, EpochsAccounted
<1>. QED
  BY <1>1, <1>2, <1>3, TypeCorrect, PTL DEF Spec

\* Every step keeps the clock behind the world and the lifetimes within the
\* time that has passed.
LEMMA LifetimesInvariant == Spec => []LifetimesInv
<1>1. Init => LifetimesInv
  <2>. SUFFICES ASSUME Init PROVE LifetimesInv
    OBVIOUS
  <2>1. time \in Nat /\ New \in Clock
    BY LedgerAssumption DEF Init, Drifted, New, Clock
  <2>2. /\ clock \in Clock /\ clock.intervention_epoch = 0
        /\ clock.physical_time_sec <= time
        /\ clock.configuration_age_sec = clock.physical_time_sec
    BY <2>1, SyncedClock DEF Init, New, Clock
  <2>. QED
    BY <2>1, <2>2 DEF Init, Clock, LifetimesInv, LifetimesDisjoint, LifetimesExact
<1>2. TypeOK /\ LifetimesInv /\ [Next]_vars => LifetimesInv'
  <2>. SUFFICES ASSUME TypeOK, LifetimesInv, [Next]_vars PROVE LifetimesInv'
    OBVIOUS
  <2>. USE LedgerAssumption DEF LifetimesInv, LifetimesDisjoint, LifetimesExact, counters, history
  <2>t. /\ time \in Nat /\ appliedAt \in Nat /\ initial \in Nat /\ lifetime \in Nat
        /\ activation \in Nat /\ clock \in Clock
        /\ clock.physical_time_sec \in Nat /\ clock.configuration_age_sec \in Nat
        /\ clock.intervention_epoch \in Nat
    BY DEF TypeOK, Clock
  \* The world moves on and the clock follows, if it can be read.
  <2>m. ASSUME NEW d \in Nat, NEW c \in Synced(clock, time + d), time' = time + d,
               clock'.physical_time_sec = c.physical_time_sec,
               clock'.configuration_age_sec = c.configuration_age_sec,
               clock'.intervention_epoch = c.intervention_epoch,
               UNCHANGED <<appliedAt, lifetime, initial>>,
               pc' = "activate" => activation' = clock'.physical_time_sec
        PROVE  LifetimesInv'
    <3>1. /\ c \in Clock
          /\ c.intervention_epoch = clock.intervention_epoch
          /\ c.physical_time_sec >= clock.physical_time_sec
          /\ c.physical_time_sec <= time + d
          /\ ~ Unreadable => c.physical_time_sec = time + d
          /\ c.configuration_age_sec - clock.configuration_age_sec
               = c.physical_time_sec - clock.physical_time_sec
      <4>1. time + d \in Nat /\ clock.physical_time_sec <= time + d
        BY <2>t
      <4>. HIDE DEF LifetimesInv, LifetimesDisjoint, LifetimesExact
      <4>. QED
        BY <2>t, <4>1, SyncedClock
    <3>2. c.physical_time_sec \in Nat /\ c.configuration_age_sec \in Nat
      BY <3>1 DEF Clock
    <3>. QED
      BY <2>t, <2>m, <3>1, <3>2
  <2>1. CASE Monitor
    <3>1. PICK d \in Drifted :
            /\ time' = time + d
            /\ \E c \in Synced(clock, time') : clock' = [c EXCEPT !.monitor_epoch = @ + 1]
      BY <2>1 DEF Monitor
    <3>2. d \in Nat /\ time' \in Nat
      BY <2>t, <3>1 DEF Drifted
    <3>3. PICK c \in Synced(clock, time') : clock' = [c EXCEPT !.monitor_epoch = @ + 1]
      BY <3>1
    <3>4. c \in Clock
      BY <2>t, <3>2, <3>3, SyncedClock
    <3>5. /\ clock'.physical_time_sec = c.physical_time_sec
          /\ clock'.configuration_age_sec = c.configuration_age_sec
          /\ clock'.intervention_epoch = c.intervention_epoch
      BY <3>3, <3>4 DEF Clock
    <3>6. pc' = "decide" /\ UNCHANGED <<appliedAt, lifetime, initial>>
      BY <2>1 DEF Monitor
    <3>. QED
      BY <2>m, <3>1, <3>2, <3>3, <3>5, <3>6
  <2>2. CASE Enforce
    <3>1. PICK d \in 0 .. MaxDelay :
            /\ time' = time + d
            /\ clock' \in Synced(clock, time')
            /\ activation' = clock'.physical_time_sec
      BY <2>2 DEF Enforce
    <3>2. d \in Nat
      BY <3>1
    <3>3. UNCHANGED <<appliedAt, lifetime, initial>>
      BY <2>2 DEF Enforce
    <3>. QED
      BY <2>m, <3>1, <3>2, <3>3
  <2>3. CASE Keep
    BY <2>3 DEF Keep, RecordKeep
  <2>4. CASE Raise \/ Dispatch \/ DispatchRaises
    BY <2>4 DEF Raise, Dispatch, DispatchRaises
  <2>5. CASE RejectStale \/ RejectPatch
    BY <2>5 DEF RejectStale, RejectPatch, RecordKeep
  <2>6. CASE Intervene
    <3>1. PICK d \in (IF FreeRunning THEN Drifted ELSE {0}) : time' = time + d
      BY <2>6 DEF Intervene
    <3>2. d \in Nat /\ (~ FreeRunning => d = 0)
      BY <3>1 DEF Drifted
    <3>3. /\ lifetime' = lifetime
               + (IF activation > appliedAt THEN activation - appliedAt ELSE 0)
          /\ appliedAt' \in {activation, time'} /\ pc' = "idle" /\ initial' = initial
          /\ activation = clock.physical_time_sec
      BY <2>6 DEF Intervene
    <3>4. /\ clock'.physical_time_sec = clock.physical_time_sec
          /\ clock'.configuration_age_sec = 0
          /\ clock'.intervention_epoch = clock.intervention_epoch + 1
      BY <2>6, <2>t DEF Intervene, Clock
    \* What is counted so far fits into the time up to this activation.
    <3>5. lifetime' <= activation - initial
      BY <2>t, <3>3
    <3>6. ~ FreeRunning /\ ~ Unreadable =>
            /\ activation = time /\ appliedAt <= activation
            /\ lifetime = appliedAt - initial
      BY <2>6, <3>3 DEF Intervene
    <3>7. appliedAt' >= activation /\ (~ FreeRunning /\ ~ Unreadable => appliedAt' = activation)
      BY <2>t, <3>1, <3>2, <3>3, <3>6
    <3>. QED
      BY <2>t, <3>1, <3>2, <3>3, <3>4, <3>5, <3>6, <3>7
  <2>7. CASE Finished \/ UNCHANGED vars
    BY <2>7 DEF Finished, vars
  <2>. QED
    BY <2>1, <2>2, <2>3, <2>4, <2>5, <2>6, <2>7 DEF Next
<1>. QED
  BY <1>1, <1>2, TypeCorrect, PTL DEF Spec

\* The lifetimes of successive configurations never overlap, whatever the
\* delays are, however the world moves during an activation and whenever its
\* time cannot be read.
THEOREM LifetimesNeverOverlap == Spec => []LifetimesDisjoint
<1>1. LifetimesInv => LifetimesDisjoint
  BY DEF LifetimesInv
<1>. QED
  BY <1>1, LifetimesInvariant, PTL

\* In a world that is stopped while a patch is activated, and whose time can be
\* read, they leave no gap, and from the first intervention on the age is exact.
THEOREM LifetimesLeaveNoGap == Spec => []LifetimesExact
<1>1. LifetimesInv => LifetimesExact
  BY DEF LifetimesInv
<1>. QED
  BY <1>1, LifetimesInvariant, PTL

=============================================================================
