--------------------- MODULE ReplanningController_proofs ---------------------
(***************************************************************************)
(* Proofs about ReplanningController, for every value of its constants     *)
(* that satisfies the ASSUMEs of that module.                              *)
(***************************************************************************)
EXTENDS ReplanningController, TLAPS

-----------------------------------------------------------------------------
(* The operators on configurations.                                        *)

\* A delta is a legal patch.
LEMMA DeltaIsPatch ==
  ASSUME NEW old \in Bodies, NEW new \in Bodies
  PROVE  Delta(old, new) \in Patches
<1>1. Changed(old, new) \in SUBSET Entities
  BY DEF Changed
<1>2. Delta(old, new) \in [Changed(old, new) -> Values]
  BY DEF Delta, Changed, Bodies
<1>. QED
  BY <1>1, <1>2 DEF Patches

\* Patching a configuration gives a configuration.
LEMMA PatchedIsBody ==
  ASSUME NEW body \in Bodies, NEW changes \in Patches
  PROVE  Patched(body, changes) \in Bodies
<1>1. PICK S \in SUBSET Entities : changes \in [S -> Values]
  BY DEF Patches
<1>2. ASSUME NEW e \in Entities
      PROVE  (IF e \in DOMAIN changes THEN changes[e] ELSE body[e]) \in Values
  BY <1>1 DEF Bodies
<1>. QED
  BY <1>2 DEF Patched, Bodies

\* Applying the delta between two configurations to the old one gives the new.
LEMMA DeltaRealises ==
  ASSUME NEW old \in Bodies, NEW new \in Bodies
  PROVE  Patched(old, Delta(old, new)) = new
<1>1. ASSUME NEW e \in Entities
      PROVE  (IF e \in DOMAIN Delta(old, new) THEN Delta(old, new)[e] ELSE old[e])
               = new[e]
  BY DEF Delta, Changed
<1>2. new = [e \in Entities |-> new[e]]
  BY DEF Bodies
<1>. QED
  BY <1>1, <1>2 DEF Patched

\* Projection gives a configuration that is unchanged outside the scope.
LEMMA ProjectFreezes ==
  ASSUME NEW old \in Bodies, NEW new \in Bodies, NEW scope \in SUBSET Entities
  PROVE  /\ Project(old, new, scope) \in Bodies
         /\ Changed(old, Project(old, new, scope)) \subseteq scope
  BY DEF Project, Bodies, Changed

LEMMA NoJobType == NoJob \in Job
<1>1. (CHOOSE v \in Values : TRUE) \in Values
  BY EntitiesAssumption
<1>. QED
  BY <1>1 DEF NoJob, Job, Bodies, Evidence

-----------------------------------------------------------------------------
(* Type correctness.                                                       *)

\* Reading the clock gives a time.
LEMMA ReadsAreTimes ==
  ASSUME TypeOK
  PROVE  /\ CurrentTime \in Nat
         /\ \A t \in SyncReads : t \in Nat /\ Later(clock, t) \in Nat
BY DEF TypeOK, SyncReads, CurrentTime, Later

\* Every variable keeps its type.
THEOREM TypeCorrect == Spec => []TypeOK
<1>1. Init => TypeOK
  <2>. SUFFICES ASSUME Init PROVE TypeOK
    OBVIOUS
  <2>1. active \in Config
    BY DEF Init, Config
  <2>2. reply \in Receipt
    BY <2>1 DEF Init, NoReceipt, Receipt
  <2>. QED
    BY <2>1, <2>2, NoJobType DEF Init, TypeOK
<1>2. TypeOK /\ [Next]_vars => TypeOK'
  <2>. SUFFICES ASSUME TypeOK, [Next]_vars PROVE TypeOK'
    OBVIOUS
  <2>. USE NoJobType, ReadsAreTimes DEF TypeOK, controller, adapter, world, channel
  <2>1. CASE Initialize
    BY <2>1 DEF Initialize, Config
  <2>2. CASE InitializeRaises
    BY <2>2 DEF InitializeRaises, Config
  <2>3. CASE StartEpoch
    BY <2>3 DEF StartEpoch, Config
  <2>4. CASE Keep
    BY <2>4 DEF Keep, Snapshot, LeaveEpoch, Later
  <2>5. CASE Select
    <3>1. job' \in Job
      BY <2>5, ScopesAssumption DEF Select, Job
    <3>. QED
      BY <2>5, <3>1 DEF Select, Snapshot, Later
  <2>6. CASE Dispatch
    BY <2>6 DEF Dispatch, LeaveEpoch
  <2>7. CASE Plan
    <3>1. job' \in Job
      BY <2>7, DelaysAssumption DEF Plan, Job
    <3>. QED
      BY <2>7, <3>1 DEF Plan
  <2>8. CASE NoDelay
    BY <2>8 DEF NoDelay
  <2>9. CASE Advance
    <3>1. PICK m \in (IF ShortAdvance THEN 0 .. job.delay ELSE {job.delay}) :
            /\ time' = time + m
            /\ job' = [job EXCEPT !.before = CurrentTime, !.moved = m,
                                  !.accepted = TRUE, !.pausedSeen = ControlEpoch]
      BY <2>9 DEF Advance
    <3>2. m \in Nat /\ ControlEpoch \in BOOLEAN
      BY FlagsAssumption DEF Job
    <3>3. job' \in Job
      BY <3>1, <3>2 DEF Job
    <3>4. time' \in Nat
      BY <3>1, <3>2
    <3>. QED
      BY <2>9, <3>2, <3>3, <3>4 DEF Advance
  <2>10. CASE AdvanceRefused
    <3>1. PICK m \in 0 .. job.delay :
            /\ time' = time + m
            /\ job' = [job EXCEPT !.before = CurrentTime, !.moved = m]
      BY <2>10 DEF AdvanceRefused
    <3>2. m \in Nat
      OBVIOUS
    <3>3. job' \in Job
      BY <3>1, <3>2 DEF Job
    <3>4. time' \in Nat
      BY <3>1, <3>2
    <3>. QED
      BY <2>10, <3>3, <3>4 DEF AdvanceRefused
  <2>11. CASE AdvanceAnswerLost
    <3>1. job.delay \in Nat /\ ControlEpoch \in BOOLEAN
      BY FlagsAssumption DEF Job
    <3>. QED
      BY <2>11, <3>1 DEF AdvanceAnswerLost, LeaveEpoch
  <2>12. CASE UnverifiedRaises
    BY <2>12 DEF UnverifiedRaises, LeaveEpoch
  <2>13. CASE OutOfScopeRaises
    BY <2>13 DEF OutOfScopeRaises, LeaveEpoch
  <2>14. CASE Measure
    <3>1. PICK e \in (IF job.delay = 0 THEN {"none"} ELSE Readable) :
            job' = [job EXCEPT !.evidence = e,
                               !.verified = job.delay > 0 /\ Verified(e),
                               !.plan = Project(current.body, job.plan, job.scope)]
      BY <2>14 DEF Measure
    <3>2. e \in Evidence /\ (job.delay > 0 /\ Verified(e)) \in BOOLEAN
      BY DEF Readable, Evidence
    <3>3. Project(current.body, job.plan, job.scope) \in Bodies
      BY ProjectFreezes DEF Config, Job
    <3>4. job' \in Job
      BY <3>1, <3>2, <3>3 DEF Job
    <3>. QED
      BY <2>14, <3>4 DEF Measure
  <2>15. CASE ValidateAccepted
    <3>1. job' \in Job
      BY <2>15 DEF ValidateAccepted, Job
    <3>. QED
      BY <2>15, <3>1 DEF ValidateAccepted
  <2>16. CASE ValidateRefused
    BY <2>16 DEF ValidateRefused, LeaveEpoch
  <2>17. CASE ValidateRefusedPaused
    BY <2>17 DEF ValidateRefusedPaused
  <2>18. CASE Resume
    BY <2>18 DEF Resume, LeaveEpoch
  <2>19. CASE ResumeRefused
    BY <2>19 DEF ResumeRefused, LeaveEpoch
  <2>20. CASE ResumeAnswerLost
    BY <2>20 DEF ResumeAnswerLost, LeaveEpoch
  <2>21. CASE SendPatch
    <3>1. Delta(current.body, job.plan) \in Patches
      BY DeltaIsPatch DEF Config, Job
    <3>2. [epoch |-> epoch, base |-> current.ver,
           changes |-> Delta(current.body, job.plan), token |-> job.token] \in Request
      BY <3>1 DEF Request, Config, Job
    <3>. QED
      BY <2>21, <3>2 DEF SendPatch
  <2>22. CASE PatchAccepted
    <3>1. PICK req \in wire :
            /\ active' = [ver |-> active.ver + 1,
                          body |-> Patched(active.body, req.changes)]
            /\ paused' = FALSE
            /\ wire' = wire \ {req}
            /\ Answer(req, "accepted", active')
            /\ UNCHANGED <<pc, controller, clock, epoch, job, adapter, time>>
      BY <2>22 DEF PatchAccepted
    <3>2. active' \in Config
      BY <3>1, PatchedIsBody DEF Config, Request
    <3>3. reply' \in Receipt
      BY <3>1, <3>2 DEF Answer, Receipt
    <3>. QED
      BY <3>1, <3>2, <3>3
  <2>23. CASE PatchRefused
    BY <2>23 DEF PatchRefused, Answer, Receipt
  <2>24. CASE ReceiveAccepted
    BY <2>24 DEF ReceiveAccepted, LeaveEpoch, NoReceipt, Receipt, Config
  <2>25. CASE ReceiveRefused
    BY <2>25 DEF ReceiveRefused, LeaveEpoch, NoReceipt, Receipt, Config
  <2>26. CASE PatchTimeout
    BY <2>26 DEF PatchTimeout, LeaveEpoch, NoReceipt, Receipt
  <2>27. CASE CallFails
    BY <2>27 DEF CallFails, LeaveEpoch
  <2>28. CASE Drift
    BY <2>28 DEF Drift
  <2>29. CASE Finished \/ UNCHANGED vars
    BY <2>29 DEF Finished, vars
  <2>. QED
    BY <2>1, <2>2, <2>3, <2>4, <2>5, <2>6, <2>7, <2>8, <2>9, <2>10, <2>11,
       <2>12, <2>13, <2>14, <2>15, <2>16, <2>17, <2>18, <2>19, <2>20, <2>21,
       <2>22, <2>23, <2>24, <2>25, <2>26, <2>27, <2>28, <2>29
       DEF Next, EpochStep, ServerStep
<1>. QED
  BY <1>1, <1>2, PTL DEF Spec

-----------------------------------------------------------------------------
(* Versions, requests and receipts.                                        *)

\* The version invariant is kept by every step.
LEMMA VersionInvariant == Spec => []VersionInv
<1>1. Init => VersionInv
  BY DEF Init, VersionInv, SameVersionSameContent, RequestInv, ReceiptInv, NoReceipt
<1>2. TypeOK /\ VersionInv /\ [Next]_vars => VersionInv'
  <2>. SUFFICES ASSUME TypeOK, VersionInv, [Next]_vars PROVE VersionInv'
    OBVIOUS
  <2>. USE DEF TypeOK, VersionInv, SameVersionSameContent, RequestInv, ReceiptInv,
               controller, adapter, world, channel
  \* Most steps only move the control point inside an epoch, or end it.
  <2>q. ASSUME pc \notin {"down", "await"}, pc' \notin {"down", "await"},
               UNCHANGED <<current, active, inten, epoch, wire, reply>>,
               pc \in {"idle", "dispatch"} => pc' \in {"idle", "dispatch"}
        PROVE  VersionInv'
    BY <2>q
  <2>1. CASE Initialize
    BY <2>1 DEF Initialize, Config
  <2>2. CASE InitializeRaises
    BY <2>2 DEF InitializeRaises, Config
  <2>3. CASE StartEpoch
    <3>1. \A req \in wire : req.epoch \in Nat /\ req.base \in Nat
      BY DEF Request
    <3>. QED
      BY <2>3, <3>1 DEF StartEpoch
  <2>4. CASE Keep
    BY <2>4, <2>q DEF Keep, Snapshot, LeaveEpoch
  <2>5. CASE Select
    BY <2>5, <2>q DEF Select, Snapshot
  <2>6. CASE Dispatch
    BY <2>6, <2>q DEF Dispatch, LeaveEpoch
  <2>7. CASE Plan
    BY <2>7, <2>q DEF Plan
  <2>8. CASE NoDelay
    BY <2>8, <2>q DEF NoDelay
  <2>9. CASE Advance
    BY <2>9, <2>q DEF Advance
  <2>10. CASE AdvanceRefused
    BY <2>10, <2>q DEF AdvanceRefused
  <2>11. CASE AdvanceAnswerLost
    BY <2>11, <2>q DEF AdvanceAnswerLost, LeaveEpoch
  <2>12. CASE UnverifiedRaises
    BY <2>12, <2>q DEF UnverifiedRaises, LeaveEpoch
  <2>13. CASE OutOfScopeRaises
    BY <2>13, <2>q DEF OutOfScopeRaises, LeaveEpoch
  <2>14. CASE Measure
    BY <2>14, <2>q DEF Measure
  <2>15. CASE ValidateAccepted
    BY <2>15, <2>q DEF ValidateAccepted
  <2>16. CASE ValidateRefused
    BY <2>16, <2>q DEF ValidateRefused, LeaveEpoch
  <2>17. CASE ValidateRefusedPaused
    BY <2>17, <2>q DEF ValidateRefusedPaused
  <2>18. CASE Resume
    BY <2>18, <2>q DEF Resume, LeaveEpoch
  <2>19. CASE ResumeRefused
    BY <2>19, <2>q DEF ResumeRefused, LeaveEpoch
  <2>20. CASE ResumeAnswerLost
    BY <2>20, <2>q DEF ResumeAnswerLost, LeaveEpoch
  <2>21. CASE CallFails
    BY <2>21, <2>q DEF CallFails, LeaveEpoch
  <2>22. CASE SendPatch
    <3>1. PICK req \in Request :
            /\ req.epoch = epoch
            /\ req.base = current.ver
            /\ req.changes = Delta(current.body, job.plan)
            /\ wire' = wire \cup {req}
      <4>1. Delta(current.body, job.plan) \in Patches
        BY DeltaIsPatch DEF Config, Job
      <4>2. [epoch |-> epoch, base |-> current.ver,
             changes |-> Delta(current.body, job.plan), token |-> job.token]
              \in Request
        BY <4>1 DEF Request, Config, Job
      <4>. QED
        BY <2>22, <4>2 DEF SendPatch
    <3>2. \A r \in wire : r.epoch \in Nat /\ r.base \in Nat
      BY DEF Request
    <3>3. pc = "patch" /\ pc' = "await"
          /\ UNCHANGED <<current, context, inten, active, epoch, job, reply>>
      BY <2>22 DEF SendPatch
    <3>4. current.ver \in Nat
      BY DEF Config
    <3>5. RequestInv'
      BY <3>1, <3>2, <3>3, <3>4
    <3>. QED
      BY <3>3, <3>5
  <2>23. CASE PatchAccepted
    <3>1. PICK req \in wire :
            /\ Current(req)
            /\ active' = [ver |-> active.ver + 1,
                          body |-> Patched(active.body, req.changes)]
            /\ wire' = wire \ {req}
            /\ Answer(req, "accepted", active')
            /\ UNCHANGED <<pc, controller, clock, epoch, job, adapter, time>>
      BY <2>23 DEF PatchAccepted
    <3>2. current.ver \in Nat /\ active.ver \in Nat /\ req.base \in Nat
      BY DEF Config, Request
    <3>3. pc # "down" /\ req.base <= current.ver
      BY <3>1
    <3>4. current = active
      BY <3>1, <3>2, <3>3 DEF Current
    <3>5. active'.ver = current.ver + 1 /\ active'.ver # current.ver
      BY <3>1, <3>2, <3>4
    <3>6. SameVersionSameContent'
      BY <3>1, <3>3, <3>5
    <3>7. RequestInv'
      BY <3>1
    <3>8. reply.status # "accepted"
      BY <3>2, <3>4
    <3>9. ReceiptInv'
      <4>1. CASE pc = "await" /\ req.epoch = epoch
        <5>1. req.changes = Delta(current.body, job.plan)
          BY <4>1
        <5>2. active'.body = job.plan
          BY <3>1, <3>4, <5>1, DeltaRealises DEF Config, Job
        <5>. QED
          BY <3>1, <3>5, <4>1, <5>2 DEF Answer
      <4>2. CASE ~ (pc = "await" /\ req.epoch = epoch)
        BY <3>1, <3>8, <4>2 DEF Answer
      <4>. QED
        BY <4>1, <4>2
    <3>. QED
      BY <3>1, <3>6, <3>7, <3>9
  <2>24. CASE PatchRefused
    BY <2>24 DEF PatchRefused, Answer
  <2>25. CASE ReceiveAccepted
    <3>1. \A req \in wire : req.base \in Nat
      BY DEF Request
    <3>2. current.ver \in Nat /\ active.ver \in Nat /\ current' = active
          /\ active' = active /\ active.ver = current.ver + 1
      BY <2>25 DEF ReceiveAccepted, Config
    <3>3. reply'.status = "none" /\ inten' = inten + 1 /\ pc' = "idle"
          /\ UNCHANGED <<wire, epoch>>
      BY <2>25 DEF ReceiveAccepted, LeaveEpoch, NoReceipt
    <3>4. pc # "down" /\ current.ver = inten + 1
      BY <2>25 DEF ReceiveAccepted
    <3>. QED
      BY <3>1, <3>2, <3>3, <3>4
  <2>26. CASE ReceiveRefused
    BY <2>26 DEF ReceiveRefused, LeaveEpoch, NoReceipt
  <2>27. CASE PatchTimeout
    BY <2>27 DEF PatchTimeout, LeaveEpoch, NoReceipt
  <2>28. CASE Drift
    BY <2>28 DEF Drift
  <2>29. CASE Finished \/ UNCHANGED vars
    BY <2>29 DEF Finished, vars
  <2>. QED
    BY <2>1, <2>2, <2>3, <2>4, <2>5, <2>6, <2>7, <2>8, <2>9, <2>10, <2>11,
       <2>12, <2>13, <2>14, <2>15, <2>16, <2>17, <2>18, <2>19, <2>20,
       <2>21, <2>22, <2>23, <2>24, <2>25, <2>26, <2>27, <2>28, <2>29
       DEF Next, EpochStep, ServerStep
<1>. QED
  BY <1>1, <1>2, TypeCorrect, PTL DEF Spec

\* The controller and the backend agree on contents when they agree on a
\* version, and the backend is at most one version ahead.
THEOREM VersionsIdentifyContents == Spec => []SameVersionSameContent
BY VersionInvariant, PTL DEF VersionInv

\* Interventions are counted exactly when they activate a version.
THEOREM InterventionsCounted == Spec => []InterventionsAreVersions
<1>1. TypeOK /\ VersionInv => InterventionsAreVersions
  BY DEF TypeOK, VersionInv, SameVersionSameContent, InterventionsAreVersions, Config
<1>. QED
  BY <1>1, TypeCorrect, VersionInvariant, PTL

\* The waiting intervention gets the projected plan activated, or nothing.
THEOREM DeltasRealisePlans == Spec => []AppliedIsPlanned
<1>1. VersionInv => AppliedIsPlanned
  BY DEF VersionInv, ReceiptInv, AppliedIsPlanned
<1>. QED
  BY <1>1, VersionInvariant, PTL

\* While the backend is ahead of the controller no request can be accepted: it
\* would name the backend's version, and every request names one the controller
\* has had.
LEMMA NoneAcceptedWhileSplit ==
  TypeOK /\ VersionInv /\ pc # "down" /\ current.ver # active.ver => ~ PatchAccepted
<1>. SUFFICES ASSUME TypeOK, VersionInv, pc # "down", current.ver # active.ver, PatchAccepted
              PROVE  FALSE
  OBVIOUS
<1>1. PICK req \in wire : req.base = active.ver
  BY DEF PatchAccepted, Current
<1>2. req.base <= current.ver /\ active.ver \in {current.ver, current.ver + 1}
  BY <1>1 DEF VersionInv, RequestInv, SameVersionSameContent
<1>. QED
  BY <1>1, <1>2 DEF TypeOK, Config

\* A step other than an acceptance activates nothing, once there is a
\* configuration; and only an accepted receipt changes the controller's view.
LEMMA OtherSteps ==
  ASSUME [Next]_vars, pc # "down", ~ PatchAccepted
  PROVE  /\ active' = active
         /\ reply.status # "accepted" =>
              UNCHANGED <<current, inten>> /\ reply'.status # "accepted"
<1>. USE DEF controller, world, channel, NoReceipt
<1>1. CASE StartEpoch \/ Keep \/ Select \/ Dispatch \/ Plan
  BY <1>1 DEF StartEpoch, Keep, Select, Snapshot, Dispatch, Plan
<1>2. CASE NoDelay \/ Advance \/ AdvanceRefused \/ AdvanceAnswerLost
  BY <1>2 DEF NoDelay, Advance, AdvanceRefused, AdvanceAnswerLost
<1>3. CASE UnverifiedRaises \/ OutOfScopeRaises \/ Measure
  BY <1>3 DEF UnverifiedRaises, OutOfScopeRaises, Measure
<1>4. CASE ValidateAccepted \/ ValidateRefused \/ ValidateRefusedPaused
  BY <1>4 DEF ValidateAccepted, ValidateRefused, ValidateRefusedPaused
<1>5. CASE Resume \/ ResumeRefused \/ ResumeAnswerLost \/ CallFails
  BY <1>5 DEF Resume, ResumeRefused, ResumeAnswerLost, CallFails
<1>6. CASE SendPatch \/ PatchTimeout \/ ReceiveAccepted \/ ReceiveRefused
  BY <1>6 DEF SendPatch, PatchTimeout, ReceiveAccepted, ReceiveRefused
<1>7. CASE PatchRefused
  BY <1>7 DEF PatchRefused, Answer
<1>8. CASE Drift \/ Finished \/ UNCHANGED vars
  BY <1>8 DEF Drift, Finished, vars
<1>9. CASE Initialize \/ InitializeRaises
  BY <1>9 DEF Initialize, InitializeRaises
<1>. QED
  BY <1>1, <1>2, <1>3, <1>4, <1>5, <1>6, <1>7, <1>8, <1>9 DEF Next, EpochStep, ServerStep

\* A lost receipt is final: while the backend is ahead nothing is activated, and
\* unless the receipt is there to be read the controller never catches up.
THEOREM SplitFreezesBackend == Spec => NoActivationWhileSplit
<1>1. TypeOK /\ VersionInv /\ [Next]_vars
        => [pc # "down" /\ current.ver # active.ver =>
              /\ active' = active
              /\ reply.status # "accepted" =>
                   UNCHANGED <<current, inten>> /\ reply'.status # "accepted"]_vars
  BY NoneAcceptedWhileSplit, OtherSteps
<1>. QED
  BY <1>1, TypeCorrect, VersionInvariant, PTL DEF Spec, NoActivationWhileSplit

\* One activation outdates every other patch under way, so of all the requests
\* that were given up with the same base at most one takes effect.
THEOREM OneActivationPerBase == Spec => ActivationOutdates
<1>1. TypeOK /\ VersionInv /\ [Next]_vars
        => [pc # "down" /\ active' # active =>
              \A req \in wire' : req.base < active'.ver]_vars
  <2>. SUFFICES ASSUME TypeOK, VersionInv, [Next]_vars, pc # "down", active' # active,
                       NEW req \in wire'
                PROVE  req.base < active'.ver
    OBVIOUS
  <2>1. PatchAccepted
    BY OtherSteps
  <2>2. active'.ver = active.ver + 1 /\ wire' \subseteq wire
    BY <2>1 DEF PatchAccepted
  <2>3. req.base <= current.ver /\ current.ver = active.ver
    BY <2>1, <2>2, NoneAcceptedWhileSplit DEF VersionInv, RequestInv
  <2>4. req.base \in Nat /\ active.ver \in Nat
    BY <2>2 DEF TypeOK, Request, Config
  <2>. QED
    BY <2>2, <2>3, <2>4
<1>. QED
  BY <1>1, TypeCorrect, VersionInvariant, PTL DEF Spec, ActivationOutdates

-----------------------------------------------------------------------------
(* The context, and the time at which a plan is activated.                 *)

\* Inside an epoch the context names the configuration in force.
THEOREM ContextFollowsEpoch == Spec => []EpochSeesCurrent
<1>1. Init => EpochSeesCurrent
  BY DEF Init, EpochSeesCurrent
<1>2. EpochSeesCurrent /\ [Next]_vars => EpochSeesCurrent'
  <2>. SUFFICES ASSUME EpochSeesCurrent, [Next]_vars PROVE EpochSeesCurrent'
    OBVIOUS
  <2>. USE DEF EpochSeesCurrent, controller
  <2>1. CASE Initialize \/ InitializeRaises \/ StartEpoch
    BY <2>1 DEF Initialize, InitializeRaises, StartEpoch
  <2>2. CASE Keep \/ Select \/ Dispatch \/ Plan
    BY <2>2 DEF Keep, Select, Snapshot, Dispatch, Plan, LeaveEpoch
  <2>3. CASE NoDelay \/ Advance \/ AdvanceRefused \/ AdvanceAnswerLost
    BY <2>3 DEF NoDelay, Advance, AdvanceRefused, AdvanceAnswerLost, LeaveEpoch
  <2>4. CASE UnverifiedRaises \/ OutOfScopeRaises \/ Measure
    BY <2>4 DEF UnverifiedRaises, OutOfScopeRaises, Measure, LeaveEpoch
  <2>5. CASE ValidateAccepted \/ ValidateRefused \/ ValidateRefusedPaused
    BY <2>5 DEF ValidateAccepted, ValidateRefused, ValidateRefusedPaused, LeaveEpoch
  <2>6. CASE Resume \/ ResumeRefused \/ ResumeAnswerLost \/ CallFails
    BY <2>6 DEF Resume, ResumeRefused, ResumeAnswerLost, CallFails, LeaveEpoch
  <2>7. CASE SendPatch \/ PatchTimeout \/ ReceiveAccepted \/ ReceiveRefused
    BY <2>7 DEF SendPatch, PatchTimeout, ReceiveAccepted, ReceiveRefused, LeaveEpoch
  <2>8. CASE ServerStep \/ Drift \/ Finished \/ UNCHANGED vars
    BY <2>8 DEF ServerStep, PatchAccepted, PatchRefused, Drift, Finished, vars
  <2>. QED
    BY <2>1, <2>2, <2>3, <2>4, <2>5, <2>6, <2>7, <2>8 DEF Next, EpochStep
<1>. QED
  BY <1>1, <1>2, PTL DEF Spec

\* Clock, cache and plan times never run ahead of the world.
LEMMA TimeInvariant == Spec => []TimeInv
<1>1. Init => TimeInv
  BY DEF Init, TimeInv, NoEarlyActivation
<1>2. TypeOK /\ TimeInv /\ [Next]_vars => TimeInv'
  <2>. SUFFICES ASSUME TypeOK, TimeInv, [Next]_vars PROVE TimeInv'
    OBVIOUS
  <2>. USE DEF TimeInv, NoEarlyActivation, controller, adapter, world, channel
  <2>t. /\ clock \in Nat /\ time \in Nat /\ observed \in Nat
        /\ job.delay \in Nat /\ job.before \in Nat /\ job.moved \in Nat
        /\ job.plannedAt \in Nat
    BY DEF TypeOK, Job
  <2>s. \A t \in SyncReads : Later(clock, t) \in Nat /\ Later(clock, t) <= time
    BY <2>t DEF SyncReads, CurrentTime, Later
  \* Leaving the epoch only asks for the clock and the cache.
  <2>l. ASSUME pc' \in {"down", "idle", "monitor", "dispatch"},
               clock' <= time', observed' <= time'
        PROVE  TimeInv'
    BY <2>l
  <2>1. CASE Initialize \/ InitializeRaises \/ StartEpoch
    BY <2>1, <2>l, <2>s DEF Initialize, InitializeRaises, StartEpoch
  <2>2. CASE Keep \/ Select
    <3>1. clock' = time /\ observed' = time /\ time' = time /\ cached' = TRUE
      BY <2>2, <2>t DEF Keep, Select, Snapshot, Later
    <3>. QED
      BY <2>2, <2>t, <3>1 DEF Keep, Select, LeaveEpoch
  <2>3. CASE Dispatch
    BY <2>3, <2>l DEF Dispatch, LeaveEpoch
  <2>4. CASE Plan
    <3>1. job'.plannedAt = clock
      BY <2>4 DEF Plan, TypeOK, Job
    <3>. QED
      BY <2>4, <3>1 DEF Plan
  <2>5. CASE NoDelay
    BY <2>5, <2>t DEF NoDelay
  <2>6. CASE Advance \/ AdvanceRefused
    <3>1. PICK m \in 0 .. job.delay :
            /\ time' = time + m
            /\ job'.before = CurrentTime /\ job'.moved = m
            /\ job'.plannedAt = job.plannedAt /\ job'.delay = job.delay
            /\ ShortAdvance \/ m = job.delay
      <4>1. CASE Advance
        <5>1. PICK m \in (IF ShortAdvance THEN 0 .. job.delay ELSE {job.delay}) :
                /\ time' = time + m
                /\ job' = [job EXCEPT !.before = CurrentTime, !.moved = m,
                                      !.accepted = TRUE, !.pausedSeen = ControlEpoch]
          BY <4>1 DEF Advance
        <5>2. m \in 0 .. job.delay /\ (ShortAdvance \/ m = job.delay)
          BY <2>t
        <5>. QED
          BY <5>1, <5>2 DEF TypeOK, Job
      <4>2. CASE AdvanceRefused
        BY <4>2 DEF AdvanceRefused, TypeOK, Job
      <4>. QED
        BY <2>6, <4>1, <4>2
    <3>2. pc = "delay" /\ pc' = "measure" /\ UNCHANGED <<clock, observed>>
      BY <2>6 DEF Advance, AdvanceRefused
    <3>3. CurrentTime = observed /\ observed = clock /\ job.plannedAt = clock
      BY <3>2 DEF CurrentTime
    <3>. QED
      BY <2>t, <3>1, <3>2, <3>3
  <2>7. CASE AdvanceAnswerLost
    <3>1. clock' <= time' /\ observed' <= time'
      BY <2>7, <2>t DEF AdvanceAnswerLost
    <3>. QED
      BY <2>7, <2>l, <3>1 DEF AdvanceAnswerLost, LeaveEpoch
  <2>8. CASE UnverifiedRaises \/ OutOfScopeRaises
    BY <2>8, <2>l, <2>s DEF UnverifiedRaises, OutOfScopeRaises, LeaveEpoch
  <2>9. CASE Measure
    <3>1. PICK e \in (IF job.delay = 0 THEN {"none"} ELSE Readable) :
            /\ RequireEnforcement /\ job.delay > 0 => Verified(e)
            /\ job' = [job EXCEPT !.evidence = e,
                                  !.verified = job.delay > 0 /\ Verified(e),
                                  !.plan = Project(current.body, job.plan, job.scope)]
      BY <2>9 DEF Measure
    <3>2. job'.evidence = e /\ UNCHANGED <<job.plannedAt, job.delay, job.before, job.moved>>
      BY <3>1 DEF TypeOK, Job
    <3>3. /\ pc = "measure" /\ pc' = "validate"
          /\ clock' <= time /\ UNCHANGED <<time, observed>>
      BY <2>9, <2>s DEF Measure
    <3>4. ASSUME RequireEnforcement, job.delay > 0, e = "flag" => ~ ShortAdvance
          PROVE  time - job.plannedAt >= job.delay
      <4>1. e \in {"time", "delta", "flag"} /\ Verified(e)
        BY <2>t, <3>1, <3>4 DEF Readable, Evidence
      <4>2. job.plannedAt <= job.before /\ job.before + job.moved <= time
        BY <3>3, <3>4
      <4>3. time - job.before >= job.delay \/ job.moved >= job.delay
        BY <2>t, <3>3, <3>4, <4>1 DEF Verified
      <4>. QED
        BY <2>t, <4>2, <4>3
    <3>. QED
      BY <2>t, <3>2, <3>3, <3>4
  <2>10. CASE ValidateAccepted
    <3>1. UNCHANGED <<job.plannedAt, job.delay, job.before, job.moved>>
      BY <2>10 DEF ValidateAccepted, TypeOK, Job
    <3>. QED
      BY <2>10, <3>1 DEF ValidateAccepted
  <2>11. CASE ValidateRefusedPaused \/ SendPatch
    BY <2>11 DEF ValidateRefusedPaused, SendPatch
  <2>12. CASE ValidateRefused \/ Resume \/ ResumeRefused \/ ResumeAnswerLost
    BY <2>12, <2>l
       DEF ValidateRefused, Resume, ResumeRefused, ResumeAnswerLost, LeaveEpoch
  <2>13. CASE ReceiveAccepted \/ ReceiveRefused \/ PatchTimeout \/ CallFails
    BY <2>13, <2>l
       DEF ReceiveAccepted, ReceiveRefused, PatchTimeout, CallFails, LeaveEpoch
  <2>14. CASE ServerStep
    BY <2>14 DEF ServerStep, PatchAccepted, PatchRefused
  <2>15. CASE Drift
    BY <2>15, <2>t DEF Drift
  <2>16. CASE Finished \/ UNCHANGED vars
    BY <2>16 DEF Finished, vars
  <2>. QED
    BY <2>1, <2>2, <2>3, <2>4, <2>5, <2>6, <2>7, <2>8, <2>9, <2>10, <2>11,
       <2>12, <2>13, <2>14, <2>15, <2>16
       DEF Next, EpochStep
<1>. QED
  BY <1>1, <1>2, TypeCorrect, PTL DEF Spec

\* No plan is validated or sent before its delay has passed in the world, unless
\* the verdict rests on a receipt's flag and the backend advanced less.
THEOREM DelayPrecedesActivation == Spec => []NoEarlyActivation
BY TimeInvariant, PTL DEF TimeInv

-----------------------------------------------------------------------------
(* What a verified delay is worth.                                         *)

\* A backend that advances what it is asked to makes the measurement right.
LEMMA PhysicalInvariant == ASSUME ~ ShortAdvance PROVE Spec => []PhysicalInv
<1>1. Init => PhysicalInv
  BY DEF Init, PhysicalInv, VerifiedDelayIsPhysical, NoJob
<1>2. TypeOK /\ PhysicalInv /\ [Next]_vars => PhysicalInv'
  <2>. SUFFICES ASSUME TypeOK, PhysicalInv, [Next]_vars PROVE PhysicalInv'
    OBVIOUS
  <2>. USE DEF PhysicalInv, VerifiedDelayIsPhysical
  <2>t. job \in Job /\ job.delay \in Nat
    BY DEF TypeOK, Job
  \* A step that ends the epoch, or one that leaves its locals alone.
  <2>e. ASSUME job' = NoJob PROVE PhysicalInv'
    BY <2>e DEF NoJob
  <2>q. ASSUME job' = job, pc' = pc \/ {pc, pc'} \subseteq {"down", "idle", "monitor"}
                           \/ {pc, pc'} \subseteq {"validate", "resume", "patch", "await"}
        PROVE  PhysicalInv'
    BY <2>q
  <2>1. CASE Initialize \/ InitializeRaises \/ StartEpoch \/ ServerStep \/ Drift
             \/ Finished \/ UNCHANGED vars
    BY <2>1, <2>q DEF Initialize, InitializeRaises, StartEpoch, ServerStep,
                      PatchAccepted, PatchRefused, Drift, Finished, vars
  <2>2. CASE Keep \/ Dispatch \/ AdvanceAnswerLost \/ UnverifiedRaises
             \/ OutOfScopeRaises \/ ValidateRefused \/ CallFails
    BY <2>2, <2>e DEF Keep, Dispatch, AdvanceAnswerLost, UnverifiedRaises,
                      OutOfScopeRaises, ValidateRefused, CallFails, LeaveEpoch
  <2>3. CASE Resume \/ ResumeRefused \/ ResumeAnswerLost \/ ReceiveAccepted
             \/ ReceiveRefused \/ PatchTimeout
    BY <2>3, <2>e DEF Resume, ResumeRefused, ResumeAnswerLost, ReceiveAccepted,
                      ReceiveRefused, PatchTimeout, LeaveEpoch
  <2>4. CASE Select
    BY <2>4, <2>t DEF Select, Snapshot, Job
  <2>5. CASE Plan
    BY <2>5, <2>t DEF Plan, Job
  <2>6. CASE NoDelay
    BY <2>6 DEF NoDelay
  <2>7. CASE Advance
    BY <2>7, <2>t DEF Advance, Job
  <2>8. CASE AdvanceRefused
    BY <2>8 DEF AdvanceRefused
  <2>9. CASE Measure
    <3>1. PICK e \in (IF job.delay = 0 THEN {"none"} ELSE Readable) :
            job' = [job EXCEPT !.evidence = e,
                               !.verified = job.delay > 0 /\ Verified(e),
                               !.plan = Project(current.body, job.plan, job.scope)]
      BY <2>9 DEF Measure
    <3>2. /\ job'.verified = (job.delay > 0 /\ Verified(e))
          /\ job'.moved = job.moved /\ job'.delay = job.delay
      BY <2>t, <3>1 DEF Job
    <3>3. job.delay > 0 => job.moved >= job.delay
      BY <2>9, <2>t DEF Measure
    <3>. QED
      BY <2>9, <3>2, <3>3 DEF Measure
  <2>10. CASE ValidateAccepted
    BY <2>10, <2>t DEF ValidateAccepted, Job
  <2>11. CASE ValidateRefusedPaused \/ SendPatch
    BY <2>11, <2>q DEF ValidateRefusedPaused, SendPatch
  <2>. QED
    BY <2>1, <2>2, <2>3, <2>4, <2>5, <2>6, <2>7, <2>8, <2>9, <2>10, <2>11
       DEF Next, EpochStep
<1>. QED
  BY <1>1, <1>2, TypeCorrect, PTL DEF Spec

\* Only a backend that advances less than it was asked to can get a delay
\* reported as verified that did not pass: lost answers, failing reads, refused
\* resumes and a stale cache alone cannot.
THEOREM VerifiedUnlessShort ==
  ASSUME ~ ShortAdvance PROVE Spec => []VerifiedDelayIsPhysical
<1>1. PhysicalInv => VerifiedDelayIsPhysical
  BY DEF PhysicalInv
<1>. QED
  BY <1>1, PhysicalInvariant, PTL

-----------------------------------------------------------------------------
(* The controller and the backend implement the abstract register.         *)

\* Every behaviour of the controller with its backend is a behaviour of the
\* optimistically locked register, whatever is lost, refused or late.
THEOREM ImplementsRegister == Spec => ImplementsSafely
<1>1. Init => Abstract!Init
  BY DEF Init, Abstract!Init, Bodies
<1>2. TypeOK /\ VersionInv /\ [Next]_vars => [Abstract!Next]_(Abstract!vars)
  <2>. SUFFICES ASSUME TypeOK, VersionInv, Next
                PROVE  Abstract!Next \/ UNCHANGED Abstract!vars
    BY DEF vars, controller, world, Abstract!vars
  <2>. USE DEF controller, world, channel, adapter, Abstract!vars
  \* A step that leaves both configurations alone and stays up, or down.
  <2>q. ASSUME UNCHANGED <<current, active>>, pc # "down", pc' # "down"
        PROVE  UNCHANGED Abstract!vars
    BY <2>q
  <2>1. CASE Initialize
    <3>1. PICK b \in Bodies : current' = [ver |-> 1, body |-> b] /\ active' = current'
      BY <2>1 DEF Initialize
    <3>2. Abstract!Install
      BY <2>1, <3>1 DEF Initialize, Abstract!Install
    <3>. QED
      BY <3>2 DEF Abstract!Next
  <2>2. CASE InitializeRaises
    <3>1. active' = active \/ \E b \in Bodies : active' = [ver |-> 1, body |-> b]
      BY <2>2 DEF InitializeRaises
    <3>2. pc = "down" /\ pc' = "down"
      BY <2>2 DEF InitializeRaises
    <3>3. Abstract!Install \/ UNCHANGED Abstract!vars
      BY <3>1, <3>2 DEF Abstract!Install
    <3>. QED
      BY <3>3 DEF Abstract!Next
  <2>3. CASE StartEpoch \/ Keep \/ Select \/ Dispatch \/ Plan \/ NoDelay
             \/ Advance \/ AdvanceRefused \/ AdvanceAnswerLost
    BY <2>3, <2>q
       DEF StartEpoch, Keep, Select, Snapshot, Dispatch, Plan, NoDelay, Advance,
           AdvanceRefused, AdvanceAnswerLost, LeaveEpoch
  <2>4. CASE UnverifiedRaises \/ OutOfScopeRaises \/ Measure \/ ValidateAccepted
             \/ ValidateRefused \/ ValidateRefusedPaused \/ CallFails
    BY <2>4, <2>q
       DEF UnverifiedRaises, OutOfScopeRaises, Measure, ValidateAccepted,
           ValidateRefused, ValidateRefusedPaused, CallFails, LeaveEpoch
  <2>5. CASE Resume \/ ResumeRefused \/ ResumeAnswerLost \/ SendPatch
             \/ ReceiveRefused \/ PatchTimeout
    BY <2>5, <2>q
       DEF Resume, ResumeRefused, ResumeAnswerLost, SendPatch, ReceiveRefused,
           PatchTimeout, LeaveEpoch
  <2>6. CASE PatchAccepted
    <3>1. PICK req \in wire :
            /\ Current(req)
            /\ active' = [ver |-> active.ver + 1,
                          body |-> Patched(active.body, req.changes)]
            /\ UNCHANGED <<pc, current>>
      BY <2>6 DEF PatchAccepted
    <3>2. pc # "down" /\ current = active
      BY <3>1 DEF VersionInv, RequestInv, SameVersionSameContent, Current,
                  TypeOK, Config, Request
    <3>3. Patched(active.body, req.changes) \in Bodies
      BY <3>1, PatchedIsBody DEF TypeOK, Config, Request
    <3>4. Abstract!Modify
      BY <3>1, <3>2, <3>3 DEF Abstract!Modify, Bodies
    <3>. QED
      BY <3>4 DEF Abstract!Next
  <2>7. CASE PatchRefused \/ Drift \/ Finished
    BY <2>7 DEF PatchRefused, Drift, Finished, vars
  <2>8. CASE ReceiveAccepted
    <3>1. current' = active /\ active' = active /\ pc # "down" /\ pc' # "down"
      BY <2>8 DEF ReceiveAccepted, LeaveEpoch, VersionInv, ReceiptInv
    <3>2. Abstract!Learn
      BY <3>1 DEF Abstract!Learn
    <3>. QED
      BY <3>2 DEF Abstract!Next
  <2>. QED
    BY <2>1, <2>2, <2>3, <2>4, <2>5, <2>6, <2>7, <2>8
       DEF Next, EpochStep, ServerStep
<1>. QED
  BY <1>1, <1>2, TypeCorrect, VersionInvariant, PTL
     DEF Spec, ImplementsSafely, Abstract!SafeSpec

-----------------------------------------------------------------------------
(* What holds with a backend that does what it is asked to.                *)

\* The epoch's request is answered in the world it was made for.
LEMMA NominalInvariant == ASSUME Nominal PROVE Spec => []NominalInv
<1>1. Init => NominalInv
  BY DEF Init, NominalInv, NoReceipt
<1>2. TypeOK /\ TimeInv /\ NominalInv /\ [Next]_vars => NominalInv'
  <2>. SUFFICES ASSUME TypeOK, TimeInv, NominalInv, [Next]_vars PROVE NominalInv'
    OBVIOUS
  <2>. USE DEF NominalInv, Nominal, controller, adapter, world, channel
  <2>t. /\ time \in Nat /\ observed \in Nat /\ paused \in BOOLEAN
        /\ job \in Job /\ job.delay \in Nat /\ job.before \in Nat
    BY DEF TypeOK, Job
  \* Leaving the epoch with no request under way, in a world that runs.
  <2>l. ASSUME pc' \in {"down", "idle", "monitor", "dispatch", "acquire"},
               wire' = {}, reply'.status = "none", ~ paused', current' = active'
        PROVE  NominalInv'
    BY <2>l
  <2>1. CASE Initialize \/ StartEpoch
    BY <2>1, <2>l DEF Initialize, StartEpoch
  <2>2. CASE Keep \/ Select \/ Dispatch
    BY <2>2, <2>l DEF Keep, Select, Snapshot, Dispatch, LeaveEpoch
  <2>3. CASE Plan
    <3>1. PICK b \in Bodies, d \in Delays :
            /\ Changed(current.body, b) \subseteq job.scope
            /\ job' = [job EXCEPT !.plan = b, !.delay = d, !.plannedAt = clock]
      BY <2>3 DEF Plan
    <3>2. job'.plan = b /\ job'.scope = job.scope
      BY <2>t, <3>1 DEF Job
    <3>3. ~ OutOfScope'
      BY <2>3, <3>1, <3>2 DEF Plan, OutOfScope
    <3>. QED
      BY <2>3, <3>3 DEF Plan
  <2>4. CASE NoDelay
    BY <2>4, <2>t DEF NoDelay, OutOfScope
  <2>5. CASE Advance
    <3>1. /\ time' = time + job.delay
          /\ job' = [job EXCEPT !.before = CurrentTime, !.moved = job.delay,
                                !.accepted = TRUE, !.pausedSeen = ControlEpoch]
      BY <2>5 DEF Advance
    <3>2. /\ job'.before = CurrentTime /\ job'.accepted /\ job'.delay = job.delay
          /\ job'.pausedSeen = ControlEpoch
          /\ job'.plan = job.plan /\ job'.scope = job.scope
      BY <2>t, <3>1 DEF Job
    <3>3. CurrentTime \in Nat /\ CurrentTime <= time
      BY <2>t DEF CurrentTime, TimeInv
    <3>4. time' - job'.before >= job'.delay
      BY <2>t, <3>1, <3>2, <3>3
    <3>5. ~ OutOfScope'
      BY <2>5, <3>2 DEF Advance, OutOfScope
    <3>6. pc = "delay" /\ pc' = "measure" /\ paused' = ControlEpoch
          /\ UNCHANGED <<current, active, wire, reply>>
      BY <2>5 DEF Advance
    <3>. QED
      BY <3>2, <3>4, <3>5, <3>6
  <2>6. CASE UnverifiedRaises
    <3>1. \A e \in Readable : Verified(e)
      BY <2>6, <2>t DEF UnverifiedRaises, Readable, Verified
    <3>. QED
      BY <2>6, <3>1 DEF UnverifiedRaises
  <2>7. CASE OutOfScopeRaises
    BY <2>7 DEF OutOfScopeRaises
  <2>8. CASE Measure
    <3>1. job'.pausedSeen = job.pausedSeen
      BY <2>8, <2>t DEF Measure, Job
    <3>. QED
      BY <2>8, <3>1 DEF Measure
  <2>9. CASE ValidateAccepted
    <3>1. job'.token = time
      BY <2>9, <2>t DEF ValidateAccepted, Job
    <3>. QED
      BY <2>9, <3>1 DEF ValidateAccepted
  <2>10. CASE ValidateRefused
    BY <2>10, <2>l DEF ValidateRefused, LeaveEpoch
  <2>11. CASE ValidateRefusedPaused
    BY <2>11 DEF ValidateRefusedPaused
  <2>12. CASE Resume
    BY <2>12, <2>l DEF Resume, LeaveEpoch
  <2>13. CASE SendPatch
    <3>1. /\ pc = "patch" /\ pc' = "await" /\ wire = {}
          /\ UNCHANGED <<current, active, paused, time, job, epoch, reply>>
      BY <2>13 DEF SendPatch
    <3>2. PICK req : /\ wire' = wire \cup {req}
                     /\ req = [epoch   |-> epoch, base |-> current.ver,
                               changes |-> Delta(current.body, job.plan),
                               token   |-> job.token]
      BY <2>13 DEF SendPatch
    <3>3. wire' = {req} /\ req.epoch = epoch /\ req.base = current.ver
          /\ req.token = job.token
      BY <3>1, <3>2
    <3>. QED
      BY <3>1, <3>3
  <2>14. CASE PatchAccepted
    <3>1. PICK req \in wire :
            /\ active' = [ver |-> active.ver + 1,
                          body |-> Patched(active.body, req.changes)]
            /\ paused' = FALSE /\ wire' = wire \ {req}
            /\ Answer(req, "accepted", active')
            /\ UNCHANGED <<pc, controller, clock, epoch, job, adapter, time>>
      BY <2>14 DEF PatchAccepted
    <3>2. wire' = {} /\ pc = "await" /\ req.epoch = epoch
      BY <3>1
    <3>3. reply' = [status |-> "accepted", after |-> active']
      BY <3>1, <3>2 DEF Answer
    <3>. QED
      BY <3>1, <3>2, <3>3
  <2>15. CASE PatchRefused
    <3>1. PICK req \in wire :
            /\ ~ Current(req)
            /\ wire' = wire \ {req}
            /\ Answer(req, "refused", reply.after)
            /\ UNCHANGED <<pc, controller, clock, epoch, job, adapter, world>>
      BY <2>15 DEF PatchRefused
    <3>2. wire' = {} /\ pc = "await" /\ req.epoch = epoch /\ reply.status = "none"
      BY <3>1
    <3>3. reply' = [status |-> "refused", after |-> reply.after]
      BY <3>1, <3>2 DEF Answer
    <3>4. ~ paused
      BY <3>1, <3>2 DEF Current
    <3>. QED
      BY <3>1, <3>2, <3>3, <3>4
  <2>16. CASE ReceiveAccepted \/ ReceiveRefused
    BY <2>16, <2>l DEF ReceiveAccepted, ReceiveRefused, NoReceipt, LeaveEpoch
  <2>17. CASE Drift
    BY <2>17, <2>t DEF Drift, OutOfScope
  <2>18. CASE Finished \/ UNCHANGED vars
    BY <2>18 DEF Finished, vars, OutOfScope
  \* The actions of the faults.
  <2>19. CASE InitializeRaises \/ AdvanceRefused \/ AdvanceAnswerLost
              \/ ResumeRefused \/ ResumeAnswerLost \/ PatchTimeout \/ CallFails
    BY <2>19 DEF InitializeRaises, AdvanceRefused, AdvanceAnswerLost, ResumeRefused,
                 ResumeAnswerLost, PatchTimeout, CallFails
  <2>. QED
    BY <2>1, <2>2, <2>3, <2>4, <2>5, <2>6, <2>7, <2>8, <2>9, <2>10, <2>11, <2>12,
       <2>13, <2>14, <2>15, <2>16, <2>17, <2>18, <2>19
       DEF Next, EpochStep, ServerStep
<1>. QED
  BY <1>1, <1>2, TypeCorrect, TimeInvariant, PTL DEF Spec

\* No epoch ends and leaves the world stopped, if the backend advances what it is
\* asked to, answers every call and refuses only outdated patches.
THEOREM WorldRunsAgain == ASSUME Nominal PROVE Spec => []IdleWorldRuns
<1>1. NominalInv => IdleWorldRuns
  BY DEF NominalInv, IdleWorldRuns
<1>. QED
  BY <1>1, NominalInvariant, PTL

\* With such a backend, no task is dispatched under another configuration than
\* the one the backend executes.
THEOREM DispatchIsCurrent == ASSUME Nominal PROVE Spec => []DispatchUnderActive
<1>1. NominalInv => DispatchUnderActive
  BY DEF NominalInv, DispatchUnderActive
<1>. QED
  BY <1>1, NominalInvariant, PTL

-----------------------------------------------------------------------------
(* What an epoch does towards its end.                                     *)

\* While the controller waits, its own request or its receipt exists.
THEOREM WaitersAreServed == Spec => []WaiterIsServed
<1>1. Init => WaiterIsServed
  BY DEF Init, WaiterIsServed
<1>2. WaiterIsServed /\ [Next]_vars => WaiterIsServed'
  <2>. SUFFICES ASSUME WaiterIsServed, [Next]_vars, pc' = "await" PROVE WaiterIsServed'
    BY DEF WaiterIsServed
  <2>. USE DEF WaiterIsServed, channel, controller, LeaveEpoch
  <2>1. CASE SendPatch
    <3>. DEFINE sent == [epoch |-> epoch, base |-> current.ver,
                         changes |-> Delta(current.body, job.plan), token |-> job.token]
    <3>1. sent \in wire' /\ sent.epoch = epoch
      BY <2>1 DEF SendPatch
    <3>. HIDE DEF sent
    <3>. QED
      BY <2>1, <3>1 DEF SendPatch
  <2>2. CASE PatchAccepted
    BY <2>2 DEF PatchAccepted, Answer
  <2>3. CASE PatchRefused
    BY <2>3 DEF PatchRefused, Answer
  <2>4. CASE Drift \/ Finished \/ UNCHANGED vars
    BY <2>4 DEF Drift, Finished, vars
  <2>5. CASE Initialize \/ InitializeRaises \/ StartEpoch
    BY <2>5 DEF Initialize, InitializeRaises, StartEpoch
  <2>6. CASE Keep \/ Select \/ Dispatch \/ Plan
    BY <2>6 DEF Keep, Select, Dispatch, Plan
  <2>7. CASE NoDelay \/ Advance \/ AdvanceRefused \/ AdvanceAnswerLost
    BY <2>7 DEF NoDelay, Advance, AdvanceRefused, AdvanceAnswerLost
  <2>8. CASE UnverifiedRaises \/ OutOfScopeRaises \/ Measure
    BY <2>8 DEF UnverifiedRaises, OutOfScopeRaises, Measure
  <2>9. CASE ValidateAccepted \/ ValidateRefused \/ ValidateRefusedPaused
    BY <2>9 DEF ValidateAccepted, ValidateRefused, ValidateRefusedPaused
  <2>10. CASE Resume \/ ResumeRefused \/ ResumeAnswerLost \/ CallFails
    BY <2>10 DEF Resume, ResumeRefused, ResumeAnswerLost, CallFails
  <2>11. CASE PatchTimeout \/ ReceiveAccepted \/ ReceiveRefused
    BY <2>11 DEF PatchTimeout, ReceiveAccepted, ReceiveRefused
  <2>. QED
    BY <2>1, <2>2, <2>3, <2>4, <2>5, <2>6, <2>7, <2>8, <2>9, <2>10, <2>11
       DEF Next, EpochStep, ServerStep
<1>. QED
  BY <1>1, <1>2, PTL DEF Spec

\* Every step inside an epoch leads down the control points.
THEOREM EpochsAreFinite == Spec => EpochDescends
<1>1. TypeOK /\ [Next]_vars
        => [pc \notin {"down", "idle"} =>
              /\ epoch' = epoch
              /\ pc' = pc \/ StepsLeft' < StepsLeft
              /\ pc = "await" => wire' \subseteq wire]_vars
  <2>. SUFFICES ASSUME TypeOK, [Next]_vars, pc \notin {"down", "idle"}
                PROVE  /\ epoch' = epoch
                       /\ pc' = pc \/ StepsLeft' < StepsLeft
                       /\ pc = "await" => wire' \subseteq wire
    OBVIOUS
  <2>. USE DEF StepsLeft, LeaveEpoch, channel
  <2>1. CASE Keep \/ Select \/ Dispatch \/ Plan
    <3>1. CASE Keep
      BY <3>1 DEF Keep, Snapshot
    <3>2. CASE Select
      BY <3>2 DEF Select, Snapshot
    <3>3. CASE Dispatch
      BY <3>3 DEF Dispatch
    <3>4. CASE Plan
      BY <3>4 DEF Plan
    <3>. QED
      BY <2>1, <3>1, <3>2, <3>3, <3>4
  <2>2. CASE NoDelay \/ Advance \/ AdvanceRefused \/ AdvanceAnswerLost
    <3>1. CASE NoDelay
      BY <3>1 DEF NoDelay
    <3>2. CASE Advance
      BY <3>2 DEF Advance
    <3>3. CASE AdvanceRefused
      BY <3>3 DEF AdvanceRefused
    <3>4. CASE AdvanceAnswerLost
      BY <3>4 DEF AdvanceAnswerLost
    <3>. QED
      BY <2>2, <3>1, <3>2, <3>3, <3>4
  <2>3. CASE UnverifiedRaises \/ OutOfScopeRaises \/ Measure
    <3>1. CASE UnverifiedRaises
      BY <3>1 DEF UnverifiedRaises
    <3>2. CASE OutOfScopeRaises
      BY <3>2 DEF OutOfScopeRaises
    <3>3. CASE Measure
      BY <3>3 DEF Measure
    <3>. QED
      BY <2>3, <3>1, <3>2, <3>3
  <2>4. CASE ValidateAccepted \/ ValidateRefused \/ ValidateRefusedPaused
    BY <2>4 DEF ValidateAccepted, ValidateRefused, ValidateRefusedPaused
  <2>5. CASE Resume \/ ResumeRefused \/ ResumeAnswerLost \/ CallFails
    BY <2>5 DEF Resume, ResumeRefused, ResumeAnswerLost, CallFails
  <2>6. CASE SendPatch \/ PatchTimeout \/ ReceiveAccepted \/ ReceiveRefused
    BY <2>6 DEF SendPatch, PatchTimeout, ReceiveAccepted, ReceiveRefused
  <2>7. CASE ServerStep \/ Drift \/ UNCHANGED vars
    BY <2>7 DEF ServerStep, PatchAccepted, PatchRefused, Drift, vars
  <2>8. CASE Initialize \/ InitializeRaises \/ StartEpoch \/ Finished
    BY <2>8 DEF Initialize, InitializeRaises, StartEpoch, Finished
  <2>. QED
    BY <2>1, <2>2, <2>3, <2>4, <2>5, <2>6, <2>7, <2>8 DEF Next, EpochStep
<1>. QED
  BY <1>1, TypeCorrect, PTL DEF Spec, EpochDescends

=============================================================================
