--------------------------- MODULE TrainingSchedule ---------------------------
(***************************************************************************)
(* HierarchicalTrainer.train() (agents/hierarchical_trainer.py): collect an *)
(* episode with the current networks, feed the replay ring (replay.py) and *)
(* the encoder's history (models/gnn.py), then maybe update the upper      *)
(* agent (mappo_upper.py, or a value-based one of upper_variants.py) and   *)
(* maybe the lower one (maddpg_lower.py).                                  *)
(*                                                                         *)
(* A transition is its number; an observation is the transition it opens.  *)
(* Networks are the number of optimizer steps they have taken.             *)
(***************************************************************************)
EXTENDS Integers, Sequences, FiniteSets

CONSTANTS
  TotalEpisodes,
  EpisodeLen,
  Capacity,   \* of the replay buffer
  Rewards,    \* rewards a step may return
  Values,     \* what the critic may answer
  Setups      \* the training configurations that are tried

Setup == [upper: {"ppo", "value"}, upper_update_every: Nat \ {0},
          lower_update_every: Nat \ {0}, lower_updates: Nat \ {0},
          upper_pretrain: Nat, lower_enabled: BOOLEAN, shared_joint: BOOLEAN,
          history_len: Nat \ {0}, reencode: BOOLEAN,
          epochs: Nat \ {0}, minibatch: Nat \ {0}, kl_stop: BOOLEAN,
          upper_warmup: Nat, upper_batch: Nat, lower_warmup: Nat, lower_batch: Nat,
          gamma: Nat, lambda: {0, 1}]

ASSUME SizeAssumption ==
  /\ TotalEpisodes \in Nat /\ EpisodeLen \in Nat \ {0} /\ Capacity \in Nat \ {0}
  /\ Rewards \subseteq Int /\ Values \subseteq Int
ASSUME SetupsAssumption == Setups \subseteq Setup

VARIABLES
  cfg,         \* the configuration; never changes
  pc,          \* "episode", "act", "upper", "ppo" or "lower"
  episode, t,
  total,       \* transitions so far
  rollout,     \* RolloutBuffer: one record per step of the episode
  storage, pos,            \* ReplayBuffer
  history,     \* TemporalTopologyEncoder._history
  returns,     \* the value targets of the PPO update
  epoch, left, used,       \* PPO: epoch, steps left in it, uses of each step
  upper_updates, lower_updates,      \* upper_update_count, lower_update_count
  since_upper, since_lower,          \* env_steps_since_*_update
  upper_net,   \* optimizer steps of the upper agent, its encoder included
  lower_net    \* optimizer steps of the lower agent

ppo      == <<returns, epoch, left, used>>
counters == <<upper_updates, lower_updates, since_upper, since_lower>>
vars     == <<cfg, pc, episode, t, total, rollout, storage, pos, history, ppo, counters,
              upper_net, lower_net>>

-----------------------------------------------------------------------------
\* Buffers and encoder.

Last(s, n) == IF Len(s) <= n THEN s ELSE SubSeq(s, Len(s) - n + 1, Len(s))

\* What TemporalTopologyEncoder.forward() reads of its history.
Past(h) == Last(h, cfg.history_len - 1)

\* Mutant of Remembered: the history is not cut to its length.
RememberedForever(h, obs) == Append(h, obs)

\* forward() with update_state: the history keeps the last history_len items.
Remembered(h, obs) == Last(Append(h, obs), cfg.history_len)

\* Mutant of Slot: the position is moved before the write.
SlotAfter == ((pos + 1) % Capacity) + 1

\* Where ReplayBuffer.add() writes once the buffer is full.
Slot == pos + 1

\* ReplayBuffer.add()
Add(transition) ==
  IF Len(storage) < Capacity
    THEN storage' = Append(storage, transition) /\ UNCHANGED pos
    ELSE /\ storage' = [storage EXCEPT ![Slot] = transition]
         /\ pos' = (pos + 1) % Capacity

\* Mutant of Enough: only the warm-up is looked at.
EnoughForWarmup(warmup, batch) == Len(storage) >= warmup

\* update() of the value-based and of the lower agents trains only with this
\* much in the buffer, and then samples the batch without replacement.
Enough(warmup, batch) == Len(storage) >= warmup /\ Len(storage) >= batch

\* Mutant of Gae: the return of a step forgets the value it was taken from.
GaeAdvantages(steps) ==
  LET T == Len(steps)
      adv[i \in 1 .. T + 1] ==
        IF i = T + 1 THEN 0
        ELSE steps[i].reward + (IF i = T THEN 0 ELSE cfg.gamma * adv[i + 1])
               - steps[i].value
  IN  [i \in 1 .. T |-> adv[i]]

\* _gae(): next_value and next_adv run backwards over the rollout.
Gae(steps) ==
  LET T    == Len(steps)
      mask == [i \in 1 .. T |-> IF steps[i].done THEN 0 ELSE 1]
      next == [i \in 1 .. T |-> IF i = T THEN 0 ELSE steps[i + 1].value]
      adv[i \in 1 .. T + 1] ==
        IF i = T + 1 THEN 0
        ELSE steps[i].reward + cfg.gamma * next[i] * mask[i] - steps[i].value
               + cfg.lambda * cfg.gamma * mask[i] * adv[i + 1]
  IN  [i \in 1 .. T |-> adv[i] + steps[i].value]

\* _episode_train_phase(), _use_neutral_lower(), _lower_training_enabled().
Pretraining  == cfg.upper_pretrain > 0 /\ episode <= cfg.upper_pretrain
LowerTrains  == cfg.lower_enabled /\ ~Pretraining

\* Mutant of UpperDue: the cadence is counted from episode 0.
UpperDueFromZero == (episode - 1) % cfg.upper_update_every = 0

UpperDue == episode % cfg.upper_update_every = 0
LowerDue == LowerTrains /\ episode % cfg.lower_update_every = 0

-----------------------------------------------------------------------------
Init ==
  /\ cfg \in Setups
  /\ pc = "episode" /\ episode = 0 /\ t = 0 /\ total = 0
  /\ rollout = <<>> /\ storage = <<>> /\ pos = 0 /\ history = <<>>
  /\ returns = <<>> /\ epoch = 0 /\ left = {} /\ used = <<>>
  /\ upper_updates = 0 /\ lower_updates = 0 /\ since_upper = 0 /\ since_lower = 0
  /\ upper_net = 0 /\ lower_net = 0

\* Mutant of StartEpisode: the rollout is kept until it is used.
StartEpisodeKeepingRollout ==
  /\ pc = "episode" /\ episode < TotalEpisodes
  /\ episode' = episode + 1 /\ t' = 0
  /\ rollout' = IF episode > 0 /\ UpperDue THEN <<>> ELSE rollout
  /\ history' = <<>>
  /\ pc' = "act"
  /\ UNCHANGED <<cfg, total, storage, pos, ppo, counters, upper_net, lower_net>>

\* Mutant of StartEpisode: the encoder keeps the history of the last episode.
StartEpisodeWithMemory ==
  /\ pc = "episode" /\ episode < TotalEpisodes
  /\ episode' = episode + 1 /\ t' = 0
  /\ rollout' = <<>>
  /\ pc' = "act"
  /\ UNCHANGED <<cfg, total, storage, pos, history, ppo, counters, upper_net, lower_net>>

\* An episode starts with an empty rollout and _reset_temporal_states().
StartEpisode ==
  /\ pc = "episode" /\ episode < TotalEpisodes
  /\ episode' = episode + 1 /\ t' = 0
  /\ rollout' = <<>> /\ history' = <<>>
  /\ pc' = "act"
  /\ UNCHANGED <<cfg, total, storage, pos, ppo, counters, upper_net, lower_net>>

\* One slot: the upper agent acts and the encoder remembers the observation, a
\* learned lower agent that re-encodes with the shared encoder remembers it
\* once more, the environment steps, and both buffers get the transition.
Act(reward, value) ==
  LET seen == Append(Past(history), total)
      once == Remembered(history, total)
      done == t + 1 = EpisodeLen
  IN  /\ pc = "act"
      /\ history' = IF cfg.reencode /\ ~Pretraining THEN Remembered(once, total) ELSE once
      /\ rollout' = Append(rollout, [obs |-> total, context |-> seen, net |-> upper_net,
                                     reward |-> reward, value |-> value, done |-> done])
      /\ Add(total)
      /\ total' = total + 1 /\ t' = t + 1
      /\ since_upper' = since_upper + 1 /\ since_lower' = since_lower + 1
      /\ pc' = IF done THEN "upper" ELSE "act"
      /\ UNCHANGED <<cfg, episode, ppo, upper_updates, lower_updates, upper_net, lower_net>>

\* _maybe_update_upper(): not this episode.  The rollout is discarded.
SkipUpper ==
  /\ pc = "upper" /\ ~UpperDue
  /\ pc' = "lower"
  /\ UNCHANGED <<cfg, episode, t, total, rollout, storage, pos, history, ppo, counters,
                 upper_net, lower_net>>

\* MAPPOUpperAgent.update(): returns and advantages first, with the values the
\* critic gave while acting.
StartPPO ==
  /\ pc = "upper" /\ UpperDue /\ cfg.upper = "ppo"
  /\ returns' = Gae(rollout)
  /\ epoch' = 1 /\ left' = DOMAIN rollout /\ used' = [i \in DOMAIN rollout |-> 0]
  /\ pc' = "ppo"
  /\ UNCHANGED <<cfg, episode, t, total, rollout, storage, pos, history, counters,
                 upper_net, lower_net>>

UpperUpdated ==
  /\ upper_updates' = upper_updates + 1 /\ since_upper' = 0
  /\ pc' = "lower"

\* Mutant of EpochOver: a last minibatch that is not full is dropped.
EpochOverEarly(batch) == Cardinality(left \ batch) < cfg.minibatch

\* range(0, steps, steps_per_minibatch) is exhausted.
EpochOver(batch) == batch = left

\* A minibatch of _update_standard_ppo(): the next steps of the permutation,
\* one optimizer step.  It ends the epoch when nothing is left, and the whole
\* update after the last epoch or when the KL estimate passes its target.
Minibatch(batch) ==
  /\ pc = "ppo"
  /\ batch \subseteq left /\ batch # {}
  /\ Cardinality(batch) = cfg.minibatch \/ (batch = left /\ Cardinality(left) < cfg.minibatch)
  /\ used' = [i \in DOMAIN used |-> IF i \in batch THEN used[i] + 1 ELSE used[i]]
  /\ upper_net' = upper_net + 1
  /\ \/ /\ ~EpochOver(batch)
        /\ left' = left \ batch
        /\ UNCHANGED <<pc, epoch, upper_updates, since_upper>>
     \/ /\ EpochOver(batch) /\ epoch < cfg.epochs
        /\ epoch' = epoch + 1 /\ left' = DOMAIN rollout
        /\ UNCHANGED <<pc, upper_updates, since_upper>>
     \/ /\ (EpochOver(batch) /\ epoch = cfg.epochs) \/ cfg.kl_stop
        /\ left' = left \ batch
        /\ UpperUpdated
        /\ UNCHANGED epoch
  /\ UNCHANGED <<cfg, episode, t, total, rollout, storage, pos, history, returns,
                 lower_updates, since_lower, lower_net>>

\* ValueBasedUpperAgent.update(): counted whether it trains or not.
ValueUpdate ==
  /\ pc = "upper" /\ UpperDue /\ cfg.upper = "value"
  /\ IF Enough(cfg.upper_warmup, cfg.upper_batch)
       THEN cfg.upper_batch <= Len(storage) /\ upper_net' = upper_net + 1
       ELSE UNCHANGED upper_net
  /\ UpperUpdated
  /\ UNCHANGED <<cfg, episode, t, total, rollout, storage, pos, history, ppo,
                 lower_updates, since_lower, lower_net>>

\* _maybe_update_lower(): not trained in this phase or not in this episode.
SkipLower ==
  /\ pc = "lower" /\ ~LowerDue
  /\ pc' = "episode"
  /\ UNCHANGED <<cfg, episode, t, total, rollout, storage, pos, history, ppo, counters,
                 upper_net, lower_net>>

\* lower_updates calls of MADDPGLowerAgent.update(), each counted, each a
\* training step if the buffer is warm.  In shared_joint mode the encoder the
\* upper agent acts with is trained along.
LowerUpdate ==
  /\ pc = "lower" /\ LowerDue
  /\ IF Enough(cfg.lower_warmup, cfg.lower_batch)
       THEN /\ cfg.lower_batch <= Len(storage)
            /\ lower_net' = lower_net + cfg.lower_updates
            /\ upper_net' = IF cfg.shared_joint THEN upper_net + cfg.lower_updates
                                                ELSE upper_net
       ELSE UNCHANGED <<upper_net, lower_net>>
  /\ lower_updates' = lower_updates + cfg.lower_updates /\ since_lower' = 0
  /\ pc' = "episode"
  /\ UNCHANGED <<cfg, episode, t, total, rollout, storage, pos, history, ppo,
                 upper_updates, since_upper>>

Next ==
  \/ StartEpisode
  \/ \E reward \in Rewards, value \in Values : Act(reward, value)
  \/ SkipUpper \/ StartPPO \/ ValueUpdate
  \/ \E batch \in SUBSET left : Minibatch(batch)
  \/ SkipLower \/ LowerUpdate

\* The loop is one thread and nothing in it waits.
Spec == Init /\ [][Next]_vars /\ WF_vars(Next)

-----------------------------------------------------------------------------
Step == [obs: Nat, context: Seq(Nat), net: Nat, reward: Rewards, value: Values,
         done: BOOLEAN]

\* Every variable has its type, the buffers are within their capacities and a
\* rollout is at most an episode.
TypeOK ==
  /\ cfg \in Setups
  /\ pc \in {"episode", "act", "upper", "ppo", "lower"}
  /\ episode \in 0 .. TotalEpisodes /\ t \in 0 .. EpisodeLen /\ total \in Nat
  /\ rollout \in Seq(Step) /\ Len(rollout) <= EpisodeLen
  /\ storage \in Seq(Nat) /\ Len(storage) <= Capacity /\ pos \in 0 .. Capacity - 1
  /\ history \in Seq(Nat) /\ Len(history) <= cfg.history_len
  /\ DOMAIN returns \subseteq 1 .. EpisodeLen /\ epoch \in Nat
  /\ left \subseteq 1 .. EpisodeLen
  /\ upper_updates \in Nat /\ lower_updates \in Nat
  /\ since_upper \in Nat /\ since_lower \in Nat
  /\ upper_net \in Nat /\ lower_net \in Nat

\* The replay ring holds exactly the last transitions, as many as fit: however
\* often it wrapped, nothing old survives and nothing new is lost.
ReplayIsWindow ==
  {storage[i] : i \in DOMAIN storage} = (total - Len(storage)) .. (total - 1)
    /\ (Len(storage) < Capacity => total = Len(storage))

\* What a PPO update starts from is one whole episode, in order and ending with
\* done, every step of it acted by the very networks the update starts from, in
\* spite of skipped updates and of the lower agent training a shared encoder.
OnPolicyRollout ==
  pc = "upper" =>
    /\ Len(rollout) = EpisodeLen
    /\ \A i \in DOMAIN rollout :
         /\ rollout[i].obs = total - EpisodeLen + i - 1
         /\ rollout[i].done = (i = EpisodeLen)
         /\ rollout[i].net = upper_net

\* The networks act on the last history_len observations of the episode and on
\* nothing of the one before.  (Not when the lower agent re-encodes with the
\* shared encoder: then every observation is remembered twice.)
ContextIsWindow ==
  ~cfg.reencode =>
    \A i \in DOMAIN rollout :
      rollout[i].context = Last([k \in 1 .. i |-> rollout[k].obs], cfg.history_len)

\* The targets of the critic are the returns of the rollout: with lambda 1 the
\* discounted rewards to go, with lambda 0 the one-step targets.
RewardsToGo ==
  LET togo[i \in 1 .. Len(rollout) + 1] ==
        IF i > Len(rollout) THEN 0
        ELSE rollout[i].reward + cfg.gamma * togo[i + 1]
  IN  togo

ReturnsAreTargets ==
  pc = "ppo" =>
    \A i \in DOMAIN rollout :
      returns[i] = IF cfg.lambda = 1 \/ i = Len(rollout) THEN RewardsToGo[i]
                   ELSE rollout[i].reward + cfg.gamma * rollout[i + 1].value

\* When an epoch ends every step of the rollout has been used once in it: the
\* minibatches partition the permutation, the short last one included.
EpochsUseEachStepOnce ==
  pc = "ppo" =>
    \A i \in DOMAIN rollout : used[i] = IF i \in left THEN epoch - 1 ELSE epoch

\* The counters of the cadence report are what the cadence says, at the end of
\* every episode and across the pretraining phase.
CountersFollowCadence ==
  pc = "episode" =>
    LET pretrained == IF ~cfg.lower_enabled THEN episode
                      ELSE IF episode < cfg.upper_pretrain THEN episode
                      ELSE cfg.upper_pretrain
        upperDue == episode \div cfg.upper_update_every
        lowerDue == (episode \div cfg.lower_update_every)
                      - (pretrained \div cfg.lower_update_every)
    IN  /\ upper_updates = upperDue
        /\ since_upper = (episode - upperDue * cfg.upper_update_every) * EpisodeLen
        /\ lower_updates = cfg.lower_updates * lowerDue
        /\ since_lower = (IF lowerDue > 0 THEN episode % cfg.lower_update_every
                                          ELSE episode) * EpisodeLen

\* Whatever the configuration, train() returns: sampling never asks for more than
\* the buffer has, which would raise, the epochs of an update run out, and
\* neither a skipped nor a stopped update leaves the loop.
TrainingEnds == <>(pc = "episode" /\ episode = TotalEpisodes)

\* A PPO update under way has a step left to do.
UpdateHasWork == pc = "ppo" => left # {} /\ epoch \in 1 .. cfg.epochs

\* An upper bound of the steps train() can still take: one for the end of the
\* upper phase, one per minibatch of one sample, one for the lower phase.
UpdateSteps == cfg.epochs * EpisodeLen + 1

PhaseSteps ==
  CASE pc = "act"     -> (EpisodeLen - t) + 1 + UpdateSteps
    [] pc = "upper"   -> 1 + UpdateSteps
    [] pc = "ppo"     -> (cfg.epochs - epoch) * EpisodeLen + Cardinality(left) + 1
    [] pc = "lower"   -> 1
    [] pc = "episode" -> 0

StepsAhead == (TotalEpisodes - episode) * (EpisodeLen + UpdateSteps + 2) + PhaseSteps

\* Every step uses one up, whatever the critic estimates, the minibatches are and
\* whichever updates are skipped: no path through an episode comes back to where
\* it was.  TrainingEnds then needs only that the loop is not left by an exception.
TrainingRunsOut == [][StepsAhead' < StepsAhead]_vars

=============================================================================
