----------------------- MODULE TrainingSchedule_proofs -----------------------
(***************************************************************************)
(* TrainingSchedule for every length of training, episode and ring, and    *)
(* every configuration: the ring buffer holds the newest transitions, a    *)
(* PPO update starts from one on-policy episode, its epochs use every step *)
(* once, the encoder acts on a window, and the cadence counters are exact. *)
(***************************************************************************)
EXTENDS TrainingSchedule, SequenceTheorems, FiniteSetTheorems, NumberLemmas, TLAPS

\* Where the ring stands: the slots before pos were written in this round, the
\* others in the round before (or in order, while the ring fills).
Ring ==
  /\ Len(storage) < Capacity => pos = 0 /\ total = Len(storage)
  /\ Len(storage) <= total
  /\ \A i \in 1 .. Len(storage) :
       storage[i] = IF i <= pos THEN total - pos + i - 1
                                ELSE total - Len(storage) + i - pos - 1

\* The rollout is the episode so far, in order.
Collected ==
  /\ t <= total
  /\ pc = "act" => t < EpisodeLen
  /\ pc = "upper" => t = EpisodeLen
  /\ pc # "episode" => Len(rollout) = t
  /\ pc # "episode" => \A i \in 1 .. Len(rollout) :
       rollout[i].obs = total - t + i - 1 /\ rollout[i].done = (i = EpisodeLen)

\* Nobody trains while an episode is collected.
OnPolicy ==
  pc \in {"act", "upper"} => \A i \in 1 .. Len(rollout) : rollout[i].net = upper_net

\* Where a PPO epoch stands.
EpochState ==
  pc = "ppo" =>
    /\ left \subseteq DOMAIN rollout
    /\ epoch \in Nat \ {0}
    /\ used \in [DOMAIN rollout -> Nat]
    /\ \A i \in DOMAIN rollout : used[i] = IF i \in left THEN epoch - 1 ELSE epoch

IInv == TypeOK /\ Ring /\ Collected /\ OnPolicy /\ EpochState

-----------------------------------------------------------------------------
\* The next position of the ring, without the remainder.
LEMMA NextPosition ==
  ASSUME NEW c \in Nat \ {0}, NEW p \in 0 .. c - 1
  PROVE  (p + 1) % c = IF p + 1 = c THEN 0 ELSE p + 1
BY SMT

\* How many items Last(s, n) has.
Kept(s, n) == IF Len(s) <= n THEN Len(s) ELSE n

\* The last n items of a sequence, one by one.
LEMMA LastItems ==
  ASSUME NEW S, NEW s \in Seq(S), NEW n \in Nat
  PROVE  /\ Last(s, n) \in Seq(S) /\ Len(Last(s, n)) = Kept(s, n)
         /\ \A j \in 1 .. Kept(s, n) : Last(s, n)[j] = s[Len(s) - Kept(s, n) + j]
<1>0. Len(s) \in Nat
  BY LenProperties
<1>1. CASE Len(s) <= n
  BY <1>0, <1>1 DEF Last, Kept
<1>2. CASE ~(Len(s) <= n)
  <2>1. Len(s) - n + 1 \in 1 .. Len(s) + 1 /\ Len(s) \in (Len(s) - n) .. Len(s)
    BY <1>0, <1>2
  <2>2. Last(s, n) = SubSeq(s, Len(s) - n + 1, Len(s))
    BY <1>2 DEF Last
  <2>3. /\ SubSeq(s, Len(s) - n + 1, Len(s)) \in Seq(S)
        /\ Len(SubSeq(s, Len(s) - n + 1, Len(s)))
             = IF Len(s) - n + 1 <= Len(s) THEN Len(s) - (Len(s) - n + 1) + 1 ELSE 0
        /\ \A i \in 1 .. Len(s) - (Len(s) - n + 1) + 1 :
             SubSeq(s, Len(s) - n + 1, Len(s))[i] = s[Len(s) - n + 1 + i - 1]
    BY <2>1, SubSeqProperties
  <2> QED BY <1>0, <1>2, <2>2, <2>3 DEF Kept
<1> QED BY <1>1, <1>2

\* The last n items of a sequence are a sequence of at most n items.
LEMMA LastType ==
  ASSUME NEW S, NEW s \in Seq(S), NEW n \in Nat
  PROVE  Last(s, n) \in Seq(S) /\ Len(Last(s, n)) <= n
<1>1. Last(s, n) \in Seq(S) /\ Len(Last(s, n)) = Kept(s, n) /\ Len(s) \in Nat
  BY LastItems, LenProperties
<1> QED BY <1>1 DEF Kept

\* What the proofs use of a configuration.
CfgOK == cfg.history_len \in Nat \ {0} /\ cfg.lower_updates \in Nat \ {0}

LEMMA CfgType == cfg \in Setups => CfgOK
BY SetupsAssumption DEF Setup, CfgOK

\* ReplayBuffer.add() turns the ring by one.
LEMMA AddTurnsRing ==
  ASSUME TypeOK, Ring, Add(total), total' = total + 1
  PROVE  /\ storage' \in Seq(Nat) /\ Len(storage') <= Capacity
         /\ pos' \in 0 .. Capacity - 1
         /\ Ring'
<1> USE SizeAssumption
<1>1. /\ total \in Nat /\ storage \in Seq(Nat) /\ Len(storage) \in 0 .. Capacity
      /\ pos \in 0 .. Capacity - 1
  BY LenProperties DEF TypeOK
<1>2. CASE Len(storage) < Capacity
  <2>1. storage' = Append(storage, total) /\ pos' = pos
    BY <1>2 DEF Add
  <2>2. /\ storage' \in Seq(Nat) /\ Len(storage') = Len(storage) + 1
        /\ \A i \in 1 .. Len(storage) : storage'[i] = storage[i]
        /\ storage'[Len(storage) + 1] = total
    BY <1>1, <2>1, AppendProperties
  <2>3. pos = 0 /\ total = Len(storage)
    BY <1>2 DEF Ring
  <2>4. \A i \in 1 .. Len(storage) : storage[i] = i - 1
    BY <1>1, <2>3 DEF Ring
  <2>5. \A i \in 1 .. Len(storage') : storage'[i] = i - 1
    <3>1. SUFFICES ASSUME NEW i \in 1 .. Len(storage')
                   PROVE  storage'[i] = i - 1
      OBVIOUS
    <3>2. CASE i = Len(storage) + 1
      BY <1>1, <2>2, <2>3, <3>2
    <3>3. CASE i # Len(storage) + 1
      <4>1. i \in 1 .. Len(storage)
        BY <1>1, <2>2, <3>3
      <4> QED BY <2>2, <2>4, <4>1
    <3> QED BY <3>2, <3>3
  <2> QED BY <1>1, <1>2, <2>1, <2>2, <2>3, <2>5 DEF Ring
<1>3. CASE ~(Len(storage) < Capacity)
  <2>1. /\ storage' = [storage EXCEPT ![pos + 1] = total]
        /\ pos' = IF pos + 1 = Capacity THEN 0 ELSE pos + 1
    BY <1>1, <1>3, NextPosition DEF Add, Slot
  <2>2. Len(storage) = Capacity /\ pos + 1 \in 1 .. Len(storage)
    BY <1>1, <1>3
  <2>3. /\ storage' \in Seq(Nat) /\ Len(storage') = Len(storage)
        /\ \A i \in 1 .. Len(storage) :
             storage'[i] = IF i = pos + 1 THEN total ELSE storage[i]
    BY <1>1, <2>1, <2>2, ExceptSeq
  <2>4. \A i \in 1 .. Len(storage) :
          storage[i] = IF i <= pos THEN total - pos + i - 1
                                   ELSE total - Capacity + i - pos - 1
    BY <2>2 DEF Ring
  <2>5. pos' \in 0 .. Capacity - 1
    BY <1>1, <2>1
  <2>6. \A i \in 1 .. Len(storage') :
          storage'[i] = IF i <= pos' THEN total' - pos' + i - 1
                                     ELSE total' - Len(storage') + i - pos' - 1
    <3>1. CASE pos + 1 = Capacity
      BY <1>1, <2>1, <2>2, <2>3, <2>4, <3>1
    <3>2. CASE pos + 1 # Capacity
      <4>1. ASSUME NEW i \in 1 .. Len(storage)
            PROVE  storage'[i] = IF i <= pos + 1 THEN total + 1 - (pos + 1) + i - 1
                                 ELSE total + 1 - Capacity + i - (pos + 1) - 1
        <5>1. i \in Int /\ pos \in Int /\ total \in Int /\ Capacity \in Int
          BY <1>1
        <5>2. CASE i = pos + 1
          BY <2>3, <5>1, <5>2
        <5>3. CASE i # pos + 1
          <6>1. storage'[i] = IF i <= pos THEN total - pos + i - 1
                                          ELSE total - Capacity + i - pos - 1
            BY <2>3, <2>4, <5>3
          <6> QED BY <5>1, <5>3, <6>1
        <5> QED BY <5>2, <5>3
      <4>2. pos' = pos + 1 /\ total' = total + 1 /\ Len(storage') = Capacity
        BY <2>1, <2>2, <2>3, <3>2
      <4>3. Len(storage) = Capacity
        BY <2>2
      <4>4. ASSUME NEW i \in 1 .. Len(storage')
            PROVE  storage'[i] = IF i <= pos' THEN total' - pos' + i - 1
                                 ELSE total' - Len(storage') + i - pos' - 1
        <5>1. i \in 1 .. Len(storage)
          BY <4>2, <4>3
        <5> QED BY <1>1, <4>1, <4>2, <5>1
      <4> QED BY <4>4
    <3> QED BY <3>1, <3>2
  <2> QED BY <1>1, <2>2, <2>3, <2>5, <2>6 DEF Ring
<1> QED BY <1>2, <1>3

-----------------------------------------------------------------------------
\* The initial states satisfy the invariant.
LEMMA Initially == Init => IInv
<1> SUFFICES ASSUME Init PROVE IInv
  OBVIOUS
<1> USE SizeAssumption DEF Init
<1>0. CfgOK
  BY CfgType DEF CfgOK
<1>1. TypeOK
  BY <1>0 DEF TypeOK, CfgOK
<1> QED BY <1>1 DEF IInv, Ring, Collected, OnPolicy, EpochState

\* A slot of the environment.
LEMMA ActStep ==
  ASSUME IInv, NEW reward \in Rewards, NEW value \in Values, Act(reward, value)
  PROVE  IInv'
<1> DEFINE seen == Append(Past(history), total)
           once == Remembered(history, total)
           done == t + 1 = EpisodeLen
           step == [obs |-> total, context |-> seen, net |-> upper_net,
                    reward |-> reward, value |-> value, done |-> done]
<1> USE SizeAssumption
<1>0. CfgOK
  BY CfgType DEF CfgOK, IInv, TypeOK
<1>1. /\ total \in Nat /\ t \in Nat /\ upper_net \in Nat /\ history \in Seq(Nat)
      /\ rollout \in Seq(Step)
  BY DEF IInv, TypeOK
<1>2. seen \in Seq(Nat)
  <2>1. Past(history) \in Seq(Nat)
    <3>1. cfg.history_len - 1 \in Nat
      BY <1>0 DEF CfgOK
    <3> QED BY <1>1, <3>1, LastType DEF Past
  <2> QED BY <1>1, <2>1, AppendProperties
<1>3. /\ once \in Seq(Nat) /\ Len(once) <= cfg.history_len
      /\ Remembered(once, total) \in Seq(Nat)
      /\ Len(Remembered(once, total)) <= cfg.history_len
  <2>1. cfg.history_len \in Nat
    BY <1>0 DEF CfgOK
  <2>2. \A h \in Seq(Nat) :
          Remembered(h, total) \in Seq(Nat) /\ Len(Remembered(h, total)) <= cfg.history_len
    BY <1>1, <2>1, LastType, AppendProperties DEF Remembered
  <2> QED BY <1>1, <2>2
<1>4. step \in Step
  BY <1>1, <1>2 DEF Step
<1>5. /\ pc = "act"
      /\ history' = IF cfg.reencode /\ ~Pretraining THEN Remembered(once, total) ELSE once
      /\ rollout' = Append(rollout, step)
      /\ Add(total)
      /\ total' = total + 1 /\ t' = t + 1
      /\ since_upper' = since_upper + 1 /\ since_lower' = since_lower + 1
      /\ pc' = IF done THEN "upper" ELSE "act"
      /\ UNCHANGED <<cfg, episode, ppo, upper_updates, lower_updates, upper_net, lower_net>>
  BY DEF Act
<1>6. /\ step.obs = total /\ step.net = upper_net /\ step.done = (t + 1 = EpisodeLen)
  OBVIOUS
<1> HIDE DEF seen, once, step
<1>7. /\ rollout' \in Seq(Step) /\ Len(rollout') = Len(rollout) + 1
      /\ \A i \in 1 .. Len(rollout) : rollout'[i] = rollout[i]
      /\ rollout'[Len(rollout) + 1] = step
  BY <1>1, <1>4, <1>5, AppendProperties
<1>8. Len(rollout) = t /\ t < EpisodeLen
  BY <1>5 DEF IInv, Collected
<1>9. /\ storage' \in Seq(Nat) /\ Len(storage') <= Capacity /\ pos' \in 0 .. Capacity - 1
      /\ Ring'
  BY <1>5, AddTurnsRing DEF IInv
<1>10. history' \in Seq(Nat) /\ Len(history') <= cfg.history_len
  BY <1>3, <1>5
<1>11. TypeOK'
  <2>1. /\ cfg' \in Setups /\ episode' \in 0 .. TotalEpisodes
        /\ DOMAIN returns' \subseteq 1 .. EpisodeLen /\ epoch' \in Nat
        /\ left' \subseteq 1 .. EpisodeLen
        /\ upper_updates' \in Nat /\ lower_updates' \in Nat
        /\ upper_net' \in Nat /\ lower_net' \in Nat
    BY <1>5 DEF IInv, TypeOK, ppo
  <2>2. since_upper' \in Nat /\ since_lower' \in Nat
    BY <1>5 DEF IInv, TypeOK
  <2>3. pc' \in {"act", "upper"} /\ total' \in Nat /\ t' \in 0 .. EpisodeLen
    BY <1>1, <1>5, <1>8
  <2>4. Len(rollout') <= EpisodeLen
    BY <1>1, <1>7, <1>8
  <2>5. cfg' = cfg
    BY <1>5
  <2> QED BY <1>7, <1>9, <1>10, <2>1, <2>2, <2>3, <2>4, <2>5 DEF TypeOK
<1>12. Collected'
  <2>1. t' <= total'
    BY <1>1, <1>5 DEF IInv, Collected
  <2>2. pc' = IF t + 1 = EpisodeLen THEN "upper" ELSE "act"
    BY <1>5
  <2>3. Len(rollout') = t'
    BY <1>5, <1>7, <1>8
  <2>4. ASSUME NEW i \in 1 .. Len(rollout')
        PROVE  rollout'[i].obs = total' - t' + i - 1 /\ rollout'[i].done = (i = EpisodeLen)
    <3>1. CASE i = t + 1
      BY <1>1, <1>5, <1>6, <1>7, <1>8, <3>1
    <3>2. CASE i # t + 1
      <4>1. i \in 1 .. Len(rollout) /\ rollout'[i] = rollout[i]
        BY <1>1, <1>7, <1>8, <3>2
      <4>2. rollout[i].obs = total - t + i - 1 /\ rollout[i].done = (i = EpisodeLen)
        BY <1>5, <4>1 DEF IInv, Collected
      <4> QED BY <1>1, <1>5, <4>1, <4>2
    <3> QED BY <3>1, <3>2
  <2>5. /\ pc' = "act" => t' < EpisodeLen
        /\ pc' = "upper" => t' = EpisodeLen
    BY <1>1, <1>5, <1>8, <2>2
  <2> QED BY <2>1, <2>3, <2>4, <2>5 DEF Collected
<1>13. OnPolicy'
  <2>1. ASSUME NEW i \in 1 .. Len(rollout')
        PROVE  rollout'[i].net = upper_net
    <3>1. CASE i = t + 1
      BY <1>6, <1>7, <1>8, <3>1
    <3>2. CASE i # t + 1
      <4>1. i \in 1 .. Len(rollout) /\ rollout'[i] = rollout[i]
        BY <1>1, <1>7, <1>8, <3>2
      <4> QED BY <1>5, <4>1 DEF IInv, OnPolicy
    <3> QED BY <3>1, <3>2
  <2> QED BY <1>5, <2>1 DEF OnPolicy
<1>14. EpochState'
  BY <1>5 DEF EpochState
<1> QED BY <1>9, <1>11, <1>12, <1>13, <1>14 DEF IInv

\* A PPO minibatch.
LEMMA MinibatchStep ==
  ASSUME IInv, NEW batch \in SUBSET left, Minibatch(batch)
  PROVE  IInv'
<1> USE SizeAssumption
<1>1. /\ pc = "ppo" /\ pc' \in {"ppo", "lower"}
      /\ used' = [i \in DOMAIN used |-> IF i \in batch THEN used[i] + 1 ELSE used[i]]
      /\ upper_net' = upper_net + 1
      /\ epoch' \in {epoch, epoch + 1}
      /\ left' = left \ batch \/ left' = DOMAIN rollout
      /\ UNCHANGED <<cfg, episode, t, total, rollout, storage, pos, history, returns,
                     lower_updates, since_lower, lower_net>>
  BY DEF Minibatch, UpperUpdated
<1>2. /\ left \subseteq DOMAIN rollout /\ epoch \in Nat \ {0}
      /\ used \in [DOMAIN rollout -> Nat]
      /\ \A i \in DOMAIN rollout : used[i] = IF i \in left THEN epoch - 1 ELSE epoch
  BY <1>1 DEF IInv, EpochState
<1>3. TypeOK'
  <2>1. /\ cfg' \in Setups /\ episode' \in 0 .. TotalEpisodes /\ t' \in 0 .. EpisodeLen
        /\ total' \in Nat /\ rollout' \in Seq(Step) /\ Len(rollout') <= EpisodeLen
        /\ storage' \in Seq(Nat) /\ Len(storage') <= Capacity /\ pos' \in 0 .. Capacity - 1
        /\ history' \in Seq(Nat) /\ Len(history') <= cfg'.history_len
        /\ DOMAIN returns' \subseteq 1 .. EpisodeLen
        /\ lower_updates' \in Nat /\ since_lower' \in Nat /\ lower_net' \in Nat
    BY <1>1 DEF IInv, TypeOK
  <2>2. /\ upper_net' \in Nat /\ epoch' \in Nat
        /\ upper_updates' \in Nat /\ since_upper' \in Nat
    BY <1>1, <1>2 DEF IInv, TypeOK, Minibatch, UpperUpdated
  <2>3. DOMAIN rollout \subseteq 1 .. EpisodeLen
    BY LenProperties DEF IInv, TypeOK
  <2>4. left' \subseteq 1 .. EpisodeLen
    BY <1>1, <1>2, <2>3
  <2> QED BY <1>1, <2>1, <2>2, <2>4 DEF TypeOK
<1>4. EpochState'
  <2>1. \A i \in DOMAIN rollout : used'[i] = IF i \in left \ batch THEN epoch - 1 ELSE epoch
    BY <1>1, <1>2
  <2>2. used' \in [DOMAIN rollout -> Nat]
    BY <1>1, <1>2
  <2>3. CASE ~EpochOver(batch) /\ left' = left \ batch /\ epoch' = epoch
    BY <1>1, <1>2, <2>1, <2>2, <2>3 DEF EpochState
  <2>4. CASE EpochOver(batch) /\ epoch' = epoch + 1 /\ left' = DOMAIN rollout
    BY <1>1, <1>2, <2>1, <2>2, <2>4 DEF EpochState, EpochOver
  <2>5. CASE pc' = "lower"
    BY <2>5 DEF EpochState
  <2> QED BY <2>3, <2>4, <2>5 DEF Minibatch, UpperUpdated
<1>5. Ring' /\ Collected' /\ OnPolicy'
  BY <1>1 DEF IInv, Ring, Collected, OnPolicy
<1> QED BY <1>3, <1>4, <1>5 DEF IInv

\* Starting a PPO update.
LEMMA StartPPOStep == IInv /\ StartPPO => IInv'
<1> SUFFICES ASSUME IInv, StartPPO PROVE IInv'
  OBVIOUS
<1>1. /\ pc' = "ppo" /\ pc = "upper" /\ epoch' = 1 /\ left' = DOMAIN rollout
      /\ used' = [i \in DOMAIN rollout |-> 0] /\ DOMAIN returns' = 1 .. Len(rollout)
      /\ UNCHANGED <<cfg, episode, t, total, rollout, storage, pos, history, counters,
                     upper_net, lower_net>>
  BY DEF StartPPO, Gae
<1>2. DOMAIN rollout = 1 .. Len(rollout) /\ Len(rollout) \in Nat /\ Len(rollout) <= EpisodeLen
  BY LenProperties DEF IInv, TypeOK
<1>3. 1 .. Len(rollout) \subseteq 1 .. EpisodeLen
  BY <1>2, SizeAssumption
<1>4. TypeOK'
  BY <1>1, <1>2, <1>3 DEF IInv, TypeOK, counters
<1>5. EpochState'
  BY <1>1 DEF EpochState
<1>6. Ring' /\ Collected' /\ OnPolicy'
  BY <1>1 DEF IInv, Ring, Collected, OnPolicy
<1> QED BY <1>4, <1>5, <1>6 DEF IInv

\* Every step keeps the invariant.
LEMMA Preserved == IInv /\ [Next]_vars => IInv'
<1> SUFFICES ASSUME IInv, [Next]_vars PROVE IInv'
  OBVIOUS
<1> USE SizeAssumption DEF IInv, TypeOK, Ring, Collected, OnPolicy, EpochState
<1>1. CASE StartEpisode
  BY <1>1, CfgType DEF StartEpisode, ppo, counters, CfgOK
<1>2. ASSUME NEW reward \in Rewards, NEW value \in Values, Act(reward, value) PROVE IInv'
  BY <1>2, ActStep
<1>3. CASE SkipUpper
  BY <1>3 DEF SkipUpper, ppo, counters
<1>4. CASE StartPPO
  BY <1>4, StartPPOStep
<1>5. CASE ValueUpdate
  BY <1>5 DEF ValueUpdate, UpperUpdated, ppo
<1>6. ASSUME NEW batch \in SUBSET left, Minibatch(batch) PROVE IInv'
  BY <1>6, MinibatchStep
<1>7. CASE SkipLower
  BY <1>7 DEF SkipLower, ppo, counters
<1>8. CASE LowerUpdate
  <2>1. cfg.lower_updates \in Nat
    BY CfgType DEF CfgOK
  <2>2. upper_net' \in Nat /\ lower_net' \in Nat /\ lower_updates' \in Nat
    <3>1. upper_net \in Nat /\ lower_net \in Nat /\ lower_updates \in Nat
      OBVIOUS
    <3>2. /\ lower_updates' = lower_updates + cfg.lower_updates
          /\ upper_net' \in {upper_net, upper_net + cfg.lower_updates}
          /\ lower_net' \in {lower_net, lower_net + cfg.lower_updates}
      <4> HIDE DEF IInv, TypeOK, Ring, Collected, OnPolicy, EpochState
      <4>1. CASE Enough(cfg.lower_warmup, cfg.lower_batch)
        BY <1>8, <4>1 DEF LowerUpdate
      <4>2. CASE ~Enough(cfg.lower_warmup, cfg.lower_batch)
        BY <1>8, <4>2 DEF LowerUpdate
      <4> QED BY <4>1, <4>2
    <3> HIDE DEF IInv, TypeOK, Ring, Collected, OnPolicy, EpochState
    <3>3. upper_net + cfg.lower_updates \in Nat /\ lower_net + cfg.lower_updates \in Nat
          /\ lower_updates + cfg.lower_updates \in Nat
      BY <2>1, <3>1
    <3> QED BY <3>1, <3>2, <3>3
  <2>3. /\ pc' = "episode" /\ since_lower' = 0
        /\ UNCHANGED <<cfg, episode, t, total, rollout, storage, pos, history, ppo,
                       upper_updates, since_upper>>
    BY <1>8 DEF LowerUpdate
  <2>4. TypeOK'
    <3>1. since_lower' \in Nat /\ pc' \in {"episode", "act", "upper", "ppo", "lower"}
      BY <2>3
    <3>2. UNCHANGED <<cfg, episode, t, total, rollout, storage, pos, history, returns,
                      epoch, left, upper_updates, since_upper>>
      BY <2>3 DEF ppo
    <3> QED BY <2>2, <3>1, <3>2
  <2>5. Ring' /\ Collected' /\ OnPolicy' /\ EpochState'
    BY <2>3 DEF ppo
  <2> QED BY <2>4, <2>5
<1>9. CASE UNCHANGED vars
  BY <1>9 DEF vars, ppo, counters
<1> QED BY <1>1, <1>2, <1>3, <1>4, <1>5, <1>6, <1>7, <1>8, <1>9 DEF Next

\* The invariant the others follow from.
THEOREM Invariance == Spec => []IInv
BY Initially, Preserved, PTL DEF Spec

-----------------------------------------------------------------------------
\* Every variable keeps its type, whatever the configuration.
THEOREM TypeCorrect == Spec => []TypeOK
<1>1. IInv => TypeOK
  BY DEF IInv
<1> QED BY Invariance, <1>1, PTL

\* The replay buffer is a sliding window over the transitions, however often
\* ReplayBuffer.add() has wrapped.
THEOREM ReplayWindow == Spec => []ReplayIsWindow
<1>1. IInv => ReplayIsWindow
  <2> SUFFICES ASSUME IInv PROVE ReplayIsWindow
    OBVIOUS
  <2>1. /\ total \in Nat /\ Len(storage) \in Nat /\ DOMAIN storage = 1 .. Len(storage)
        /\ pos \in 0 .. Capacity - 1 /\ Len(storage) <= Capacity /\ Capacity \in Nat \ {0}
        /\ Len(storage) <= total
        /\ pos <= Len(storage)
    BY LenProperties, SizeAssumption DEF IInv, TypeOK, Ring
  <2>2. \A i \in 1 .. Len(storage) :
          storage[i] = IF i <= pos THEN total - pos + i - 1
                                   ELSE total - Len(storage) + i - pos - 1
    BY DEF IInv, Ring
  <2>3. \A i \in 1 .. Len(storage) : storage[i] \in (total - Len(storage)) .. (total - 1)
    BY <2>1, <2>2
  <2>4. ASSUME NEW w \in (total - Len(storage)) .. (total - 1)
        PROVE  \E i \in 1 .. Len(storage) : storage[i] = w
    <3>1. CASE w >= total - pos
      <4>1. w - total + pos + 1 \in 1 .. Len(storage) /\ w - total + pos + 1 <= pos
        BY <2>1, <3>1
      <4>2. storage[w - total + pos + 1] = w
        BY <2>1, <2>2, <4>1
      <4> QED BY <4>1, <4>2
    <3>2. CASE ~(w >= total - pos)
      <4>1. /\ w - total + Len(storage) + pos + 1 \in 1 .. Len(storage)
            /\ ~(w - total + Len(storage) + pos + 1 <= pos)
        BY <2>1, <3>2
      <4>2. storage[w - total + Len(storage) + pos + 1] = w
        BY <2>1, <2>2, <4>1
      <4> QED BY <4>1, <4>2
    <3> QED BY <3>1, <3>2
  <2>5. Len(storage) < Capacity => total = Len(storage)
    BY DEF IInv, Ring
  <2> QED BY <2>1, <2>3, <2>4, <2>5 DEF ReplayIsWindow
<1> QED BY Invariance, <1>1, PTL

\* Updates of a PPO agent are on-policy, whatever the cadences and the sharing.
THEOREM UpdatesAreOnPolicy == Spec => []OnPolicyRollout
<1>1. IInv => OnPolicyRollout
  BY LenProperties, SizeAssumption DEF IInv, TypeOK, Collected, OnPolicy, OnPolicyRollout
<1> QED BY Invariance, <1>1, PTL

\* The minibatches of an epoch partition the rollout.
THEOREM EpochsPartition == Spec => []EpochsUseEachStepOnce
<1>1. IInv => EpochsUseEachStepOnce
  BY DEF IInv, EpochState, EpochsUseEachStepOnce
<1> QED BY Invariance, <1>1, PTL

-----------------------------------------------------------------------------
\* The observations of the rollout, oldest first.
Seen == [k \in 1 .. Len(rollout) |-> rollout[k].obs]

\* The encoder's history between two calls: the end of the episode so far.
HistoryIsWindow == ~cfg.reencode => history = Last(Seen, cfg.history_len)

\* Forgetting the oldest and then adding is adding and then forgetting.
LEMMA LastAppend ==
  ASSUME NEW S, NEW s \in Seq(S), NEW x \in S, NEW n \in Nat \ {0}
  PROVE  /\ Append(Last(Last(s, n), n - 1), x) = Last(Append(s, x), n)
         /\ Last(Append(Last(s, n), x), n) = Last(Append(s, x), n)
<1> DEFINE w == Last(s, n)
           a == Append(s, x)
           b == Append(w, x)
           v == Last(w, n - 1)
           m == Kept(s, n)
           m1 == Kept(a, n)
<1>0. Len(s) \in Nat /\ n - 1 \in Nat /\ n \in Nat
  BY LenProperties
<1>1. w \in Seq(S) /\ Len(w) = m /\ \A j \in 1 .. m : w[j] = s[Len(s) - m + j]
  BY <1>0, LastItems
<1>2. /\ a \in Seq(S) /\ Len(a) = Len(s) + 1 /\ a[Len(s) + 1] = x
      /\ \A j \in 1 .. Len(s) : a[j] = s[j]
  BY AppendProperties
<1>3. /\ m \in Nat /\ m1 \in Nat \ {0} /\ m <= Len(s)
      /\ (m1 = m + 1 /\ m + 1 <= n) \/ (m1 = m /\ m = n)
  <2> HIDE DEF a
  <2> QED BY <1>0, <1>2 DEF Kept
<1> HIDE DEF m
<1>4. /\ b \in Seq(S) /\ Len(b) = m + 1 /\ b[m + 1] = x
      /\ \A j \in 1 .. m : b[j] = s[Len(s) - m + j]
  <2> HIDE DEF w
  <2> QED BY <1>1, AppendProperties
<1> HIDE DEF a, b, w
<1>5. /\ Last(a, n) \in Seq(S) /\ Len(Last(a, n)) = m1
      /\ \A j \in 1 .. m1 : Last(a, n)[j] = a[Len(s) + 1 - m1 + j]
  <2>1. /\ Last(a, n) \in Seq(S) /\ Len(Last(a, n)) = m1
        /\ \A j \in 1 .. m1 : Last(a, n)[j] = a[Len(a) - m1 + j]
    BY <1>0, <1>2, LastItems
  <2> QED BY <1>2, <2>1
<1>6. /\ Last(b, n) \in Seq(S) /\ Len(Last(b, n)) = m1
      /\ \A j \in 1 .. m1 : Last(b, n)[j] = b[m + 1 - m1 + j]
  <2>1. /\ Last(b, n) \in Seq(S) /\ Len(Last(b, n)) = Kept(b, n)
        /\ \A j \in 1 .. Kept(b, n) : Last(b, n)[j] = b[Len(b) - Kept(b, n) + j]
    BY <1>0, <1>4, LastItems
  <2> HIDE DEF m1
  <2>2. Kept(b, n) = m1
    BY <1>0, <1>3, <1>4 DEF Kept
  <2>3. \A j \in 1 .. m1 : Last(b, n)[j] = b[Len(b) - m1 + j]
    BY Zenon, <2>1, <2>2
  <2>4. ASSUME NEW j \in 1 .. m1
        PROVE  Last(b, n)[j] = b[m + 1 - m1 + j]
    <3>1. Last(b, n)[j] = b[Len(b) - m1 + j]
      BY Zenon, <2>3
    <3>2. Len(b) = m + 1
      BY <1>4
    <3> QED BY <1>3, <3>1, <3>2
  <2>5. Len(Last(b, n)) = m1
    BY <2>1, <2>2
  <2> QED BY <2>1, <2>4, <2>5
<1>7. /\ v \in Seq(S) /\ Len(v) = m1 - 1
      /\ \A j \in 1 .. m1 - 1 : v[j] = s[Len(s) - m1 + 1 + j]
  <2>1. /\ v \in Seq(S) /\ Len(v) = Kept(w, n - 1)
        /\ \A j \in 1 .. Kept(w, n - 1) : v[j] = w[Len(w) - Kept(w, n - 1) + j]
    BY <1>0, <1>1, LastItems
  <2> HIDE DEF m1, v
  <2>2. Kept(w, n - 1) = m1 - 1
    BY <1>0, <1>1, <1>3 DEF Kept
  <2>3. ASSUME NEW j \in 1 .. m1 - 1
        PROVE  w[m - (m1 - 1) + j] = s[Len(s) - m1 + 1 + j]
    <3>1. /\ m - (m1 - 1) + j \in 1 .. m
          /\ Len(s) - m + (m - (m1 - 1) + j) = Len(s) - m1 + 1 + j
      BY <1>0, <1>3
    <3> QED BY <1>1, <3>1
  <2> QED BY <1>1, <2>1, <2>2, <2>3
<1> HIDE DEF m1
<1>8. /\ Append(v, x) \in Seq(S) /\ Len(Append(v, x)) = m1 /\ Append(v, x)[m1] = x
      /\ \A j \in 1 .. m1 - 1 : Append(v, x)[j] = s[Len(s) - m1 + 1 + j]
  <2>1. m1 - 1 + 1 = m1
    BY <1>3
  <2> HIDE DEF v
  <2> QED BY <1>7, <2>1, AppendProperties
<1> HIDE DEF v
<1>9. ASSUME NEW j \in 1 .. m1
      PROVE  /\ Last(a, n)[j] = Append(v, x)[j]
             /\ Last(b, n)[j] = Append(v, x)[j]
  <2>1. CASE j = m1
    <3>1. Len(s) + 1 - m1 + j = Len(s) + 1 /\ m + 1 - m1 + j = m + 1
      BY <1>0, <1>3, <2>1
    <3> QED BY <1>2, <1>4, <1>5, <1>6, <1>8, <2>1, <3>1
  <2>2. CASE j # m1
    <3>1. /\ Len(s) + 1 - m1 + j \in 1 .. Len(s) /\ m + 1 - m1 + j \in 1 .. m
          /\ j \in 1 .. m1 - 1
          /\ Len(s) - m + (m + 1 - m1 + j) = Len(s) - m1 + 1 + j
          /\ Len(s) + 1 - m1 + j = Len(s) - m1 + 1 + j
      BY <1>0, <1>3, <2>2
    <3>2. Last(a, n)[j] = s[Len(s) - m1 + 1 + j]
      BY <1>2, <1>5, <3>1
    <3>3. Last(b, n)[j] = s[Len(s) - m1 + 1 + j]
      BY <1>4, <1>6, <3>1
    <3> QED BY <1>8, <3>1, <3>2, <3>3
  <2> QED BY <2>1, <2>2
<1>10. Last(b, n) = Last(a, n) /\ Append(v, x) = Last(a, n)
  BY <1>5, <1>6, <1>8, <1>9, SeqEqual
<1> QED BY <1>10 DEF a, b, v, w

\* An empty rollout has been seen empty.
LEMMA SeenEmpty ==
  ASSUME TypeOK, rollout = <<>>, history = <<>>
  PROVE  ContextIsWindow /\ HistoryIsWindow
<1>1. Len(rollout) = 0 /\ DOMAIN rollout = {} /\ 1 .. 0 = {}
  OBVIOUS
<1>2. Seen = <<>>
  BY <1>1 DEF Seen
<1>3. cfg.history_len \in Nat
  BY CfgType DEF TypeOK, CfgOK
<1>4. Last(<<>>, cfg.history_len) = <<>>
  BY <1>3 DEF Last
<1> QED BY <1>1, <1>2, <1>4 DEF ContextIsWindow, HistoryIsWindow

\* A slot acts on the window and moves it on.
LEMMA ActMovesWindow ==
  ASSUME TypeOK, ContextIsWindow, HistoryIsWindow,
         NEW reward \in Rewards, NEW value \in Values, Act(reward, value)
  PROVE  (ContextIsWindow /\ HistoryIsWindow)'
<1> DEFINE n == cfg.history_len
           len == Len(rollout)
           step == [obs |-> total, context |-> Append(Past(history), total),
                    net |-> upper_net, reward |-> reward, value |-> value,
                    done |-> t + 1 = EpisodeLen]
<1>1. cfg' = cfg /\ rollout' = Append(rollout, step)
      /\ (~cfg.reencode => history' = Remembered(history, total))
  BY DEF Act
<1>2. n \in Nat \ {0} /\ total \in Nat /\ rollout \in Seq(Step) /\ len \in Nat
  BY CfgType, LenProperties DEF TypeOK, CfgOK
<1>3. /\ Len(rollout') = len + 1 /\ rollout'[len + 1] = step
      /\ \A i \in 1 .. len : rollout'[i] = rollout[i]
      /\ DOMAIN rollout' = 1 .. len + 1 /\ DOMAIN rollout = 1 .. len
  <2>1. DOMAIN rollout = 1 .. len
    BY <1>2, LenProperties
  <2>2. rollout' = [i \in 1 .. len + 1 |-> IF i = len + 1 THEN step ELSE rollout[i]]
    BY <1>1, <1>2
  <2> HIDE DEF step
  <2> QED BY <1>2, <2>1, <2>2
<1>4. step.obs = total /\ step.context = Append(Past(history), total)
  OBVIOUS
<1> HIDE DEF step
<1>5. Seen \in Seq(Nat) /\ Len(Seen) = len
  <2>1. \A i \in 1 .. len : rollout[i] \in Step
    BY <1>2, <1>3
  <2>2. \A i \in 1 .. len : rollout[i].obs \in Nat
    BY <2>1 DEF Step
  <2> QED BY <1>2, <2>2 DEF Seen
<1>6. \A i \in 1 .. len :
        [k \in 1 .. i |-> rollout'[k].obs] = [k \in 1 .. i |-> rollout[k].obs]
  BY <1>2, <1>3
<1>7. Seen' = Append(Seen, total)
  <2>1. Seen' = [k \in 1 .. len + 1 |-> rollout'[k].obs]
    BY <1>3 DEF Seen
  <2>2. /\ Append(Seen, total) \in Seq(Nat) /\ Len(Append(Seen, total)) = len + 1
        /\ Append(Seen, total)[len + 1] = total
        /\ \A k \in 1 .. len : Append(Seen, total)[k] = Seen[k]
    BY <1>2, <1>5, AppendProperties
  <2>3. \A k \in 1 .. len : Seen[k] = rollout[k].obs
    BY DEF Seen
  <2> HIDE DEF len
  <2>4. ASSUME NEW k \in 1 .. len + 1
        PROVE  rollout'[k].obs = Append(Seen, total)[k]
    <3>1. CASE k = len + 1
      BY <1>3, <1>4, <2>2, <3>1
    <3>2. CASE k # len + 1
      <4>1. k \in 1 .. len
        BY <1>2, <3>2
      <4> QED BY <1>3, <2>2, <2>3, <4>1
    <3> QED BY <3>1, <3>2
  <2>5. \A k \in 1 .. len + 1 : rollout'[k].obs \in Nat
    <3>1. \A k \in 1 .. len + 1 : Append(Seen, total)[k] \in Nat
      BY <1>2, <2>2
    <3> QED BY <2>4, <3>1
  <2>6. /\ Seen' \in Seq(Nat) /\ Len(Seen') = len + 1
        /\ \A k \in 1 .. len + 1 : Seen'[k] = rollout'[k].obs
    BY <1>2, <2>1, <2>5
  <2> QED BY <2>2, <2>4, <2>6, SeqEqual
<1>8. /\ Append(Last(Last(Seen, n), n - 1), total) = Last(Append(Seen, total), n)
      /\ Last(Append(Last(Seen, n), total), n) = Last(Append(Seen, total), n)
  <2> HIDE DEF n
  <2> QED BY <1>2, <1>5, LastAppend
<1>9. HistoryIsWindow'
  BY <1>1, <1>7, <1>8 DEF HistoryIsWindow, Remembered
<1>10. ASSUME ~cfg.reencode, NEW i \in 1 .. len + 1
       PROVE  rollout'[i].context = Last([k \in 1 .. i |-> rollout'[k].obs], n)
  <2>1. CASE i = len + 1
    <3>1. [k \in 1 .. i |-> rollout'[k].obs] = Seen'
      BY <1>3, <2>1 DEF Seen
    <3>2. rollout'[i].context = Append(Last(Last(Seen, n), n - 1), total)
      BY <1>3, <1>4, <1>10, <2>1 DEF HistoryIsWindow, Past
    <3> QED BY <1>7, <1>8, <3>1, <3>2
  <2>2. CASE i # len + 1
    <3>1. i \in 1 .. len
      BY <1>2, <2>2
    <3>2. rollout[i].context = Last([k \in 1 .. i |-> rollout[k].obs], n)
      BY <1>3, <1>10, <3>1 DEF ContextIsWindow
    <3> QED BY <1>3, <1>6, <3>1, <3>2
  <2> QED BY <2>1, <2>2
<1>11. ContextIsWindow'
  BY <1>1, <1>3, <1>10 DEF ContextIsWindow
<1> QED BY <1>9, <1>11

\* The networks act on the last history_len observations of the episode, in
\* every configuration that does not encode the observation twice
\* (TemporalTopologyEncoder.forward(), _reset_temporal_states()).
THEOREM ActsOnWindow == Spec => []ContextIsWindow
<1>1. Init => ContextIsWindow /\ HistoryIsWindow
  <2> SUFFICES ASSUME Init PROVE ContextIsWindow /\ HistoryIsWindow
    OBVIOUS
  <2>1. TypeOK
    BY Initially DEF IInv
  <2> QED BY <2>1, SeenEmpty DEF Init
<1>2. IInv /\ IInv' /\ ContextIsWindow /\ HistoryIsWindow /\ [Next]_vars
        => (ContextIsWindow /\ HistoryIsWindow)'
  <2> SUFFICES ASSUME TypeOK, TypeOK', ContextIsWindow, HistoryIsWindow, [Next]_vars
               PROVE  (ContextIsWindow /\ HistoryIsWindow)'
    BY DEF IInv
  <2>1. CASE UNCHANGED <<cfg, rollout, history>>
    BY <2>1 DEF ContextIsWindow, HistoryIsWindow, Seen
  <2>2. CASE StartEpisode
    <3>1. rollout' = <<>> /\ history' = <<>>
      BY <2>2 DEF StartEpisode
    <3>2. (TypeOK /\ rollout = <<>> /\ history = <<>>
             => ContextIsWindow /\ HistoryIsWindow)'
      BY SeenEmpty, PTL
    <3> QED BY <3>1, <3>2
  <2>3. ASSUME NEW reward \in Rewards, NEW value \in Values, Act(reward, value)
        PROVE  (ContextIsWindow /\ HistoryIsWindow)'
    BY <2>3, ActMovesWindow
  <2>4. CASE SkipUpper \/ StartPPO \/ ValueUpdate \/ SkipLower \/ LowerUpdate
    BY <2>1, <2>4 DEF SkipUpper, StartPPO, ValueUpdate, SkipLower, LowerUpdate
  <2>5. ASSUME NEW batch \in SUBSET left, Minibatch(batch)
        PROVE  (ContextIsWindow /\ HistoryIsWindow)'
    BY <2>1, <2>5 DEF Minibatch
  <2>6. CASE UNCHANGED vars
    BY <2>1, <2>6 DEF vars
  <2> QED BY <2>2, <2>3, <2>4, <2>5, <2>6 DEF Next
<1> QED BY <1>1, <1>2, Invariance, PTL DEF Spec

-----------------------------------------------------------------------------
\* The counters after e episodes and some steps of the next one: how often the
\* cadence was met, and the steps since it was met last.
UpperAt(e, steps) ==
  LET due == e \div cfg.upper_update_every
  IN  /\ upper_updates = due
      /\ since_upper = (e - due * cfg.upper_update_every) * EpisodeLen + steps

Pretrained(e) ==
  IF ~cfg.lower_enabled THEN e
  ELSE IF e < cfg.upper_pretrain THEN e ELSE cfg.upper_pretrain

LowerDues(e) ==
  (e \div cfg.lower_update_every) - (Pretrained(e) \div cfg.lower_update_every)

LowerAt(e, steps) ==
  /\ lower_updates = cfg.lower_updates * LowerDues(e)
  /\ since_lower = (IF LowerDues(e) > 0 THEN e % cfg.lower_update_every ELSE e)
                     * EpisodeLen + steps

\* Where the counters stand in every phase of an episode.
UpperOpen == pc \in {"act", "upper", "ppo"}

Cadence ==
  /\ pc \in {"upper", "ppo", "lower"} => t = EpisodeLen
  /\ pc # "episode" => episode > 0
  /\ pc = "ppo" => UpperDue
  /\ IF UpperOpen THEN UpperAt(episode - 1, t) ELSE UpperAt(episode, 0)
  /\ IF pc = "episode" THEN LowerAt(episode, 0) ELSE LowerAt(episode - 1, t)

\* What the arithmetic needs of a state.
CadenceType ==
  /\ cfg.upper_update_every \in Nat \ {0} /\ cfg.lower_update_every \in Nat \ {0}
  /\ cfg.lower_updates \in Nat /\ cfg.upper_pretrain \in Nat
  /\ cfg.lower_enabled \in BOOLEAN
  /\ episode \in Nat /\ t \in Nat /\ EpisodeLen \in Nat

\* The types give that.
LEMMA CadenceTypes == TypeOK => CadenceType
BY SizeAssumption, SetupsAssumption DEF TypeOK, Setup, CadenceType

\* An episode more, the upper cadence not met.
LEMMA UpperSkipped ==
  ASSUME NEW e \in Nat \ {0}, NEW k \in Nat \ {0}, NEW L \in Nat, e % k # 0
  PROVE  /\ e \div k = (e - 1) \div k
         /\ (e - 1 - ((e - 1) \div k) * k) * L + L = (e - (e \div k) * k) * L
<1> DEFINE q == (e - 1) \div k
<1>1. e - 1 \in Nat /\ (e - 1) + 1 = e
  OBVIOUS
<1>2. e \div k = q
  BY <1>1, QuotientNext
<1>3. q \in Nat
  BY <1>1, Quotient
<1> HIDE DEF q
<1> DEFINE c == q * k
<1>4. c \in Nat
  BY <1>3
<1> HIDE DEF c
<1>5. (e - 1 - c) * L + L = (e - c) * L
  BY <1>4
<1> QED BY <1>2, <1>5 DEF q, c

\* An episode more, the upper cadence met.
LEMMA UpperMet ==
  ASSUME NEW e \in Nat \ {0}, NEW k \in Nat \ {0}, NEW L \in Nat, e % k = 0
  PROVE  /\ e \div k = ((e - 1) \div k) + 1
         /\ (e - (e \div k) * k) * L + 0 = 0
<1>1. e - 1 \in Nat /\ (e - 1) + 1 = e
  OBVIOUS
<1>2. e \div k = ((e - 1) \div k) + 1
  BY <1>1, QuotientNext
<1>3. e = (e \div k) * k + (e % k)
  BY Remainder
<1>4. (e \div k) * k \in Nat
  BY Quotient
<1>5. e - (e \div k) * k = 0
  BY <1>3, <1>4
<1> QED BY <1>2, <1>5

\* The lower cadence only counts the episodes after the pretraining.
LEMMA LowerMetAfterPretraining ==
  ASSUME CadenceType, episode > 0
  PROVE  /\ LowerDues(episode - 1) \in Nat /\ LowerDues(episode) \in Nat
         /\ LowerDue => /\ LowerDues(episode) = LowerDues(episode - 1) + 1
                        /\ episode % cfg.lower_update_every = 0
         /\ ~LowerDue => \/ LowerDues(episode) = 0 /\ LowerDues(episode - 1) = 0
                         \/ /\ LowerDues(episode) = LowerDues(episode - 1)
                            /\ episode % cfg.lower_update_every
                                 = ((episode - 1) % cfg.lower_update_every) + 1
<1> DEFINE k == cfg.lower_update_every
<1>1. /\ episode \in Nat \ {0} /\ episode - 1 \in Nat /\ (episode - 1) + 1 = episode
      /\ k \in Nat \ {0}
  BY DEF CadenceType
<1>2. ASSUME NEW e \in Nat
      PROVE  Pretrained(e) \in Nat /\ Pretrained(e) <= e /\ LowerDues(e) \in Nat
  <2>1. Pretrained(e) \in Nat /\ Pretrained(e) <= e
    BY DEF Pretrained, CadenceType
  <2>2. /\ Pretrained(e) \div k <= e \div k
        /\ Pretrained(e) \div k \in Nat /\ e \div k \in Nat
    BY <1>1, <2>1, QuotientMonotone, Quotient
  <2> QED BY <2>1, <2>2 DEF LowerDues
<1>3. IF episode % k = 0
        THEN episode \div k = ((episode - 1) \div k) + 1
        ELSE /\ episode \div k = (episode - 1) \div k
             /\ episode % k = ((episode - 1) % k) + 1
  BY <1>1, QuotientNext
<1>4. (episode - 1) \div k \in Nat /\ episode \div k \in Nat
  BY <1>1, Quotient
<1>5. CASE LowerTrains
  <2>1. Pretrained(episode) = Pretrained(episode - 1)
    BY <1>1, <1>5 DEF LowerTrains, Pretraining, Pretrained, CadenceType
  <2>2. Pretrained(episode) \div k \in Nat
    BY <1>1, <1>2, Quotient
  <2>3. LowerDue <=> episode % k = 0
    BY <1>5 DEF LowerDue
  <2> HIDE DEF k
  <2>4. /\ LowerDues(episode) = (episode \div k) - (Pretrained(episode) \div k)
        /\ LowerDues(episode - 1) = ((episode - 1) \div k) - (Pretrained(episode) \div k)
    BY <2>1 DEF LowerDues, k
  <2>5. CASE LowerDue
    <3>1. LowerDues(episode) = LowerDues(episode - 1) + 1
      BY <1>3, <1>4, <2>2, <2>3, <2>4, <2>5
    <3> QED BY <1>1, <1>2, <2>3, <2>5, <3>1 DEF k
  <2>6. CASE ~LowerDue
    <3>1. LowerDues(episode) = LowerDues(episode - 1)
      BY <1>3, <2>3, <2>4, <2>6
    <3> QED BY <1>1, <1>2, <1>3, <2>3, <2>6, <3>1 DEF k
  <2> QED BY <2>5, <2>6
<1>6. CASE ~LowerTrains
  <2>1. Pretrained(episode) = episode /\ Pretrained(episode - 1) = episode - 1
    BY <1>1, <1>6 DEF LowerTrains, Pretraining, Pretrained, CadenceType
  <2>2. LowerDues(episode) = 0 /\ LowerDues(episode - 1) = 0
    BY <1>4, <2>1 DEF LowerDues
  <2> QED BY <1>6, <2>2 DEF LowerDue
<1> QED BY <1>5, <1>6

\* The end of the upper phase: skipped, or counted.
LEMMA UpperPhaseOver ==
  ASSUME CadenceType, episode > 0, UpperAt(episode - 1, EpisodeLen)
  PROVE  /\ ~UpperDue => UpperAt(episode, 0)
         /\ UpperDue => /\ upper_updates + 1 = episode \div cfg.upper_update_every
                        /\ 0 = (episode - (episode \div cfg.upper_update_every)
                                  * cfg.upper_update_every) * EpisodeLen + 0
<1> DEFINE k == cfg.upper_update_every
<1>1. episode \in Nat \ {0} /\ k \in Nat \ {0} /\ EpisodeLen \in Nat
  BY DEF CadenceType
<1>2. CASE episode % k # 0
  <2>1. /\ episode \div k = (episode - 1) \div k
        /\ (episode - 1 - ((episode - 1) \div k) * k) * EpisodeLen + EpisodeLen
             = (episode - (episode \div k) * k) * EpisodeLen
    BY <1>1, <1>2, UpperSkipped
  <2>2. (episode - (episode \div k) * k) * EpisodeLen \in Int
    BY <1>1, Quotient
  <2> QED BY <1>2, <2>1, <2>2 DEF UpperAt, UpperDue
<1>3. CASE episode % k = 0
  <2>1. /\ episode \div k = ((episode - 1) \div k) + 1
        /\ (episode - (episode \div k) * k) * EpisodeLen + 0 = 0
    BY <1>1, <1>3, UpperMet
  <2> QED BY <1>3, <2>1 DEF UpperAt, UpperDue
<1> QED BY <1>2, <1>3

\* The end of the lower phase: skipped, or counted with all its updates.
LEMMA LowerPhaseOver ==
  ASSUME CadenceType, episode > 0, LowerAt(episode - 1, EpisodeLen)
  PROVE  /\ ~LowerDue => LowerAt(episode, 0)
         /\ LowerDue => /\ lower_updates + cfg.lower_updates
                             = cfg.lower_updates * LowerDues(episode)
                        /\ 0 = (IF LowerDues(episode) > 0
                                  THEN episode % cfg.lower_update_every
                                  ELSE episode) * EpisodeLen + 0
<1> DEFINE k == cfg.lower_update_every
           d == LowerDues(episode - 1)
<1>1. /\ episode \in Nat \ {0} /\ k \in Nat \ {0} /\ EpisodeLen \in Nat
      /\ cfg.lower_updates \in Nat
  BY DEF CadenceType
<1>2. /\ d \in Nat /\ LowerDues(episode) \in Nat
      /\ LowerDue => LowerDues(episode) = d + 1 /\ episode % k = 0
      /\ ~LowerDue => \/ LowerDues(episode) = 0 /\ d = 0
                      \/ /\ LowerDues(episode) = d
                         /\ episode % k = ((episode - 1) % k) + 1
  BY LowerMetAfterPretraining
<1>3. (episode - 1) % k \in Nat
  <2>1. episode - 1 \in Nat
    BY <1>1
  <2> QED BY <1>1, <2>1, Remainder
<1>4. /\ lower_updates = cfg.lower_updates * d
      /\ since_lower = (IF d > 0 THEN (episode - 1) % k ELSE episode - 1)
                         * EpisodeLen + EpisodeLen
  BY DEF LowerAt
<1> DEFINE r == (episode - 1) % k
<1>5. \A a \in Nat : a * EpisodeLen + EpisodeLen = (a + 1) * EpisodeLen + 0
  BY <1>1
<1>6. CASE LowerDue
  <2>1. cfg.lower_updates * d + cfg.lower_updates = cfg.lower_updates * (d + 1)
    <3> HIDE DEF d
    <3> QED BY <1>1, <1>2
  <2>2. 0 * EpisodeLen + 0 = 0
    BY <1>1
  <2>3. LowerDues(episode) > 0
    <3> HIDE DEF d
    <3> QED BY <1>2, <1>6
  <2> QED BY <1>2, <1>4, <1>6, <2>1, <2>2, <2>3
<1>7. CASE ~LowerDue
  <2>1. r * EpisodeLen + EpisodeLen = (r + 1) * EpisodeLen + 0
    <3> HIDE DEF r
    <3> QED BY <1>3, <1>5 DEF r
  <2>2. (episode - 1) * EpisodeLen + EpisodeLen = episode * EpisodeLen + 0
    BY <1>1
  <2>3. LowerDues(episode) = d
    BY <1>2, <1>7
  <2>4. CASE d > 0
    <3>1. episode % k = r + 1
      <4> HIDE DEF d, r
      <4> QED BY <1>2, <1>7, <2>4 DEF r
    <3>2. since_lower = r * EpisodeLen + EpisodeLen
      BY <1>4, <2>4
    <3>3. since_lower = (episode % k) * EpisodeLen + 0
      BY <2>1, <3>1, <3>2
    <3> QED BY <1>4, <1>7, <2>3, <2>4, <3>3 DEF LowerAt
  <2>5. CASE ~(d > 0)
    BY <1>4, <1>7, <2>2, <2>3, <2>5 DEF LowerAt
  <2> QED BY <2>4, <2>5
<1> QED BY <1>6, <1>7

\* Every step keeps the counters where the cadence wants them.
LEMMA CadenceKept ==
  ASSUME TypeOK, TypeOK', Collected, Cadence, [Next]_vars
  PROVE  Cadence'
<1>0. CadenceType /\ EpisodeLen \in Nat \ {0}
  BY CadenceTypes, SizeAssumption
<1>1. CASE UNCHANGED <<cfg, pc, episode, t, counters>>
  BY <1>1 DEF Cadence, UpperOpen, UpperAt, LowerAt, UpperDue, LowerDues, Pretrained, counters
<1>2. CASE StartEpisode
  <2>1. /\ pc = "episode" /\ pc' = "act" /\ episode' = episode + 1 /\ t' = 0
        /\ cfg' = cfg /\ UNCHANGED counters
    BY <1>2 DEF StartEpisode
  <2>2. episode' - 1 = episode /\ episode' > 0
    BY <1>0, <2>1 DEF CadenceType
  <2>3. UpperAt(episode, 0) /\ LowerAt(episode, 0)
    BY <2>1 DEF Cadence, UpperOpen
  <2> QED BY <2>1, <2>2, <2>3
          DEF Cadence, UpperOpen, UpperAt, LowerAt, LowerDues, Pretrained, counters
<1>3. ASSUME NEW reward \in Rewards, NEW value \in Values, Act(reward, value)
      PROVE  Cadence'
  <2>1. /\ pc = "act" /\ pc' = IF t + 1 = EpisodeLen THEN "upper" ELSE "act"
        /\ t' = t + 1 /\ since_upper' = since_upper + 1 /\ since_lower' = since_lower + 1
        /\ UNCHANGED <<cfg, episode, upper_updates, lower_updates>>
    BY <1>3 DEF Act
  <2>2. UpperAt(episode - 1, t) /\ LowerAt(episode - 1, t) /\ episode > 0
    BY <2>1 DEF Cadence, UpperOpen
  <2>3. \A a \in Int, b \in Nat : (a + b) + 1 = a + (b + 1)
    OBVIOUS
  <2> DEFINE k == cfg.upper_update_every
             q == (episode - 1) \div k
             f == IF LowerDues(episode - 1) > 0
                    THEN (episode - 1) % cfg.lower_update_every ELSE episode - 1
  <2>4. episode - 1 \in Nat /\ k \in Nat \ {0} /\ t \in Nat
    BY <1>0, <2>2 DEF CadenceType
  <2>5. q \in Nat
    BY <2>4, Quotient
  <2>6. f \in Nat
    <3>1. cfg.lower_update_every \in Nat \ {0}
      BY <1>0 DEF CadenceType
    <3>2. (episode - 1) % cfg.lower_update_every \in Nat
      BY <2>4, <3>1, Remainder
    <3> QED BY <2>4, <3>2
  <2>7. (episode - 1 - q * k) * EpisodeLen \in Int /\ f * EpisodeLen \in Int
    <3> HIDE DEF q, f
    <3> QED BY <1>0, <2>4, <2>5, <2>6
  <2>8. since_upper' = (episode - 1 - q * k) * EpisodeLen + (t + 1)
    <3>1. since_upper = (episode - 1 - q * k) * EpisodeLen + t
      BY <2>2 DEF UpperAt
    <3> HIDE DEF q, k
    <3> QED BY <2>1, <2>3, <2>4, <2>7, <3>1
  <2>9. since_lower' = f * EpisodeLen + (t + 1)
    <3>1. since_lower = f * EpisodeLen + t
      BY <2>2 DEF LowerAt
    <3> HIDE DEF f
    <3> QED BY <2>1, <2>3, <2>4, <2>7, <3>1
  <2>10. UpperAt(episode - 1, t)'
    BY <2>1, <2>2, <2>8 DEF UpperAt
  <2>11. LowerAt(episode - 1, t)'
    BY <2>1, <2>2, <2>9 DEF LowerAt, LowerDues, Pretrained
  <2> QED BY <2>1, <2>2, <2>10, <2>11 DEF Cadence, UpperOpen
<1>4. CASE SkipUpper
  <2>1. pc = "upper" /\ ~UpperDue /\ pc' = "lower" /\ UNCHANGED <<cfg, episode, t, counters>>
    BY <1>4 DEF SkipUpper
  <2>2. /\ UpperAt(episode - 1, EpisodeLen) /\ LowerAt(episode - 1, t)
        /\ episode > 0 /\ t = EpisodeLen
    BY <2>1 DEF Cadence, UpperOpen
  <2>3. UpperAt(episode, 0)
    BY <1>0, <2>1, <2>2, UpperPhaseOver
  <2> QED BY <2>1, <2>2, <2>3
          DEF Cadence, UpperOpen, UpperAt, LowerAt, LowerDues, Pretrained, counters
<1>5. CASE StartPPO
  <2>1. pc = "upper" /\ UpperDue /\ pc' = "ppo" /\ UNCHANGED <<cfg, episode, t, counters>>
    BY <1>5 DEF StartPPO
  <2> QED BY <2>1 DEF Cadence, UpperOpen, UpperAt, LowerAt, UpperDue, LowerDues, Pretrained,
                      counters
<1>6. ASSUME pc \in {"upper", "ppo"}, UpperDue, UpperUpdated,
             UNCHANGED <<cfg, episode, t, lower_updates, since_lower>>
      PROVE  Cadence'
  <2>1. /\ UpperAt(episode - 1, EpisodeLen) /\ LowerAt(episode - 1, t)
        /\ episode > 0 /\ t = EpisodeLen
    BY <1>6 DEF Cadence, UpperOpen
  <2>2. UpperAt(episode, 0)'
    BY <1>0, <1>6, <2>1, UpperPhaseOver DEF UpperAt, UpperUpdated
  <2> QED BY <1>6, <2>1, <2>2
          DEF Cadence, UpperOpen, UpperUpdated, LowerAt, LowerDues, Pretrained
<1>7. CASE ValueUpdate
  BY <1>6, <1>7 DEF ValueUpdate
<1>8. ASSUME NEW batch \in SUBSET left, Minibatch(batch)
      PROVE  Cadence'
  <2>1. pc = "ppo" /\ UpperDue /\ UNCHANGED <<cfg, episode, t, lower_updates, since_lower>>
    BY <1>8 DEF Minibatch, Cadence
  <2>2. CASE UNCHANGED <<pc, upper_updates, since_upper>>
    BY <1>1, <2>1, <2>2 DEF counters
  <2>3. CASE UpperUpdated
    BY <1>6, <2>1, <2>3
  <2> QED BY <1>8, <2>2, <2>3 DEF Minibatch
<1>9. CASE SkipLower
  <2>1. pc = "lower" /\ ~LowerDue /\ pc' = "episode" /\ UNCHANGED <<cfg, episode, t, counters>>
    BY <1>9 DEF SkipLower
  <2>2. UpperAt(episode, 0) /\ LowerAt(episode - 1, EpisodeLen) /\ episode > 0
    BY <2>1 DEF Cadence, UpperOpen
  <2>3. LowerAt(episode, 0)
    BY <1>0, <2>1, <2>2, LowerPhaseOver
  <2> QED BY <2>1, <2>2, <2>3
          DEF Cadence, UpperOpen, UpperAt, LowerAt, LowerDues, Pretrained, counters
<1>10. CASE LowerUpdate
  <2>1. /\ pc = "lower" /\ LowerDue /\ pc' = "episode"
        /\ lower_updates' = lower_updates + cfg.lower_updates /\ since_lower' = 0
        /\ UNCHANGED <<cfg, episode, t, upper_updates, since_upper>>
    BY <1>10 DEF LowerUpdate
  <2>2. UpperAt(episode, 0) /\ LowerAt(episode - 1, EpisodeLen) /\ episode > 0
    BY <2>1 DEF Cadence, UpperOpen
  <2>3. LowerAt(episode, 0)'
    <3>1. /\ lower_updates + cfg.lower_updates = cfg.lower_updates * LowerDues(episode)
          /\ 0 = (IF LowerDues(episode) > 0 THEN episode % cfg.lower_update_every
                                            ELSE episode) * EpisodeLen + 0
      BY <1>0, <2>1, <2>2, LowerPhaseOver
    <3> QED BY <2>1, <3>1 DEF LowerAt, LowerDues, Pretrained
  <2> QED BY <2>1, <2>2, <2>3 DEF Cadence, UpperOpen, UpperAt
<1>11. CASE UNCHANGED vars
  BY <1>1, <1>11 DEF vars
<1> QED BY <1>2, <1>3, <1>4, <1>5, <1>7, <1>8, <1>9, <1>10, <1>11 DEF Next

\* The cadence report of train() is exact for every cadence, phase length and
\* number of episodes: after a pretraining no due update of the lower agent is
\* lost or counted twice, and the steps since an update start over with it.
THEOREM CountersAreExact == Spec => []CountersFollowCadence
<1>1. Init => Cadence
  <2> SUFFICES ASSUME Init PROVE Cadence
    OBVIOUS
  <2>1. CadenceType /\ episode = 0 /\ pc = "episode"
    BY Initially, CadenceTypes DEF IInv, Init
  <2>2. /\ upper_updates = 0 /\ lower_updates = 0 /\ since_upper = 0 /\ since_lower = 0
    BY DEF Init
  <2>3. \A k \in Nat \ {0} : 0 \div k = 0 /\ 0 % k = 0
    OBVIOUS
  <2>4. Pretrained(0) = 0
    BY <2>1 DEF Pretrained, CadenceType
  <2>5. LowerDues(0) = 0
    BY <2>1, <2>3, <2>4 DEF LowerDues, CadenceType
  <2>6. UpperAt(0, 0)
    BY <2>1, <2>2, <2>3 DEF UpperAt, CadenceType
  <2>7. LowerAt(0, 0)
    BY <2>1, <2>2, <2>5 DEF LowerAt, CadenceType
  <2> QED BY <2>1, <2>6, <2>7 DEF Cadence, UpperOpen
<1>2. IInv /\ IInv' /\ Cadence /\ [Next]_vars => Cadence'
  BY CadenceKept DEF IInv
<1>3. IInv /\ Cadence => CountersFollowCadence
  <2> SUFFICES ASSUME IInv, Cadence, pc = "episode" PROVE CountersFollowCadence
    BY DEF CountersFollowCadence
  <2>1. CadenceType
    BY CadenceTypes DEF IInv
  <2>2. UpperAt(episode, 0) /\ LowerAt(episode, 0)
    BY DEF Cadence, UpperOpen
  <2> DEFINE q == episode \div cfg.upper_update_every
             f == IF LowerDues(episode) > 0 THEN episode % cfg.lower_update_every
                                            ELSE episode
  <2>3. q \in Nat /\ f \in Nat
    <3>1. /\ episode \in Nat /\ cfg.upper_update_every \in Nat \ {0}
          /\ cfg.lower_update_every \in Nat \ {0}
      BY <2>1 DEF CadenceType
    <3>2. episode % cfg.lower_update_every \in Nat
      BY <3>1, Remainder
    <3> QED BY <3>1, <3>2, Quotient
  <2>4. /\ (episode - q * cfg.upper_update_every) * EpisodeLen + 0
             = (episode - q * cfg.upper_update_every) * EpisodeLen
        /\ f * EpisodeLen + 0 = f * EpisodeLen
    <3> HIDE DEF q, f
    <3> QED BY <2>1, <2>3 DEF CadenceType
  <2> QED BY <2>2, <2>4 DEF CountersFollowCadence, UpperAt, LowerAt, LowerDues, Pretrained
<1> QED BY <1>1, <1>2, <1>3, Invariance, PTL DEF Spec

-----------------------------------------------------------------------------
(* The returns a PPO update trains on.                                     *)

\* What the proofs about returns use of a rollout.
Scored(steps) ==
  /\ Len(steps) \in Nat
  /\ \A i \in 1 .. Len(steps) :
       steps[i].reward \in Int /\ steps[i].value \in Int /\ steps[i].done \in BOOLEAN
  /\ cfg.gamma \in Int /\ cfg.lambda \in {0, 1}

\* _gae(): the advantages satisfy the recursion they are computed by.
LEMMA GaeRecursion ==
  ASSUME NEW steps, Scored(steps)
  PROVE  LET T    == Len(steps)
             mask == [i \in 1 .. T |-> IF steps[i].done THEN 0 ELSE 1]
             next == [i \in 1 .. T |-> IF i = T THEN 0 ELSE steps[i + 1].value]
         IN  \E adv \in [1 .. T + 1 -> Int] :
               /\ adv[T + 1] = 0
               /\ \A i \in 1 .. T :
                    adv[i] = steps[i].reward + cfg.gamma * next[i] * mask[i] - steps[i].value
                               + cfg.lambda * cfg.gamma * mask[i] * adv[i + 1]
               /\ Gae(steps) = [i \in 1 .. T |-> adv[i] + steps[i].value]
<1> DEFINE T    == Len(steps)
           mask == [i \in 1 .. T |-> IF steps[i].done THEN 0 ELSE 1]
           next == [i \in 1 .. T |-> IF i = T THEN 0 ELSE steps[i + 1].value]
           Solves(f) ==
             f = [i \in 1 .. T + 1 |->
                    IF i = T + 1 THEN 0
                    ELSE steps[i].reward + cfg.gamma * next[i] * mask[i] - steps[i].value
                           + cfg.lambda * cfg.gamma * mask[i] * f[i + 1]]
           adv == CHOOSE f : Solves(f)
<1>1. Gae(steps) = [i \in 1 .. T |-> adv[i] + steps[i].value]
  BY DEF Gae
<1> DEFINE b == [i \in 1 .. T |-> steps[i].reward + cfg.gamma * next[i] * mask[i]
                                     - steps[i].value]
           c == [i \in 1 .. T |-> cfg.lambda * cfg.gamma * mask[i]]
           rec(f) == [i \in 1 .. T + 1 |-> IF i = T + 1 THEN 0 ELSE b[i] + c[i] * f[i + 1]]
<1>2. T \in Nat
  BY DEF Scored
<1>3. b \in [1 .. T -> Int] /\ c \in [1 .. T -> Int]
  <2>1. \A i \in 1 .. T : next[i] \in Int /\ mask[i] \in Int
    BY DEF Scored
  <2>2. ASSUME NEW r \in Int, NEW g \in Int, NEW x \in Int, NEW m \in Int, NEW v \in Int,
               NEW l \in Int
        PROVE  r + g * x * m - v \in Int /\ l * g * m \in Int
    <3>1. g * x \in Int /\ l * g \in Int
      OBVIOUS
    <3>2. (g * x) * m \in Int /\ (l * g) * m \in Int
      BY <3>1
    <3> QED BY <3>2
  <2>3. cfg.gamma \in Int /\ cfg.lambda \in Int
    BY DEF Scored
  <2>4. ASSUME NEW i \in 1 .. T
        PROVE  /\ steps[i].reward + cfg.gamma * next[i] * mask[i] - steps[i].value \in Int
               /\ cfg.lambda * cfg.gamma * mask[i] \in Int
    <3>1. steps[i].reward \in Int /\ steps[i].value \in Int
      BY DEF Scored
    <3> HIDE DEF next, mask
    <3> QED BY <2>1, <2>2, <2>3, <3>1, Zenon
  <2> HIDE DEF next, mask
  <2> QED BY <2>4
<1>4. ASSUME NEW f PROVE Solves(f) <=> f = rec(f)
  <2>1. \A i \in 1 .. T + 1 : i # T + 1 => i \in 1 .. T
    BY <1>2
  <2> HIDE DEF next, mask, T
  <2> QED BY <2>1
<1> HIDE DEF Solves, b, c, T
<1>5. \E f \in [1 .. T + 1 -> Int] : f = rec(f)
  BY <1>2, <1>3, BackwardRecursion
<1>6. Solves(adv)
  BY <1>4, <1>5
<1>7. adv = rec(adv)
  BY <1>4, <1>6
<1> HIDE DEF adv
<1>8. adv \in [1 .. T + 1 -> Int]
  BY <1>2, <1>3, <1>7, BackwardSolution
<1>9. adv[T + 1] = 0
  BY <1>2, <1>7
<1>10. ASSUME NEW i \in 1 .. T
       PROVE  adv[i] = steps[i].reward + cfg.gamma * next[i] * mask[i] - steps[i].value
                         + cfg.lambda * cfg.gamma * mask[i] * adv[i + 1]
  <2>1. adv[i] = b[i] + c[i] * adv[i + 1]
    BY <1>2, <1>7
  <2> HIDE DEF next, mask
  <2> QED BY <2>1 DEF b, c
<1> QED BY <1>1, <1>8, <1>9, <1>10 DEF T

\* The discounted rewards to go satisfy the recursion that defines them.
LEMMA RewardsToGoRecursion ==
  ASSUME Scored(rollout)
  PROVE  /\ RewardsToGo \in [1 .. Len(rollout) + 1 -> Int]
         /\ RewardsToGo[Len(rollout) + 1] = 0
         /\ \A i \in 1 .. Len(rollout) :
              RewardsToGo[i] = rollout[i].reward + cfg.gamma * RewardsToGo[i + 1]
<1> DEFINE T == Len(rollout)
           Solves(f) == f = [i \in 1 .. T + 1 |->
                               IF i > T THEN 0
                               ELSE rollout[i].reward + cfg.gamma * f[i + 1]]
           togo == CHOOSE f : Solves(f)
           b == [i \in 1 .. T |-> rollout[i].reward]
           c == [i \in 1 .. T |-> cfg.gamma]
           rec(f) == [i \in 1 .. T + 1 |-> IF i = T + 1 THEN 0 ELSE b[i] + c[i] * f[i + 1]]
<1>1. RewardsToGo = togo
  BY DEF RewardsToGo
<1>2. T \in Nat /\ b \in [1 .. T -> Int] /\ c \in [1 .. T -> Int]
  BY DEF Scored
<1>3. ASSUME NEW f PROVE Solves(f) <=> f = rec(f)
  <2>1. \A i \in 1 .. T + 1 : /\ (i > T) <=> (i = T + 1)
                              /\ i # T + 1 => i \in 1 .. T
    BY <1>2
  <2> HIDE DEF T
  <2> QED BY <2>1
<1> HIDE DEF Solves, b, c, T
<1>4. \E f \in [1 .. T + 1 -> Int] : f = rec(f)
  BY <1>2, BackwardRecursion
<1>5. Solves(togo)
  BY <1>3, <1>4
<1>6. togo = rec(togo)
  BY <1>3, <1>5
<1> HIDE DEF togo
<1>7. togo \in [1 .. T + 1 -> Int]
  BY <1>2, <1>6, BackwardSolution
<1>8. togo[T + 1] = 0
  BY <1>2, <1>6
<1>9. ASSUME NEW i \in 1 .. T
      PROVE  togo[i] = rollout[i].reward + cfg.gamma * togo[i + 1]
  <2>1. togo[i] = b[i] + c[i] * togo[i + 1]
    BY <1>2, <1>6
  <2> QED BY <2>1 DEF b, c
<1> QED BY <1>1, <1>7, <1>8, <1>9 DEF T

\* The returns of one whole episode, for both values of lambda.
LEMMA GaeTargets ==
  ASSUME Scored(rollout),
         \A i \in 1 .. Len(rollout) : rollout[i].done = (i = Len(rollout))
  PROVE  \A i \in 1 .. Len(rollout) :
           Gae(rollout)[i] = IF cfg.lambda = 1 \/ i = Len(rollout) THEN RewardsToGo[i]
                             ELSE rollout[i].reward + cfg.gamma * rollout[i + 1].value
<1> DEFINE T == Len(rollout)
           g == cfg.gamma
           mask == [i \in 1 .. T |-> IF rollout[i].done THEN 0 ELSE 1]
           next == [i \in 1 .. T |-> IF i = T THEN 0 ELSE rollout[i + 1].value]
           togo == RewardsToGo
<1>1. PICK adv \in [1 .. T + 1 -> Int] :
        /\ adv[T + 1] = 0
        /\ \A i \in 1 .. T :
             adv[i] = rollout[i].reward + cfg.gamma * next[i] * mask[i] - rollout[i].value
                        + cfg.lambda * cfg.gamma * mask[i] * adv[i + 1]
        /\ Gae(rollout) = [i \in 1 .. T |-> adv[i] + rollout[i].value]
  BY GaeRecursion
<1>2. /\ togo \in [1 .. T + 1 -> Int] /\ togo[T + 1] = 0
      /\ \A i \in 1 .. T : togo[i] = rollout[i].reward + g * togo[i + 1]
  BY RewardsToGoRecursion
<1>3. /\ T \in Nat /\ g \in Int /\ cfg.lambda \in {0, 1}
      /\ \A i \in 1 .. T : rollout[i].reward \in Int /\ rollout[i].value \in Int
  BY DEF Scored
\* The last step has no future.
<1>4. ASSUME NEW i \in 1 .. T, i = T
      PROVE  adv[i] + rollout[i].value = rollout[i].reward /\ togo[i] = rollout[i].reward
  <2>1. next[i] = 0 /\ mask[i] = 0
    BY <1>4
  <2>2. adv[i + 1] = 0 /\ togo[i + 1] = 0
    BY <1>1, <1>2, <1>4
  <2>3. adv[i] = rollout[i].reward + g * 0 * 0 - rollout[i].value + cfg.lambda * g * 0 * 0
    BY <1>1, <2>1, <2>2
  <2>4. togo[i] = rollout[i].reward + g * 0
    BY <1>2, <2>2
  <2>5. ASSUME NEW r \in Int, NEW v \in Int, NEW l \in {0, 1}
        PROVE  (r + g * 0 * 0 - v + l * g * 0 * 0) + v = r /\ r + g * 0 = r
    BY <1>3
  <2>6. rollout[i].reward \in Int /\ rollout[i].value \in Int
    BY <1>3
  <2> HIDE DEF g
  <2> QED BY <1>3, <2>3, <2>4, <2>5, <2>6
\* Every other step sees the value of the next one and what follows it.
<1>5. ASSUME NEW i \in 1 .. T, i # T
      PROVE  adv[i] + rollout[i].value
               = rollout[i].reward + g * rollout[i + 1].value + cfg.lambda * g * adv[i + 1]
  <2>1. next[i] = rollout[i + 1].value /\ mask[i] = 1
    BY <1>5
  <2>2. adv[i] = rollout[i].reward + g * rollout[i + 1].value * 1 - rollout[i].value
                   + cfg.lambda * g * 1 * adv[i + 1]
    BY <1>1, <2>1
  <2>3. i + 1 \in 1 .. T /\ i + 1 \in 1 .. T + 1
    BY <1>3, <1>5
  <2>4. /\ rollout[i].reward \in Int /\ rollout[i].value \in Int
        /\ rollout[i + 1].value \in Int /\ adv[i + 1] \in Int /\ cfg.lambda \in Int
    BY <1>1, <1>3, <2>3
  <2>5. ASSUME NEW r \in Int, NEW v \in Int, NEW w \in Int, NEW a \in Int, NEW l \in Int
        PROVE  (r + g * w * 1 - v + l * g * 1 * a) + v = r + g * w + l * g * a
    <3>1. g * w \in Int /\ l * g \in Int /\ (l * g) * a \in Int
      BY <1>3
    <3>2. (g * w) * 1 = g * w /\ (l * g) * 1 = l * g
      BY <3>1
    <3> QED BY <3>1, <3>2
  <2>6. (rollout[i].reward + g * rollout[i + 1].value * 1 - rollout[i].value
             + cfg.lambda * g * 1 * adv[i + 1]) + rollout[i].value
          = rollout[i].reward + g * rollout[i + 1].value + cfg.lambda * g * adv[i + 1]
    <3> HIDE DEF g
    <3> QED BY <2>4, <2>5, SMTT(60)
  <2> QED BY <2>2, <2>6, Zenon
<1>6. CASE cfg.lambda = 0
  <2>1. ASSUME NEW i \in 1 .. T, i # T
        PROVE  adv[i] + rollout[i].value = rollout[i].reward + g * rollout[i + 1].value
    <3>1. i + 1 \in 1 .. T /\ i + 1 \in 1 .. T + 1
      BY <1>3, <2>1
    <3>2. ASSUME NEW r \in Int, NEW w \in Int, NEW a \in Int
          PROVE  r + g * w + 0 * g * a = r + g * w
      BY <1>3
    <3>3. rollout[i].reward \in Int /\ rollout[i + 1].value \in Int /\ adv[i + 1] \in Int
      BY <1>1, <1>3, <3>1
    <3>4. adv[i] + rollout[i].value
            = rollout[i].reward + g * rollout[i + 1].value + 0 * g * adv[i + 1]
      BY <1>5, <1>6, <2>1
    <3> HIDE DEF g
    <3> QED BY <3>2, <3>3, <3>4
  <2> QED BY <1>1, <1>4, <1>6, <2>1
<1>7. CASE cfg.lambda = 1
  <2> DEFINE S == {i \in 1 .. T + 1 : i = T + 1 \/ adv[i] + rollout[i].value = togo[i]}
  <2>1. T + 1 \in S
    BY <1>3
  <2>2. ASSUME NEW i \in 1 .. T, i + 1 \in S PROVE i \in S
    <3>1. CASE i = T
      BY <1>4, <3>1
    <3>2. CASE i # T
      <4>1. i + 1 \in 1 .. T /\ i + 1 \in 1 .. T + 1 /\ i + 1 # T + 1
        BY <1>3, <3>2
      <4>2. adv[i + 1] + rollout[i + 1].value = togo[i + 1]
        BY <2>2, <4>1
      <4>3. adv[i] + rollout[i].value
              = rollout[i].reward + g * rollout[i + 1].value + 1 * g * adv[i + 1]
        BY <1>5, <1>7, <3>2
      <4>4. ASSUME NEW r \in Int, NEW w \in Int, NEW a \in Int
            PROVE  r + g * w + 1 * g * a = r + g * (a + w)
        <5>1. g * (a + w) = g * a + g * w /\ 1 * g = g
          BY <1>3
        <5>2. g * a \in Int /\ g * w \in Int
          BY <1>3
        <5> HIDE DEF g
        <5> QED BY <5>1, <5>2
      <4>5. /\ rollout[i].reward \in Int /\ rollout[i + 1].value \in Int
            /\ adv[i + 1] \in Int
        BY <1>1, <1>3, <4>1
      <4>6. togo[i] = rollout[i].reward + g * togo[i + 1]
        BY <1>2
      <4>7. rollout[i].reward + g * rollout[i + 1].value + 1 * g * adv[i + 1]
              = rollout[i].reward + g * (adv[i + 1] + rollout[i + 1].value)
        <5> HIDE DEF g
        <5> QED BY <4>4, <4>5, Zenon
      <4>8. adv[i] + rollout[i].value = togo[i]
        <5> HIDE DEF g, togo
        <5> QED BY <4>2, <4>3, <4>6, <4>7, Zenon
      <4> QED BY <4>8
    <3> QED BY <3>1, <3>2
  <2>3. 1 .. T + 1 \subseteq S
    <3> HIDE DEF S
    <3> QED BY <1>3, <2>1, <2>2, BackwardInduction
  <2>4. ASSUME NEW i \in 1 .. T PROVE adv[i] + rollout[i].value = togo[i]
    <3>1. i \in 1 .. T + 1 /\ i # T + 1
      BY <1>3
    <3> QED BY <2>3, <3>1
  <2> QED BY <1>1, <1>7, <2>4
<1> QED BY <1>3, <1>6, <1>7

\* Where the returns come from.
Returned == pc = "ppo" => t = EpisodeLen /\ returns = Gae(rollout)

\* A PPO update computes its returns first and never touches the rollout.
LEMMA ReturnedKept == IInv /\ Returned /\ [Next]_vars => Returned'
<1> SUFFICES ASSUME IInv, Returned, [Next]_vars PROVE Returned'
  OBVIOUS
<1>1. ASSUME UNCHANGED <<cfg, t, rollout, returns>>, pc = "ppo" PROVE Returned'
  <2>1. t = EpisodeLen /\ returns = Gae(rollout)
    BY <1>1 DEF Returned
  <2>2. cfg' = cfg /\ rollout' = rollout /\ returns' = returns /\ t' = t
    BY <1>1
  <2> QED BY <2>1, <2>2 DEF Returned, Gae
<1>2. CASE StartPPO
  <2>1. pc = "upper" /\ returns' = Gae(rollout) /\ UNCHANGED <<cfg, t, rollout>>
    BY <1>2 DEF StartPPO
  <2>2. t = EpisodeLen
    BY <2>1 DEF IInv, Collected
  <2> QED BY <2>1, <2>2 DEF Returned, Gae
<1>3. ASSUME NEW batch \in SUBSET left, Minibatch(batch) PROVE Returned'
  BY <1>1, <1>3 DEF Minibatch
<1>4. CASE UNCHANGED vars
  BY <1>1, <1>4 DEF vars, ppo, Returned
<1>5. ASSUME NEW reward \in Rewards, NEW value \in Values, Act(reward, value)
      PROVE  Returned'
  BY <1>5 DEF Act, Returned
<1>6. CASE StartEpisode \/ SkipUpper \/ ValueUpdate \/ SkipLower \/ LowerUpdate
  BY <1>6 DEF StartEpisode, SkipUpper, ValueUpdate, UpperUpdated, SkipLower, LowerUpdate,
              Returned
<1> QED BY <1>2, <1>3, <1>4, <1>5, <1>6 DEF Next

\* The critic of every PPO update is fitted to the returns of the episode, for
\* every length of it and every reward, value and discount: with lambda 1 to
\* the discounted rewards to go, with lambda 0 to the one-step targets.
THEOREM ReturnsTargeted == Spec => []ReturnsAreTargets
<1>1. Init => Returned
  BY DEF Init, Returned
<1>2. IInv /\ Returned => ReturnsAreTargets
  <2> SUFFICES ASSUME IInv, Returned, pc = "ppo" PROVE ReturnsAreTargets
    BY DEF ReturnsAreTargets
  <2>1. /\ rollout \in Seq(Step) /\ cfg \in Setups
        /\ Len(rollout) = EpisodeLen /\ returns = Gae(rollout)
        /\ \A i \in 1 .. Len(rollout) : rollout[i].done = (i = EpisodeLen)
    BY DEF IInv, TypeOK, Collected, Returned
  <2>2. DOMAIN rollout = 1 .. Len(rollout) /\ Len(rollout) \in Nat
    BY <2>1, LenProperties
  <2>3. Scored(rollout)
    <3>1. cfg.gamma \in Int /\ cfg.lambda \in {0, 1}
      BY <2>1, SetupsAssumption DEF Setup
    <3>2. ASSUME NEW i \in 1 .. Len(rollout)
          PROVE  /\ rollout[i].reward \in Int /\ rollout[i].value \in Int
                 /\ rollout[i].done \in BOOLEAN
      <4>1. rollout[i] \in Step
        BY <2>1, <3>2, ElementOfSeq
      <4> QED BY <4>1, SizeAssumption DEF Step
    <3> QED BY <2>2, <3>1, <3>2 DEF Scored
  <2> QED BY <2>1, <2>2, <2>3, GaeTargets DEF ReturnsAreTargets
<1> QED BY <1>1, <1>2, Invariance, ReturnedKept, PTL DEF Spec

-----------------------------------------------------------------------------
(* Every episode, and with it train(), is a finite number of steps.        *)

\* Something is left of a PPO epoch until the update is over.
LEMMA UpdateWorks == Spec => []UpdateHasWork
<1>1. Init => UpdateHasWork
  BY DEF Init, UpdateHasWork
<1>2. IInv /\ UpdateHasWork /\ [Next]_vars => UpdateHasWork'
  <2> SUFFICES ASSUME IInv, UpdateHasWork, [Next]_vars, pc' = "ppo"
               PROVE  (left # {} /\ epoch \in 1 .. cfg.epochs)'
    BY DEF UpdateHasWork
  <2>1. cfg.epochs \in Nat \ {0} /\ epoch \in Nat /\ EpisodeLen \in Nat \ {0}
    BY SetupsAssumption, SizeAssumption DEF IInv, TypeOK, Setup
  <2>2. CASE StartPPO
    <3>1. Len(rollout) = EpisodeLen /\ DOMAIN rollout = 1 .. Len(rollout)
      BY <2>2, LenProperties DEF StartPPO, IInv, TypeOK, Collected
    <3>2. 1 \in DOMAIN rollout
      BY <2>1, <3>1
    <3> QED BY <2>1, <2>2, <3>2 DEF StartPPO
  <2>3. ASSUME NEW batch \in SUBSET left, Minibatch(batch)
        PROVE  (left # {} /\ epoch \in 1 .. cfg.epochs)'
    <3>1. pc = "ppo" /\ left # {} /\ left \subseteq DOMAIN rollout
          /\ epoch \in 1 .. cfg.epochs /\ cfg' = cfg /\ rollout' = rollout
      BY <2>3 DEF Minibatch, UpdateHasWork, IInv, EpochState
    <3>2. CASE ~EpochOver(batch) /\ left' = left \ batch /\ epoch' = epoch
      BY <3>1, <3>2 DEF EpochOver
    <3>3. CASE EpochOver(batch) /\ epoch < cfg.epochs /\ epoch' = epoch + 1
               /\ left' = DOMAIN rollout
      BY <2>1, <3>1, <3>3
    <3> QED BY <2>3, <3>2, <3>3 DEF Minibatch, UpperUpdated
  <2>4. CASE StartEpisode \/ SkipUpper \/ ValueUpdate \/ SkipLower \/ LowerUpdate
    BY <2>4 DEF StartEpisode, SkipUpper, ValueUpdate, UpperUpdated, SkipLower, LowerUpdate
  <2>5. ASSUME NEW reward \in Rewards, NEW value \in Values, Act(reward, value)
        PROVE  FALSE
    BY <2>5 DEF Act
  <2>6. CASE UNCHANGED vars
    BY <2>6 DEF vars, ppo, UpdateHasWork
  <2> QED BY <2>2, <2>3, <2>4, <2>5, <2>6 DEF Next
<1> QED BY <1>1, <1>2, Invariance, PTL DEF Spec

\* One factor less.
LEMMA OneLess ==
  ASSUME NEW k \in Nat, NEW m \in Nat
  PROVE  /\ (k + 1) * m = k * m + m
         /\ k * m \in Nat
BY SMT

\* What is ahead in each phase.
LEMMA Phases ==
  /\ pc = "act"     => PhaseSteps = (EpisodeLen - t) + 1 + UpdateSteps
  /\ pc = "upper"   => PhaseSteps = 1 + UpdateSteps
  /\ pc = "ppo"     => PhaseSteps = (cfg.epochs - epoch) * EpisodeLen + Cardinality(left) + 1
  /\ pc = "lower"   => PhaseSteps = 1
  /\ pc = "episode" => PhaseSteps = 0
<1>1. CASE pc = "act"
  BY <1>1 DEF PhaseSteps
<1>2. CASE pc = "upper"
  BY <1>2 DEF PhaseSteps
<1>3. CASE pc = "ppo"
  BY <1>3 DEF PhaseSteps
<1>4. CASE pc = "lower"
  BY <1>4 DEF PhaseSteps
<1>5. CASE pc = "episode"
  BY <1>5 DEF PhaseSteps
<1> QED BY <1>1, <1>2, <1>3, <1>4, <1>5

\* What the bound is made of.
AheadType ==
  /\ TotalEpisodes \in Nat /\ EpisodeLen \in Nat \ {0}
  /\ cfg.epochs \in Nat \ {0} /\ UpdateSteps \in Nat
  /\ t \in 0 .. EpisodeLen /\ episode \in 0 .. TotalEpisodes
  /\ pc \in {"episode", "act", "upper", "ppo", "lower"}
  /\ IsFiniteSet(left) /\ Cardinality(left) \in Nat
  /\ pc = "ppo" => epoch \in 1 .. cfg.epochs /\ left # {}

LEMMA AheadTypes == IInv /\ UpdateHasWork => AheadType
<1> SUFFICES ASSUME IInv, UpdateHasWork PROVE AheadType
  OBVIOUS
<1>1. /\ TotalEpisodes \in Nat /\ EpisodeLen \in Nat \ {0} /\ cfg.epochs \in Nat \ {0}
      /\ t \in 0 .. EpisodeLen /\ episode \in 0 .. TotalEpisodes
      /\ pc \in {"episode", "act", "upper", "ppo", "lower"}
      /\ left \subseteq 1 .. EpisodeLen
  BY SetupsAssumption, SizeAssumption DEF IInv, TypeOK, Setup
<1>2. UpdateSteps \in Nat
  BY <1>1, OneLess DEF UpdateSteps
<1>3. IsFiniteSet(left)
  <2>1. IsFiniteSet(1 .. EpisodeLen) /\ left \in SUBSET (1 .. EpisodeLen)
    BY <1>1, FS_Interval
  <2> QED BY <2>1, FS_Subset
<1>4. Cardinality(left) \in Nat
  BY <1>3, FS_CardinalityType
<1> QED BY <1>1, <1>2, <1>3, <1>4 DEF UpdateHasWork, AheadType

\* The bound is a number.
LEMMA AheadIsNumber ==
  ASSUME AheadType
  PROVE  /\ PhaseSteps \in Nat /\ EpisodeLen + UpdateSteps + 2 \in Nat
         /\ StepsAhead \in Nat
<1>1. PhaseSteps \in Nat
  <2>1. CASE pc = "act"
    BY <2>1, Phases DEF AheadType
  <2>2. CASE pc = "upper"
    BY <2>2, Phases DEF AheadType
  <2>3. CASE pc = "ppo"
    <3> DEFINE x == (cfg.epochs - epoch) * EpisodeLen
    <3>1. cfg.epochs - epoch \in Nat /\ EpisodeLen \in Nat
      BY <2>3 DEF AheadType
    <3>2. x \in Nat
      BY <3>1, OneLess
    <3>3. PhaseSteps = x + Cardinality(left) + 1
      BY <2>3, Phases
    <3> HIDE DEF x
    <3> QED BY <3>2, <3>3 DEF AheadType
  <2>4. CASE pc = "lower"
    BY <2>4, Phases
  <2>5. CASE pc = "episode"
    BY <2>5, Phases
  <2> QED BY <2>1, <2>2, <2>3, <2>4, <2>5 DEF AheadType
<1>2. TotalEpisodes - episode \in Nat /\ EpisodeLen + UpdateSteps + 2 \in Nat
  BY DEF AheadType
<1>3. (TotalEpisodes - episode) * (EpisodeLen + UpdateSteps + 2) \in Nat
  BY <1>2, OneLess
<1> QED BY <1>1, <1>2, <1>3 DEF StepsAhead

\* Fewer samples are left when some were used.
LEMMA FewerLeft ==
  ASSUME NEW S, IsFiniteSet(S), NEW b \in SUBSET S, b # {}
  PROVE  /\ Cardinality(S \ b) \in Nat /\ Cardinality(S) \in Nat
         /\ Cardinality(S \ b) < Cardinality(S)
<1>1. S \ b \in SUBSET S /\ S \ b # S
  OBVIOUS
<1>2. IsFiniteSet(S \ b) /\ Cardinality(S \ b) <= Cardinality(S)
      /\ Cardinality(S) # Cardinality(S \ b)
  BY <1>1, FS_Subset
<1>3. Cardinality(S \ b) \in Nat /\ Cardinality(S) \in Nat
  BY <1>2, FS_CardinalityType
<1> QED BY <1>2, <1>3

\* A minibatch uses up a step.
LEMMA MinibatchUses ==
  ASSUME IInv, AheadType, NEW batch \in SUBSET left, Minibatch(batch)
  PROVE  PhaseSteps' \in Nat /\ PhaseSteps' < PhaseSteps
<1> DEFINE x == (cfg.epochs - epoch) * EpisodeLen
<1>1. /\ pc = "ppo" /\ left # {} /\ batch # {} /\ epoch \in 1 .. cfg.epochs
      /\ cfg' = cfg /\ rollout' = rollout
  BY DEF Minibatch, AheadType
<1>2. PhaseSteps = x + Cardinality(left) + 1
  BY <1>1, Phases
<1>3. /\ Cardinality(left \ batch) \in Nat /\ Cardinality(left) \in Nat
      /\ Cardinality(left \ batch) < Cardinality(left)
  BY <1>1, FewerLeft DEF AheadType
<1>4. cfg.epochs - epoch \in Nat /\ EpisodeLen \in Nat
  BY <1>1 DEF AheadType
<1>5. x \in Nat
  BY <1>4, OneLess
<1>6. CASE pc' = pc /\ left' = left \ batch /\ epoch' = epoch
  <2>1. PhaseSteps' = x + Cardinality(left \ batch) + 1
    BY <1>1, <1>6 DEF PhaseSteps
  <2> HIDE DEF x
  <2> QED BY <1>2, <1>3, <1>5, <2>1
<1>7. CASE pc' = pc /\ epoch < cfg.epochs /\ epoch' = epoch + 1 /\ left' = DOMAIN rollout
  <2> DEFINE y == (cfg.epochs - (epoch + 1)) * EpisodeLen
  <2>1. PhaseSteps' = y + Cardinality(DOMAIN rollout) + 1
    BY <1>1, <1>7 DEF PhaseSteps
  <2>2. Cardinality(DOMAIN rollout) \in Nat /\ Cardinality(DOMAIN rollout) <= EpisodeLen
    <3>1. DOMAIN rollout = 1 .. Len(rollout) /\ Len(rollout) \in Nat
          /\ Len(rollout) <= EpisodeLen
      BY LenProperties DEF IInv, TypeOK
    <3>2. Cardinality(1 .. Len(rollout)) = IF 1 > Len(rollout) THEN 0 ELSE Len(rollout) - 1 + 1
      BY <3>1, FS_Interval
    <3> QED BY <1>4, <3>1, <3>2
  <2>3. cfg.epochs - (epoch + 1) \in Nat
        /\ cfg.epochs - epoch = (cfg.epochs - (epoch + 1)) + 1
    BY <1>1, <1>7 DEF AheadType
  <2>4. x = y + EpisodeLen /\ y \in Nat
    BY <1>4, <2>3, OneLess
  <2>5. Cardinality(left) > 0
    BY <1>3
  <2> HIDE DEF x, y
  <2> QED BY <1>2, <1>3, <1>4, <2>1, <2>2, <2>4, <2>5
<1>8. CASE pc' = "lower"
  <2>1. PhaseSteps' = 1
    BY <1>8 DEF PhaseSteps
  <2> HIDE DEF x
  <2> QED BY <1>2, <1>3, <1>5, <2>1
<1> QED BY <1>6, <1>7, <1>8 DEF Minibatch, UpperUpdated

\* Every step uses up a step.
LEMMA StepsUsed ==
  ASSUME IInv, AheadType, AheadType', Next
  PROVE  StepsAhead' < StepsAhead
<1> DEFINE K == EpisodeLen + UpdateSteps + 2
           E == (TotalEpisodes - episode) * K
<1>1. /\ PhaseSteps \in Nat /\ K \in Nat
      /\ TotalEpisodes - episode \in Nat
  BY AheadIsNumber DEF AheadType
<1>2. E \in Nat
  <2> HIDE DEF K
  <2> QED BY <1>1, OneLess
<1>3. StepsAhead = E + PhaseSteps
  BY DEF StepsAhead
<1>4. cfg' = cfg /\ K' = K /\ UpdateSteps' = UpdateSteps
  BY DEF Next, StartEpisode, Act, SkipUpper, StartPPO, ValueUpdate, Minibatch, SkipLower,
         LowerUpdate, UpdateSteps
<1>5. StepsAhead' = (TotalEpisodes - episode') * K + PhaseSteps'
  BY <1>4 DEF StepsAhead
\* Inside an episode only the phase counts.
<1>6. ASSUME episode' = episode, PhaseSteps' \in Nat, PhaseSteps' < PhaseSteps
      PROVE  StepsAhead' < StepsAhead
  <2>1. StepsAhead' = E + PhaseSteps'
    BY <1>5, <1>6
  <2>2. \A e, p, q \in Nat : q < p => e + q < e + p
    OBVIOUS
  <2> HIDE DEF E, K
  <2> QED BY <1>1, <1>2, <1>3, <1>6, <2>1, <2>2, Zenon
<1>t. /\ EpisodeLen \in Nat \ {0} /\ UpdateSteps \in Nat
      /\ t \in 0 .. EpisodeLen /\ t' \in 0 .. EpisodeLen
      /\ episode \in 0 .. TotalEpisodes /\ TotalEpisodes \in Nat
  BY DEF AheadType
<1>7. CASE StartEpisode
  <2>1. /\ PhaseSteps = 0 /\ PhaseSteps' = EpisodeLen + 1 + UpdateSteps
        /\ episode < TotalEpisodes /\ episode' = episode + 1
    <3>1. pc' = "act" /\ t' = 0 /\ pc = "episode" /\ episode < TotalEpisodes
          /\ episode' = episode + 1
      BY <1>7 DEF StartEpisode
    <3>2. PhaseSteps' = (EpisodeLen - 0) + 1 + UpdateSteps
      BY <1>4, <3>1 DEF PhaseSteps
    <3> QED BY <1>t, <3>1, <3>2, Phases
  <2>2. TotalEpisodes - episode' \in Nat
        /\ TotalEpisodes - episode = (TotalEpisodes - episode') + 1
    BY <1>t, <2>1
  <2> DEFINE F == (TotalEpisodes - episode') * K
  <2>3. E = F + K /\ F \in Nat
    <3> HIDE DEF K
    <3> QED BY <1>1, <2>2, OneLess
  <2>4. StepsAhead' = F + PhaseSteps'
    BY <1>5
  <2>5. K = EpisodeLen + UpdateSteps + 2
    OBVIOUS
  <2> HIDE DEF E, F, K
  <2> QED BY <1>t, <1>3, <2>1, <2>3, <2>4, <2>5
<1>8. ASSUME NEW reward \in Rewards, NEW value \in Values, Act(reward, value)
      PROVE  StepsAhead' < StepsAhead
  <2>1. /\ pc = "act" /\ t' = t + 1 /\ episode' = episode
        /\ pc' = IF t + 1 = EpisodeLen THEN "upper" ELSE "act"
    BY <1>8 DEF Act
  <2>2. PhaseSteps = (EpisodeLen - t) + 1 + UpdateSteps
    BY <2>1, Phases
  <2>3. PhaseSteps' = IF t + 1 = EpisodeLen THEN 1 + UpdateSteps
                                            ELSE (EpisodeLen - (t + 1)) + 1 + UpdateSteps
    <3>1. CASE t + 1 = EpisodeLen
      BY <1>4, <2>1, <3>1 DEF PhaseSteps
    <3>2. CASE t + 1 # EpisodeLen
      BY <1>4, <2>1, <3>2 DEF PhaseSteps
    <3> QED BY <3>1, <3>2
  <2>4. t + 1 <= EpisodeLen
    BY <1>t, <2>1
  <2> QED BY <1>t, <1>6, <2>1, <2>2, <2>3, <2>4
<1>9. CASE SkipUpper \/ ValueUpdate
  <2>1. pc = "upper" /\ pc' = "lower" /\ episode' = episode
    BY <1>9 DEF SkipUpper, ValueUpdate, UpperUpdated
  <2>2. PhaseSteps = 1 + UpdateSteps
    BY <2>1, Phases
  <2>3. PhaseSteps' = 1
    BY <2>1 DEF PhaseSteps
  <2>4. UpdateSteps > 0
    <3>1. cfg.epochs \in Nat
      BY DEF AheadType
    <3>2. cfg.epochs * EpisodeLen \in Nat
      BY <1>t, <3>1, OneLess
    <3> QED BY <3>2 DEF UpdateSteps
  <2> QED BY <1>t, <1>6, <2>1, <2>2, <2>3, <2>4
<1>10. CASE StartPPO
  <2> DEFINE x == (cfg.epochs - 1) * EpisodeLen
  <2>1. pc = "upper" /\ pc' = "ppo" /\ episode' = episode /\ epoch' = 1
        /\ left' = DOMAIN rollout
    BY <1>10 DEF StartPPO
  <2>2. PhaseSteps = 1 + UpdateSteps
    BY <2>1, Phases
  <2>3. PhaseSteps' = x + Cardinality(DOMAIN rollout) + 1
    BY <1>4, <2>1 DEF PhaseSteps
  <2>4. Cardinality(DOMAIN rollout) \in Nat /\ Cardinality(DOMAIN rollout) <= EpisodeLen
    <3>1. DOMAIN rollout = 1 .. Len(rollout) /\ Len(rollout) \in Nat
          /\ Len(rollout) <= EpisodeLen
      BY LenProperties DEF IInv, TypeOK
    <3>2. Cardinality(1 .. Len(rollout)) = IF 1 > Len(rollout) THEN 0 ELSE Len(rollout) - 1 + 1
      BY <3>1, FS_Interval
    <3> QED BY <1>t, <3>1, <3>2
  <2>5. UpdateSteps = x + EpisodeLen + 1 /\ x \in Nat
    <3>1. cfg.epochs - 1 \in Nat /\ cfg.epochs = (cfg.epochs - 1) + 1
      BY DEF AheadType
    <3>2. cfg.epochs * EpisodeLen = x + EpisodeLen /\ x \in Nat
      BY <1>t, <3>1, OneLess
    <3> QED BY <3>2 DEF UpdateSteps
  <2> HIDE DEF x
  <2> QED BY <1>t, <1>6, <2>1, <2>2, <2>3, <2>4, <2>5
<1>11. ASSUME NEW batch \in SUBSET left, Minibatch(batch) PROVE StepsAhead' < StepsAhead
  <2>1. PhaseSteps' \in Nat /\ PhaseSteps' < PhaseSteps
    BY <1>11, MinibatchUses
  <2>2. episode' = episode
    BY <1>11 DEF Minibatch
  <2> QED BY <1>6, <2>1, <2>2
<1>12. CASE SkipLower \/ LowerUpdate
  <2>1. pc = "lower" /\ pc' = "episode" /\ episode' = episode
    BY <1>12 DEF SkipLower, LowerUpdate
  <2>2. PhaseSteps = 1 /\ PhaseSteps' = 0
    BY <2>1, Phases DEF PhaseSteps
  <2> QED BY <1>6, <2>1, <2>2
<1> QED BY <1>7, <1>8, <1>9, <1>10, <1>11, <1>12 DEF Next

\* No step of train() is undone: each uses up one of those ahead, of which there
\* are at first TotalEpisodes * (EpisodeLen * (epochs + 1) + 3).
THEOREM TrainingIsFinite == Spec => [](StepsAhead \in Nat) /\ TrainingRunsOut
<1>1. Spec => []AheadType
  BY Invariance, UpdateWorks, AheadTypes, PTL
<1>2. AheadType => StepsAhead \in Nat
  BY AheadIsNumber
<1>3. IInv /\ AheadType /\ AheadType' /\ [Next]_vars => [StepsAhead' < StepsAhead]_vars
  BY StepsUsed
<1> QED BY <1>1, <1>2, <1>3, Invariance, PTL DEF Spec, TrainingRunsOut

=============================================================================
