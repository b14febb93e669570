-------------------------- MODULE MCTrainingSchedule --------------------------
(* Three slots, four episodes, a ring of four transitions: it wraps in the  *)
(* second episode, and the third leaves it in the middle.                   *)
EXTENDS TrainingSchedule

Base == [upper |-> "ppo", upper_update_every |-> 1, lower_update_every |-> 1,
         lower_updates |-> 1, upper_pretrain |-> 0, lower_enabled |-> TRUE,
         shared_joint |-> FALSE, history_len |-> 1, reencode |-> FALSE,
         epochs |-> 2, minibatch |-> 2, kl_stop |-> FALSE,
         upper_warmup |-> 0, upper_batch |-> 1, lower_warmup |-> 0, lower_batch |-> 2,
         gamma |-> 1, lambda |-> 1]

\* PPO at every episode behind a history of two, with the shared encoder trained
\* by both agents; every second episode, with pretraining and early stops; a
\* value-based upper agent with its own cadences; a batch beyond the warm-up.
MCSetups ==
  {Base,
   [Base EXCEPT !.history_len = 2, !.upper_update_every = 2, !.shared_joint = TRUE,
                !.gamma = 2],
   [Base EXCEPT !.lambda = 0, !.kl_stop = TRUE, !.upper_update_every = 2,
                !.upper_pretrain = 1, !.lower_updates = 2, !.minibatch = 5],
   [Base EXCEPT !.upper = "value", !.upper_warmup = 2, !.upper_batch = 4,
                !.lower_update_every = 2, !.upper_pretrain = 2, !.history_len = 3,
                !.lower_warmup = 1, !.lower_batch = 4],
   [Base EXCEPT !.upper = "value", !.history_len = 2, !.reencode = TRUE,
                !.lower_batch = 5, !.lower_enabled = TRUE]}

=============================================================================
