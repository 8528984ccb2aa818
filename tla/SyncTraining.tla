----------------------------- MODULE SyncTraining -----------------------------
(***************************************************************************)
(* The synchronous training loops of nemo_rl/algorithms: grpo_train with   *)
(* the dynamic sampling of DAPO (grpo.py), distillation_train, and the     *)
(* supervised loops sft_train, dpo_train and rm_train.  One driver process *)
(* runs them; it takes batches from a stateful dataloader, lets an engine  *)
(* generate with a copy of the weights, trains, validates and saves.  The  *)
(* job may be killed anywhere and is launched again from its checkpoint,   *)
(* which keeps what DurableTraining promises (CheckpointManager).          *)
(*                                                                         *)
(* Trainer and engine share the GPUs when inference is colocated: where    *)
(* each keeps its memory (dtensor_policy_worker.py, vllm_generation.py) is *)
(* part of the state, because the loop moves it by hand.                   *)
(***************************************************************************)
EXTENDS Integers, Sequences, FiniteSets, SequencesExt

CONSTANTS
    Algorithms,      \* "grpo", "distillation", "supervised": the loops to look at
    DynamicSampling, \* the values of grpo.use_dynamic_sampling
    LeaveOneOut,     \* the values of grpo.use_leave_one_out_baseline
    NumBatches,      \* len(dataloader)
    BatchPrompts,    \* num_prompts_per_step * batch_multiplier
    StepPrompts,     \* num_prompts_per_step
    NumGenerations,  \* num_generations_per_prompt
    MaxGenBatches,   \* the values of dynamic_sampling_max_gen_batches
    MaxEpochs,       \* max_num_epochs
    MaxSteps,        \* max_num_steps
    ValPeriod,       \* val_period
    SavePeriod,      \* checkpointing.save_period
    MaxLaunches      \* bound on how often the job is launched again

ASSUME LoopConstants ==
    /\ Algorithms \subseteq {"grpo", "distillation", "supervised"}
    /\ DynamicSampling \subseteq BOOLEAN /\ LeaveOneOut \subseteq BOOLEAN
    /\ {NumBatches, BatchPrompts, StepPrompts, NumGenerations, MaxEpochs, MaxSteps,
        SavePeriod} \cup MaxGenBatches \subseteq Nat \ {0}
    /\ ValPeriod \in Nat /\ MaxLaunches \in Nat

VARIABLES
    config,     \* the switches of master_config; never changes
    phase,      \* where the loop is
    purpose,    \* what the engine is being woken for
    epoch, step, total,   \* current_epoch, current_step, total_steps
    position,   \* how many batches of the epoch the dataloader has yielded
    rows,       \* the samples of the batch at hand, then those to train on
    cache,      \* batch_cache
    genBatches, \* dynamic_sampling_num_gen_batches
    stale,      \* POLICY_GENERATION_STALE
    policy,     \* on which device the policy's model and optimizer state are
    teacher,    \* on which device the teacher of a distillation is
    engine,     \* the parts of the engine that are awake
    version,    \* history: how often the weights of the policy were updated
    loaded,     \* history: the version of the weights the engine has
    timedOut,   \* should_save_by_timeout of this step
    saved,      \* the checkpoint a launch resumes from
    trained,    \* history: per step, the dataloader's batches it trained on
    launches    \* history: how often the job was launched again

counters == <<epoch, step, total, position>>
sampling == <<rows, cache, genBatches>>
placement == <<policy, teacher, engine>>
weights == <<stale, version, loaded>>
job == <<config, saved, launches>>
vars == <<phase, purpose, counters, sampling, placement, weights, timedOut, trained, job>>

Switches == [algorithm : Algorithms, colocated : BOOLEAN, ownEngine : BOOLEAN,
             dynamic : DynamicSampling, leaveOneOut : LeaveOneOut,
             offloadForLogprob : BOOLEAN, valAtStart : BOOLEAN,
             valAtEnd : BOOLEAN, unlimited : BOOLEAN, maxGenBatches : MaxGenBatches]

\* setup() accepts these: only GRPO samples dynamically (elsewhere baseline and
\* bound decide nothing here), a policy that generates by itself (the backend
\* "megatron") is colocated.  unlimited stands for a max_num_steps beyond what the
\* epochs hold, and for the -1 of rm_train.
Valid(c) ==
    /\ c.dynamic => c.algorithm = "grpo"
    /\ c.leaveOneOut => c.dynamic
    /\ ~c.dynamic => \A n \in MaxGenBatches : c.maxGenBatches <= n
    /\ c.ownEngine => c.colocated
    /\ c.algorithm = "supervised" => ~c.colocated /\ ~c.ownEngine

Supervised == config.algorithm = "supervised"
NeedRefit == ~config.ownEngine
PerBatch == IF config.dynamic THEN BatchPrompts ELSE StepPrompts
Generations == IF Supervised THEN 1 ELSE NumGenerations
TrainSize == StepPrompts * NumGenerations

-----------------------------------------------------------------------------
(* Where trainer and engine keep their memory. *)

Awake == {"weights", "kv_cache"}
Placed(model, optimizer) == [model |-> model, optimizer |-> optimizer]

PreparedForLogprobs ==
    Placed("gpu", IF config.offloadForLogprob THEN "cpu" ELSE policy.optimizer)

\* Variant: the optimizer state comes back only where the logprobs sent it away.
PreparedForTrainingAfterLogprobs ==
    Placed("gpu", IF config.offloadForLogprob THEN "gpu" ELSE policy.optimizer)

PreparedForTraining ==
    Placed("gpu", IF config.offloadForLogprob \/ config.colocated THEN "gpu"
                  ELSE policy.optimizer)

OffloadedBeforeRefit == Placed(policy.model, "cpu")
OffloadedAfterRefit == Placed("cpu", "cpu")

\* finish_generation: a colocated engine sleeps, any other only drops its prefix cache.
Asleep == IF config.colocated THEN {} ELSE Awake
-----------------------------------------------------------------------------
(* Rewards and dynamic sampling.  A reward is 1 or 0; ones is how many of  *)
(* the generations of the prompt got 1, and the first ones of them did.    *)

Row(prompt, sample, ones) ==
    [batch |-> <<epoch, position>>, prompt |-> prompt, sample |-> sample, ones |-> ones]

RowsOf(ones) ==
    [i \in 1..(PerBatch * Generations) |->
        LET prompt == 1 + (i - 1) \div Generations
        IN  Row(prompt, 1 + ((i - 1) % Generations), ones[prompt])]

\* calculate_baseline_and_std_per_prompt: among n rewards of which k are 1 the
\* standard deviation is 0, or undefined and set to 0.
Varies(k, n) == n > 1 /\ k \notin {0, n}

\* std != 0: with the leave-one-out baseline the deviation is that of the others.
NonZeroStd(row) ==
    IF config.leaveOneOut
    THEN Varies(row.ones - (IF row.sample <= row.ones THEN 1 ELSE 0), NumGenerations - 1)
    ELSE Varies(row.ones, NumGenerations)
-----------------------------------------------------------------------------
Nothing == [step |-> 0, total |-> 0, epoch |-> 0, position |-> 0, version |-> 0,
            trained |-> << >>]

\* What setup() and the head of the loop make of a checkpoint: the engine is put
\* to sleep before the policy is built, and holds the weights of the base model.
LaunchFrom(checkpoint) ==
    /\ phase' = "start" /\ purpose' = "rollout"
    /\ epoch' = checkpoint.epoch /\ step' = checkpoint.step
    /\ total' = checkpoint.total /\ position' = checkpoint.position
    /\ rows' = << >> /\ cache' = << >> /\ genBatches' = 0
    /\ stale' = TRUE /\ version' = checkpoint.version /\ loaded' = 0
    /\ policy' = Placed("gpu", "gpu") /\ teacher' = "cpu" /\ engine' = Asleep
    /\ timedOut' = FALSE /\ trained' = checkpoint.trained

Init ==
    /\ config \in {c \in Switches : Valid(c)}
    /\ saved = Nothing /\ launches = 0
    /\ phase = "start" /\ purpose = "rollout"
    /\ epoch = 0 /\ step = 0 /\ total = 0 /\ position = 0
    /\ rows = << >> /\ cache = << >> /\ genBatches = 0
    /\ stale = TRUE /\ version = 0 /\ loaded = 0
    /\ policy = Placed("gpu", "gpu") /\ teacher = "cpu" /\ engine = Asleep
    /\ timedOut = FALSE /\ trained = << >>

\* What a step that only moves on leaves alone.
Goto(next) == phase' = next
unmoved == <<counters, sampling, timedOut, trained, job>>

AtLimit(steps) == ~config.unlimited /\ steps >= MaxSteps

\* Variant: the limit is compared with the steps before this one.
IsLastStepLate ==
    \/ AtLimit(total)
    \/ epoch + 1 = MaxEpochs /\ step + 1 = NumBatches

\* is_last_step: by the limit, or the last batch of the last epoch.
IsLastStep ==
    \/ AtLimit(total + 1)
    \/ epoch + 1 = MaxEpochs /\ step + 1 = NumBatches

\* The initial validation of a job that starts from nothing.
Start ==
    /\ phase = "start" /\ ~Supervised
    /\ IF config.valAtStart /\ (IF config.algorithm = "grpo" THEN step ELSE total) = 0
       THEN Goto("prepareGeneration") /\ purpose' = "initial"
       ELSE Goto("epoch") /\ UNCHANGED purpose
    /\ UNCHANGED <<unmoved, placement, weights>>

StartSupervised ==
    /\ phase = "start" /\ Supervised
    /\ IF config.valAtStart /\ total = 0
       THEN Goto("validating") /\ purpose' = "initial"
       ELSE Goto("epoch") /\ UNCHANGED purpose
    /\ policy' = PreparedForTraining
    /\ UNCHANGED <<unmoved, teacher, engine, weights>>

\* while current_epoch < max_num_epochs and total_steps < max_num_steps
BeginEpoch ==
    /\ phase = "epoch"
    /\ Goto(IF epoch < MaxEpochs /\ ~AtLimit(total) THEN "batch" ELSE "finished")
    /\ cache' = << >> /\ genBatches' = 0
    /\ UNCHANGED <<purpose, counters, rows, timedOut, trained, job, placement, weights>>

\* for batch in dataloader
TakeBatch ==
    /\ phase = "batch" /\ position < NumBatches
    /\ Goto(IF Supervised THEN "train" ELSE "prepareGeneration")
    /\ purpose' = "rollout"
    /\ rows' = RowsOf([p \in 1..PerBatch |-> 0])
    /\ position' = position + 1
    /\ UNCHANGED <<epoch, step, total, cache, genBatches, timedOut, trained, job, placement, weights>>

\* Variant: the epoch counts when every batch of it gave a step.
EndEpochOfFullSteps ==
    /\ phase = "batch" /\ position = NumBatches
    /\ Goto("epoch")
    /\ epoch' = (IF step = NumBatches THEN epoch + 1 ELSE epoch)
    /\ step' = 0 /\ position' = 0
    /\ UNCHANGED <<purpose, total, sampling, timedOut, trained, job, placement, weights>>

\* Variant: the step goes on counting.
EndEpochKeepsStep ==
    /\ phase = "batch" /\ position = NumBatches
    /\ Goto("epoch")
    /\ epoch' = epoch + 1 /\ position' = 0
    /\ UNCHANGED <<purpose, step, total, sampling, timedOut, trained, job, placement, weights>>

\* The dataloader is exhausted; a resumed one may be at once.
EndEpoch ==
    /\ phase = "batch" /\ position = NumBatches
    /\ Goto("epoch")
    /\ epoch' = epoch + 1 /\ step' = 0 /\ position' = 0
    /\ UNCHANGED <<purpose, total, sampling, timedOut, trained, job, placement, weights>>

-----------------------------------------------------------------------------
(* Waking the engine, with new weights or without. *)

Generating == IF purpose = "rollout" THEN "rollout" ELSE "validating"

\* The weights of the engine are stale: refit_policy_generation begins.
BeginRefit ==
    /\ phase = "prepareGeneration" /\ NeedRefit /\ stale
    /\ Goto("transfer")
    /\ IF config.colocated
       THEN policy' = OffloadedBeforeRefit /\ engine' = engine \cup {"weights"}
       ELSE UNCHANGED <<policy, engine>>
    /\ UNCHANGED <<unmoved, purpose, teacher, weights>>

TransferWeights ==
    /\ phase = "transfer" /\ Goto("refitted")
    /\ loaded' = version
    /\ UNCHANGED <<unmoved, purpose, placement, stale, version>>

EndRefit ==
    /\ phase = "refitted" /\ Goto(Generating)
    /\ IF config.colocated
       THEN policy' = OffloadedAfterRefit /\ engine' = engine \cup {"kv_cache"}
       ELSE UNCHANGED <<policy, engine>>
    /\ stale' = FALSE
    /\ UNCHANGED <<unmoved, purpose, teacher, version, loaded>>

\* The weights of the engine are current.
EngineIsCurrent == phase = "prepareGeneration" /\ ~(NeedRefit /\ stale)
WokenEngine == IF config.ownEngine THEN engine ELSE Awake

\* Variant: the trainer is not moved out of the way, as in distillation_train.
WakeEngineOnly ==
    /\ EngineIsCurrent /\ config.algorithm = "grpo" /\ Goto(Generating)
    /\ engine' = WokenEngine
    /\ UNCHANGED <<unmoved, purpose, policy, teacher, weights>>

\* A colocated trainer is moved out of the way first (the initial validation has
\* no such step, and never needs it: it always refits).
WakeEngine ==
    /\ EngineIsCurrent /\ config.algorithm = "grpo" /\ Goto(Generating)
    /\ policy' = IF config.colocated /\ purpose # "initial"
                 THEN OffloadedAfterRefit ELSE policy
    /\ engine' = WokenEngine
    /\ UNCHANGED <<unmoved, purpose, teacher, weights>>

\* distillation_train leaves the trainer where it is.
WakeStudentEngine ==
    /\ EngineIsCurrent /\ config.algorithm = "distillation" /\ Goto(Generating)
    /\ engine' = WokenEngine
    /\ UNCHANGED <<unmoved, purpose, policy, teacher, weights>>

\* A policy that generates by itself moves its model to the GPU first.
GeneratesWith == IF config.ownEngine THEN Placed("gpu", policy.optimizer) ELSE policy

RewardCounts ==
    IF config.dynamic THEN [1..PerBatch -> 0..NumGenerations]
    ELSE {[p \in 1..PerBatch |-> 0]}

\* The rollouts of the batch, and finish_generation.  Rewards matter to what
\* follows only with dynamic sampling.
Rollout ==
    /\ phase = "rollout"
    /\ Goto(IF config.algorithm = "grpo" THEN "select" ELSE "teacher")
    /\ genBatches' = genBatches + 1
    /\ \E ones \in RewardCounts : rows' = [i \in DOMAIN rows |->
           [rows[i] EXCEPT !.ones = ones[rows[i].prompt]]]
    /\ policy' = GeneratesWith /\ engine' = Asleep
    /\ UNCHANGED <<purpose, counters, cache, timedOut, trained, job, teacher, weights>>

-----------------------------------------------------------------------------
(* dynamic_sampling *)

\* keep_prompt_indices and select_indices: the samples whose std is not 0, in order.
KeptIndices == {i \in DOMAIN rows : NonZeroStd(rows[i])}
Nth(indices, n) ==
    CHOOSE i \in indices : Cardinality({k \in indices : k < i}) = n - 1
Kept == [n \in 1..Cardinality(KeptIndices) |-> rows[Nth(KeptIndices, n)]]
Pool == IF Kept = << >> THEN << >> ELSE cache \o Kept

\* Enough samples with a deviation, or no dynamic sampling: go on with this many.
Select ==
    /\ phase = "select"
    /\ config.dynamic => Len(Pool) >= TrainSize
    /\ Goto("logprobs")
    /\ IF config.dynamic
       THEN rows' = SubSeq(Pool, 1, TrainSize) /\ cache' = Pool
       ELSE UNCHANGED <<rows, cache>>
    /\ UNCHANGED <<purpose, counters, genBatches, timedOut, trained, job, placement, weights>>

\* Variant: the whole batch is kept, whatever its deviation.
SelectMoreUnfiltered ==
    /\ phase = "select" /\ config.dynamic /\ Len(Pool) < TrainSize
    /\ Goto(IF genBatches <= config.maxGenBatches THEN "batch" ELSE "raised")
    /\ cache' = cache \o rows
    /\ rows' = << >>
    /\ UNCHANGED <<purpose, counters, genBatches, timedOut, trained, job, placement, weights>>

\* Too few: keep them and take the next batch, or give up.
SelectMore ==
    /\ phase = "select" /\ config.dynamic /\ Len(Pool) < TrainSize
    /\ Goto(IF genBatches <= config.maxGenBatches THEN "batch" ELSE "raised")
    /\ cache' = IF Kept = << >> THEN cache ELSE Pool
    /\ rows' = << >>
    /\ UNCHANGED <<purpose, counters, genBatches, timedOut, trained, job, placement, weights>>

-----------------------------------------------------------------------------
(* Training. *)

ComputeLogprobs ==
    /\ phase = "logprobs" /\ Goto("prepareTraining")
    /\ policy' = PreparedForLogprobs
    /\ UNCHANGED <<unmoved, purpose, teacher, engine, weights>>

TeacherLogprobs ==
    /\ phase = "teacher" /\ Goto("prepareTraining")
    /\ teacher' = "gpu"
    /\ UNCHANGED <<unmoved, purpose, policy, engine, weights>>

\* Variant: the engine is not marked.
PrepareTrainingUnmarked ==
    /\ phase = "prepareTraining" /\ Goto("train")
    /\ policy' = PreparedForTraining /\ teacher' = "cpu"
    /\ UNCHANGED <<unmoved, purpose, engine, weights>>

PrepareTraining ==
    /\ phase = "prepareTraining" /\ Goto("train")
    /\ policy' = PreparedForTraining /\ teacher' = "cpu"
    /\ stale' = TRUE
    /\ UNCHANGED <<unmoved, purpose, engine, version, loaded>>

MustValidate ==
    \/ ValPeriod > 0 /\ (total + 1) % ValPeriod = 0
    \/ config.valAtEnd /\ IsLastStep

Train ==
    /\ phase = "train"
    /\ version' = version + 1
    /\ trained' = Append(trained, {rows[i].batch : i \in DOMAIN rows})
    /\ IF MustValidate
       THEN /\ Goto(IF Supervised THEN "validating" ELSE "prepareGeneration")
            /\ purpose' = "validation"
       ELSE Goto("checkpoint") /\ UNCHANGED purpose
    /\ UNCHANGED <<counters, sampling, timedOut, job, placement, stale, loaded>>

AfterValidation == IF purpose = "initial" THEN "epoch" ELSE "checkpoint"

\* validate() generates, and finish_generation.
Validate ==
    /\ phase = "validating" /\ ~Supervised /\ Goto(AfterValidation)
    /\ policy' = GeneratesWith /\ engine' = Asleep
    /\ UNCHANGED <<unmoved, purpose, teacher, weights>>

\* A forward pass of the policy, which is prepared for training again.
ValidateSupervised ==
    /\ phase = "validating" /\ Supervised /\ Goto(AfterValidation)
    /\ policy' = PreparedForTraining
    /\ UNCHANGED <<unmoved, purpose, teacher, engine, weights>>

\* timeout.check_save() decides, within the bound on launches.
DecideCheckpoint ==
    /\ phase = "checkpoint"
    /\ timedOut' \in (IF launches < MaxLaunches THEN BOOLEAN ELSE {FALSE})
    /\ IF timedOut' \/ IsLastStep \/ (total + 1) % SavePeriod = 0
       THEN /\ Goto("save")
            /\ policy' = IF Supervised THEN policy ELSE PreparedForTraining
       ELSE Goto("advance") /\ UNCHANGED policy
    /\ UNCHANGED <<purpose, counters, sampling, teacher, engine, weights, trained, job>>

\* Variant: the total is the one before this step.
CheckpointBeforeCounting(savedEpoch, savedStep) ==
    [step |-> savedStep, total |-> total, epoch |-> savedEpoch,
     position |-> position, version |-> version, trained |-> trained]

\* The checkpoint of a step: counters, dataloader and weights after it.
CheckpointWith(savedEpoch, savedStep) ==
    [step |-> savedStep, total |-> total + 1, epoch |-> savedEpoch,
     position |-> position, version |-> version, trained |-> trained]
saving == <<purpose, counters, sampling, timedOut, trained, placement, weights, config, launches>>

\* Variant: the epoch is advanced when its last batch is saved.
SaveNextEpoch ==
    /\ phase = "save" /\ ~Supervised /\ Goto("advance")
    /\ saved' = CheckpointWith(epoch + (step + 1) \div NumBatches, (step + 1) % NumBatches)
    /\ UNCHANGED saving

\* The step is counted, but the epoch is not over yet.
SaveCheckpoint ==
    /\ phase = "save" /\ ~Supervised /\ Goto("advance")
    /\ saved' = CheckpointWith(epoch, step + 1)
    /\ UNCHANGED saving

\* The supervised loops wrap the step and leave the epoch.
SaveSupervised ==
    /\ phase = "save" /\ Supervised /\ Goto("advance")
    /\ saved' = CheckpointWith(epoch, (step + 1) % NumBatches)
    /\ UNCHANGED saving

Advance ==
    /\ phase = "advance"
    /\ step' = step + 1 /\ total' = total + 1
    /\ rows' = << >> /\ cache' = << >> /\ genBatches' = 0
    /\ Goto(IF timedOut THEN "stopped" ELSE IF AtLimit(total') THEN "finished" ELSE "batch")
    /\ UNCHANGED <<purpose, epoch, position, timedOut, trained, job, placement, weights>>

-----------------------------------------------------------------------------
\* The driver or a worker dies, or an exception ends the job; the checkpoint stays.
Kill ==
    /\ phase \notin {"finished", "stopped", "raised", "down"} /\ launches < MaxLaunches
    /\ Goto("down")
    /\ UNCHANGED <<purpose, counters, sampling, placement, weights, timedOut, trained, job>>

Launch ==
    /\ phase \in {"down", "stopped"} /\ launches < MaxLaunches
    /\ LaunchFrom(saved)
    /\ launches' = launches + 1
    /\ UNCHANGED <<config, saved>>

Loop ==
    \/ Start \/ StartSupervised \/ BeginEpoch \/ TakeBatch \/ EndEpoch
    \/ BeginRefit \/ TransferWeights \/ EndRefit \/ WakeEngine \/ WakeStudentEngine
    \/ Rollout \/ Select \/ SelectMore
    \/ ComputeLogprobs \/ TeacherLogprobs \/ PrepareTraining \/ Train 
    \/ Validate \/ ValidateSupervised
    \/ DecideCheckpoint \/ SaveCheckpoint \/ SaveSupervised \/ Advance

Next == Loop \/ Kill \/ Launch

Spec == Init /\ [][Next]_vars

\* The driver runs on, and a job that is down is launched again.
FairSpec == Spec /\ WF_vars(Loop) /\ WF_vars(Launch)
-----------------------------------------------------------------------------
Phase == {"start", "epoch", "batch", "prepareGeneration", "transfer", "refitted",
          "rollout", "select", "teacher", "logprobs", "prepareTraining", "train",
          "validating", "checkpoint", "save", "advance",
          "down", "stopped", "finished", "raised"}
Device == {"cpu", "gpu"}

\* A batch of the dataloader is known by its epoch and its place in it.
Batch == (0..MaxEpochs) \X (0..NumBatches)
Sample == [batch : Batch, prompt : 1..PerBatch, sample : 1..NumGenerations,
           ones : 0..NumGenerations]
Checkpoint == [step : 0..NumBatches, total : Nat, epoch : 0..MaxEpochs,
               position : 0..NumBatches, version : Nat, trained : Seq(SUBSET Batch)]

TypeOK ==
    /\ config \in {c \in Switches : Valid(c)}
    /\ phase \in Phase /\ purpose \in {"initial", "rollout", "validation"}
    /\ epoch \in 0..MaxEpochs /\ step \in 0..NumBatches /\ total \in Nat
    /\ position \in 0..NumBatches
    /\ rows \in Seq(Sample) /\ cache \in Seq(Sample)
    /\ genBatches \in Nat /\ stale \in BOOLEAN /\ timedOut \in BOOLEAN
    /\ policy \in [model : Device, optimizer : Device] /\ teacher \in Device
    /\ engine \subseteq Awake
    /\ version \in Nat /\ loaded \in 0..version
    /\ saved \in Checkpoint /\ trained \in Seq(SUBSET Batch)
    /\ launches \in 0..MaxLaunches

UsesEngine == ~Supervised /\ NeedRefit /\ phase \in {"rollout", "validating"}

\* Nothing is generated, for training or for validation, with weights that are
\* older than the policy's: POLICY_GENERATION_STALE is set by every update and
\* cleared by every refit, on all paths through validation, saving, dynamic
\* sampling and a relaunch.
FreshWeights == UsesEngine => loaded = version

\* A trainer and an engine that share their GPUs are never both on them in
\* grpo_train: the engine's weights come only when the optimizer is away, its
\* cache only when the model is away too ("unload optimizer to make space for
\* generation").
OneResident ==
    config.colocated /\ config.algorithm = "grpo" =>
        /\ "weights" \in engine => policy.optimizer = "cpu"
        /\ "kv_cache" \in engine => policy.model = "cpu"

\* Whatever was moved before is back when it is used: the policy trains with
\* model and optimizer state on the GPU, the teacher and a colocated engine away
\* from it; the engine generates with weights and cache awake.
PlacedForUse ==
    /\ phase = "train" =>
           policy = Placed("gpu", "gpu") /\ teacher = "cpu" /\ engine = Asleep
    /\ UsesEngine => engine = Awake

\* How many steps a training takes that samples nothing dynamically.
AllSteps == IF config.unlimited \/ MaxSteps > NumBatches * MaxEpochs
            THEN NumBatches * MaxEpochs ELSE MaxSteps

\* However often the job is killed or stops by timeout, and wherever, its steps
\* train on the dataloader's batches one after the other, none twice and none
\* left out up to the end (with dynamic sampling: none twice); the epoch that is
\* saved before it is over and the step that wraps or not agree with the dataloader.
EveryBatchOnce ==
    IF config.dynamic
    THEN \A i, j \in DOMAIN trained : i # j => trained[i] \cap trained[j] = {}
    ELSE /\ phase \in {"batch", "finished"} => trained =
                [i \in 1..total |-> {<<(i - 1) \div NumBatches, (i - 1) % NumBatches>>}]
         /\ phase = "finished" => total = AllSteps

\* The samples a step of dynamic sampling trains on are whole groups of a prompt:
\* "Filter out prompts where all generations have the same reward (std=0)"
\* (examples/configs/prorlv2.yaml).
WholeGroups ==
    config.dynamic /\ phase = "train" =>
        LET chosen == {rows[i] : i \in DOMAIN rows}
        IN  \A row \in chosen, sample \in 1..NumGenerations :
                [row EXCEPT !.sample = sample] \in chosen

\* With the baseline of the whole group, a step of dynamic sampling trains on
\* exactly num_prompts_per_step groups, whole and different ones, and each of
\* them has two rewards: neither the cache, nor the slice, nor an epoch that ends
\* with a partial cache leaves a step short or lets a group in twice.
FullSteps ==
    config.dynamic /\ ~config.leaveOneOut /\ phase = "train" =>
        /\ Len(rows) = TrainSize /\ IsInjective(rows)
        /\ WholeGroups
        /\ \A i \in DOMAIN rows : Varies(rows[i].ones, NumGenerations)

\* One step generates at most one batch more than dynamic_sampling_max_gen_batches
\* (the bound is compared with <=), on all paths that go on to the next batch.
GenBatchBound == config.dynamic => genBatches <= config.maxGenBatches + 1

\* Dynamic sampling ends in time, and with whole steps.
SoundSampling == FullSteps /\ GenBatchBound

\* A training that ends by itself has saved its last step, so nothing that was
\* trained is lost (not with dynamic sampling: IsLastStep counts one batch a step).
EndIsSaved == phase = "finished" /\ ~config.dynamic => saved.total = total

\* The loops use their checkpoints as DurableTraining says: whatever the epoch, the
\* branch that saves, the timeout or the kill, a launch goes on from the step that
\* was saved last and no step is saved under another number than its own.
Durable == INSTANCE DurableTraining WITH done <- total, durable <- saved.total
ImplementsDurableTraining == Durable!Spec

\* Training ends, however the job is killed: by its limits, or because dynamic
\* sampling gives up.
TrainingEnds == <>(phase \in {"finished", "raised"})
=============================================================================
