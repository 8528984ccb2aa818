------------------------------ MODULE AsyncGRPO ------------------------------
(***************************************************************************)
(* async_grpo_train of nemo_rl/algorithms/grpo.py: the trainer, composed   *)
(* with the trajectory collector and the replay buffer.  The trainer calls *)
(* the collector with .remote() (the call is appended to the collector's   *)
(* mailbox) and only sometimes waits for the answer with ray.get().        *)
(* Calls from one caller to one actor are answered in order, so a call the *)
(* trainer waits for has returned exactly when the mailbox is empty.       *)
(***************************************************************************)
EXTENDS TrajectoryCollector

CONSTANTS
    ValPeriod,    \* grpo.val_period (0: never)
    ValAtStart,   \* grpo.val_at_start
    ValAtEnd,     \* grpo.val_at_end
    SavePeriod,   \* checkpointing.save_period, 0 for checkpointing.enabled = false
    MayTimeOut    \* checkpointing.checkpoint_must_save_by may be reached

ASSUME PeriodsAssumption == ValPeriod \in Nat /\ SavePeriod \in Nat
ASSUME SwitchesAssumption ==
    ValAtStart \in BOOLEAN /\ ValAtEnd \in BOOLEAN /\ MayTimeOut \in BOOLEAN

VARIABLES
    phase,          \* where async_grpo_train is
    step,           \* step
    weightVersion,  \* weight_version
    batch,          \* the groups of the step being trained
    timedOut        \* should_save_by_timeout of this step

trainerVars == <<phase, step, weightVersion, batch, timedOut>>
vars == <<bufferVars, collectorVars, trainerVars>>

Phase == {"start", "initialRefit", "initialValidation", "fillBuffer", "sample",
          "train", "prepareRefit", "refit", "validate", "validating", "checkpoint",
          "quiesce", "saving", "advance", "failed", "raised", "done"}

\* The actors are killed when async_grpo_train is over.
Alive == phase \notin {"failed", "raised", "done"}

CallOf(method, version) == [method |-> method, version |-> version]
Send(calls) == mailbox' = mailbox \o calls
SendPlain(method) == Send(<<CallOf(method, StartStep)>>)
Answered == mailbox = << >>

Init ==
    /\ BufferInit /\ CollectorInit
    /\ phase = "start" /\ step = StartStep /\ weightVersion = StartStep
    /\ batch = {} /\ timedOut = FALSE

\* What a trainer step that is only a call leaves alone.
actorsUnchanged == <<bufferVars, current, pauseVars, lastLimitWarning, generating,
                     sema, workers, loop, mainPc, reservations, failures>>

\* The collector starts before the engine has its first weights.
StartUp ==
    /\ phase = "start" /\ phase' = "initialRefit"
    /\ Send(<<CallOf("start_collection", StartStep),
              CallOf("set_weight_version", weightVersion)>>)
    /\ UNCHANGED <<actorsUnchanged, step, weightVersion, batch, timedOut>>

InitialRefit ==
    /\ phase = "initialRefit"
    /\ IF ValAtStart /\ step = 0
       THEN phase' = "initialValidation" /\ SendPlain("pause")
       ELSE phase' = "fillBuffer" /\ UNCHANGED mailbox
    /\ UNCHANGED <<actorsUnchanged, step, weightVersion, batch, timedOut>>

InitialValidation ==
    /\ phase = "initialValidation" /\ phase' = "fillBuffer"
    /\ SendPlain("resume")
    /\ UNCHANGED <<actorsUnchanged, step, weightVersion, batch, timedOut>>

\* Training begins once the buffer holds a step's worth of groups of any kind.
FillBuffer ==
    /\ phase = "fillBuffer" /\ phase' = "sample"
    /\ Cardinality(trajectories) >= NumPrompts
    /\ UNCHANGED <<actorsUnchanged, mailbox, step, weightVersion, batch, timedOut>>

\* The buffer is not filled yet: sleep and look again.
BufferNotFilled ==
    /\ phase = "fillBuffer" /\ Cardinality(trajectories) < NumPrompts
    /\ UNCHANGED vars

SampleBatch ==
    /\ phase = "sample" /\ phase' = "train"
    /\ Sample(weightVersion)
    /\ batch' = Selected(weightVersion)
    /\ UNCHANGED <<collectorVars, step, weightVersion, timedOut>>

\* sample answers None: sleep and ask again.
SampleNone ==
    /\ phase = "sample"
    /\ ~TooOld(weightVersion) /\ ~Sampleable(weightVersion)
    /\ UNCHANGED vars

\* The ValueError of sample ends the training loop.
SampleRaises ==
    /\ phase = "sample" /\ phase' = "failed"
    /\ TooOld(weightVersion)
    /\ UNCHANGED <<bufferVars, collectorVars, step, weightVersion, batch, timedOut>>

\* Variant: the version is announced before the engine has the weights.
TrainAnnouncesEarly ==
    /\ phase = "train" /\ phase' = "prepareRefit"
    /\ Send(<<CallOf("set_weight_version", weightVersion + 1),
              CallOf("prepare_for_refit", StartStep)>>)
    /\ batch' = {}
    /\ UNCHANGED <<actorsUnchanged, step, weightVersion, timedOut>>

\* policy.train, then ray.get(prepare_for_refit.remote())
Train ==
    /\ phase = "train" /\ phase' = "prepareRefit"
    /\ SendPlain("prepare_for_refit")
    /\ batch' = {}
    /\ UNCHANGED <<actorsUnchanged, step, weightVersion, timedOut>>

RefitPrepared ==
    /\ phase = "prepareRefit" /\ phase' = "refit"
    /\ Answered
    /\ UNCHANGED <<actorsUnchanged, mailbox, step, weightVersion, batch, timedOut>>

\* The refit is over; neither of the two calls is waited for.
Refit ==
    /\ phase = "refit" /\ phase' = "validate"
    /\ weightVersion' = weightVersion + 1
    /\ Send(<<CallOf("set_weight_version", weightVersion + 1),
              CallOf("resume_after_refit", StartStep)>>)
    /\ UNCHANGED <<actorsUnchanged, step, batch, timedOut>>

IsLastStep == step + 1 = MaxNumSteps

MustValidate ==
    \/ ValPeriod > 0 /\ (step + 1) % ValPeriod = 0
    \/ ValAtEnd /\ IsLastStep

\* Validation pauses collection without waiting for the pause to take effect.
BeginValidation ==
    /\ phase = "validate"
    /\ IF MustValidate
       THEN phase' = "validating" /\ SendPlain("pause")
       ELSE phase' = "checkpoint" /\ UNCHANGED mailbox
    /\ UNCHANGED <<actorsUnchanged, step, weightVersion, batch, timedOut>>

EndValidation ==
    /\ phase = "validating" /\ phase' = "checkpoint"
    /\ SendPlain("resume")
    /\ UNCHANGED <<actorsUnchanged, step, weightVersion, batch, timedOut>>

\* timeout.check_save() decides, then pause and wait for the pending rollouts.
BeginCheckpoint ==
    /\ phase = "checkpoint"
    /\ timedOut' \in (IF MayTimeOut THEN BOOLEAN ELSE {FALSE})
    /\ IF SavePeriod > 0 /\ (IsLastStep \/ (step + 1) % SavePeriod = 0 \/ timedOut')
       THEN /\ phase' = "quiesce"
            /\ Send(<<CallOf("pause", StartStep),
                      CallOf("wait_for_pending_generations", StartStep)>>)
       ELSE phase' = "advance" /\ UNCHANGED mailbox
    /\ UNCHANGED <<actorsUnchanged, step, weightVersion, batch>>

Quiesced ==
    /\ phase = "quiesce" /\ phase' = "saving"
    /\ Answered
    /\ UNCHANGED <<actorsUnchanged, mailbox, step, weightVersion, batch, timedOut>>

EndCheckpoint ==
    /\ phase = "saving" /\ phase' = "advance"
    /\ SendPlain("resume")
    /\ UNCHANGED <<actorsUnchanged, step, weightVersion, batch, timedOut>>

Advance ==
    /\ phase = "advance"
    /\ step' = step + 1
    /\ phase' = IF timedOut \/ step' >= MaxNumSteps THEN "done" ELSE "sample"
    /\ timedOut' = FALSE
    /\ UNCHANGED <<actorsUnchanged, mailbox, weightVersion, batch>>

\* Replacing the weights, training, validating, saving or logging raises: the
\* first refit makes async_grpo_train return, a later one is caught and ends the
\* loop.
TrainerRaises ==
    /\ phase \in {"initialRefit", "train", "refit", "validating", "saving", "advance"}
    /\ failures < MaxFailures
    /\ phase' = "raised"
    /\ failures' = failures + 1
    /\ UNCHANGED <<bufferVars, mainVars, pauseVars, lastLimitWarning, generating, sema,
                   workers, loop, reservations, step, weightVersion, batch, timedOut>>

Trainer ==
    \/ StartUp \/ InitialRefit \/ InitialValidation \/ FillBuffer \/ BufferNotFilled
    \/ SampleBatch \/ SampleNone \/ SampleRaises \/ Train \/ RefitPrepared \/ Refit
    \/ BeginValidation \/ EndValidation \/ BeginCheckpoint \/ Quiesced
    \/ EndCheckpoint \/ Advance

Collector == Alive /\ CollectorNext /\ UNCHANGED trainerVars

Terminated == ~Alive /\ UNCHANGED vars

Next == Trainer \/ TrainerRaises \/ Collector \/ Terminated

Spec == Init /\ [][Next]_vars

\* Every thread that can run does run; rollouts end.
FairSpec ==
    /\ Spec
    /\ WF_vars(Trainer)
    /\ WF_vars(Alive /\ MainThread /\ UNCHANGED trainerVars)
    /\ WF_vars(Alive /\ CollectionLoop /\ UNCHANGED trainerVars)
    /\ \A target \in Target, prompt \in Prompt :
          WF_vars(Alive /\ Worker(target, prompt) /\ UNCHANGED trainerVars)

TypeOK ==
    /\ BufferTypeOK /\ CollectorTypeOK
    /\ phase \in Phase
    /\ step \in StartStep..MaxNumSteps
    /\ weightVersion \in Version
    /\ batch \subseteq Group
    /\ timedOut \in BOOLEAN
=============================================================================
