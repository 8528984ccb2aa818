------------------------- MODULE AsyncGRPOProperties -------------------------
(***************************************************************************)
(* What asynchronous GRPO promises, and what its comments and guide say of *)
(* it.  A history is undisturbed when no rollout, dataloader pass or       *)
(* trainer step raised and no target was reserved twice.                   *)
(***************************************************************************)
EXTENDS AsyncGRPO

Undisturbed == failures = 0 /\ \A t \in Target : reservations[t] <= 1

\* Rollouts that are not yet in the buffer.
Unpushed == {w \in workers : w.pc \in {"created", "rollout"}}
Generating == {w \in workers : w.pc = "rollout"}

\* The prompts of target t that the loop still has to create workers for.
ToSpawn(t) ==
    IF loop.target # t
    THEN 0
    ELSE IF loop.pc \in {"nextPrompt", "promptRefitPause", "rereadVersion", "acquire"}
         THEN NumPrompts - loop.prompt
         ELSE IF loop.pc = "start" THEN NumPrompts - loop.prompt - 1 ELSE 0

\* The trainer has taken the batch for step t.
Consumed(t) ==
    \/ t < weightVersion
    \/ t = weightVersion /\ phase \in {"train", "prepareRefit", "refit"}

Buffered(t) == {g \in trajectories : g.target = t}

\* Every permit of _inflight_sema is either free or held by exactly one worker
\* that is not over (AcquireAndTrack, DetachAndRelease): no path of the worker's
\* finally block leaks or doubles a permit, so the parallelism of generation
\* stays num_prompts_per_step * max_trajectory_age_steps.
PermitsConserved == Cardinality(workers) + sema = MaxInflight

\* Groups are neither lost nor duplicated on their way: while nothing failed,
\* each reservation of a target accounts for exactly num_prompts_per_step
\* groups, each still to be spawned, being generated, or accepted by the buffer.
GroupsAccounted ==
    failures = 0 =>
        \A t \in Target :
            pushes[t] + ToSpawn(t) + Cardinality({w \in Unpushed : w.target = t})
                = NumPrompts * reservations[t]

\* Every group the buffer accepted is still there, or was part of the one batch
\* its target step trained on: sample takes exactly num_prompts_per_step groups
\* of the current step and never touches another, whatever failed (a trainer that
\* raised is over: the groups it was training on are gone).
BufferAccounted ==
    Alive => \A t \in Target :
        Cardinality(Buffered(t)) + (IF Consumed(t) THEN NumPrompts ELSE 0) = pushes[t]

\* In an undisturbed history a training step trains on every prompt of one
\* dataloader batch, once.
BatchIsOnePerPrompt ==
    Undisturbed /\ phase = "train" =>
        /\ {g.prompt : g \in batch} = Prompt
        /\ Cardinality(batch) = NumPrompts

\* In an undisturbed history no group is ever older than the age window of the
\* step it is aimed at, nor newer than it, nor left behind by the trainer: the
\* bookkeeping of targets alone keeps the check in sample from raising.
WithinAgeWindow ==
    Undisturbed =>
        /\ \A w \in Unpushed : w.version \in (w.target - MaxAge)..w.target
        /\ \A g \in trajectories :
              /\ g.version \in (g.target - MaxAge)..g.target
              /\ g.target >= weightVersion
        /\ phase # "failed"

\* In an undisturbed history the buffer has room for every group that exists or
\* is still to be made for a reserved target whose batch was not taken yet, so
\* push never answers "full" to a worker.
NeverFull ==
    Undisturbed =>
        /\ NumPrompts * Cardinality({t \in Target : reservations[t] > 0 /\ ~Consumed(t)})
              <= MaxSize
        /\ Generating # {} => ~Full

\* The collector never labels a rollout with weights the trainer has not
\* published, and during a refit it already knows the last published version.
LabelsPublished ==
    /\ \A w \in workers : w.version <= weightVersion
    /\ current <= weightVersion /\ weightVersion <= current + 1
    /\ phase = "refit" => current = weightVersion

\* Without in-flight updates prepare_for_refit waits until no tracked rollout is
\* left.  The loop may have passed its check of the pause before that, so one
\* more rollout, but no second one, can start while the weights are replaced.
OneStraggler ==
    ~InFlightUpdates /\ phase = "refit" => Cardinality({w \in workers : w.tracked}) <= 1

\* The abstract promise, seen through the trainer's variables and the buffer.
AT == INSTANCE AsyncTraining WITH
          published <- weightVersion,
          pool <- trajectories,
          made <- pushes,
          busy <- phase \in {"train", "prepareRefit", "refit"},
          stopped <- ~Alive

\* Whatever fails and however the threads interleave, every training step takes
\* exactly num_prompts_per_step groups made for it with weights of its age
\* window, and no group is trained on twice (the detailed specification
\* implements AsyncTraining).
ImplementsAsyncTraining == AT!Spec

\* Once a target is reserved the trainer gets its batch: in an undisturbed
\* history a trainer that waits at a reserved step samples it.
ReservedStepsTrain ==
    (phase = "sample" /\ reservations[weightVersion] > 0)
        ~> (phase # "sample" \/ ~Undisturbed)

\* prepare_for_refit returns, even though it waits for workers that may have to
\* wait for room in the buffer while nobody samples.
PrepareReturns == phase = "prepareRefit" ~> (phase = "refit" \/ ~Undisturbed)

-----------------------------------------------------------------------------
(* Claims of comments, docstrings and the guide. *)

\* AsyncTrajectoryCollector: "Event to signal when generation limits are cleared"
\* -- so the loop does not sleep on it while a target may be generated and the
\* collector has handled every call (the clear() in the loop can undo a set()).
SleepsOnlyAtLimit ==
    ~(/\ loop.pc = "limitPause" /\ ~limitCleared /\ mailbox = << >>
      /\ NeedGeneration(current, lastTarget) # {})

\* ReplayBuffer.sample: "returns None to stall training until the remaining
\* trajectories are generated" -- so a stalled trainer is served.
StallEnds == phase = "sample" ~> phase # "sample"

\* prepare_for_refit: "waits for all pending generations to complete before refit".
QuietRefit == phase = "refit" => Generating = {}
=============================================================================
