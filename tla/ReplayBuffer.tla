---------------------------- MODULE ReplayBuffer ----------------------------
(***************************************************************************)
(* The ReplayBuffer actor of nemo_rl/algorithms/async_utils.py.  It keeps  *)
(* one entry per prompt group; the collector's worker threads push groups, *)
(* the trainer samples them.  Every method runs under the actor's lock, so *)
(* every method is one atomic step.                                        *)
(*                                                                         *)
(* The three parallel lists of the class (trajectories, their generation   *)
(* versions, their target versions) are one set of records.  The order of  *)
(* the lists is observable only among groups with the same target (sample  *)
(* filters by target before it takes a prefix), so an entry carries its    *)
(* arrival number among the groups pushed for its target.                  *)
(***************************************************************************)
EXTENDS Integers, FiniteSets

CONSTANTS
    NumPrompts,    \* grpo.num_prompts_per_step
    MaxAge,        \* grpo.async_grpo.max_trajectory_age_steps
    StartStep,     \* grpo_save_state["current_step"] when training (re)starts
    MaxNumSteps    \* grpo.max_num_steps

ASSUME NumPromptsAssumption == NumPrompts \in Nat \ {0}
ASSUME MaxAgeAssumption == MaxAge \in Nat \ {0}
ASSUME StepsAssumption ==
    StartStep \in Nat /\ MaxNumSteps \in Nat /\ StartStep < MaxNumSteps

\* Weight versions are numbers of training steps; a group can be aimed at most
\* MaxAge steps past the last version.
Version == StartStep..MaxNumSteps
Target == StartStep..(MaxNumSteps + MaxAge)
Prompt == 0..(NumPrompts - 1)

\* A buffered prompt group: for which training step it was made (target), how
\* many groups for that step came before it (arrival), which weights made it
\* (version) and which prompt of its batch it answers (prompt).
Group == [target : Target, arrival : Nat, version : Version, prompt : Prompt]

\* Variant: a buffer sized without the slack.
MaxSizeNoSlack == NumPrompts * MaxAge

\* late_arrival_slack = 2 in async_grpo_train
MaxSize == NumPrompts * MaxAge * 2

VARIABLES
    trajectories,   \* the groups in the buffer
    lastTarget,     \* last_target_weight_already_generated
    pushes          \* history: how many groups were ever accepted per target

bufferVars == <<trajectories, lastTarget, pushes>>

BufferInit ==
    /\ trajectories = {}
    /\ lastTarget = -1
    /\ pushes = [t \in Target |-> 0]

Full == Cardinality(trajectories) >= MaxSize

\* push_with_wait_signal that answers "success"; when the buffer is Full it
\* answers "full" and changes nothing.
Push(version, target, prompt) ==
    /\ ~Full
    /\ trajectories' = trajectories \cup
           {[target |-> target, arrival |-> pushes[target],
             version |-> version, prompt |-> prompt]}
    /\ lastTarget' = IF target > lastTarget THEN target ELSE lastTarget
    /\ pushes' = [pushes EXCEPT ![target] = @ + 1]

MinValidVersion(current) == IF current > MaxAge THEN current - MaxAge ELSE 0

\* sample raises ValueError
TooOld(current) ==
    \E g \in trajectories : g.version < MinValidVersion(current)

Valid(current) ==
    {g \in trajectories : g.version \in MinValidVersion(current)..current}

\* Variant: sample forgets what step a group was made for.
IntendedAnyTarget(current) == Valid(current)

Intended(current) == {g \in Valid(current) : g.target = current}

\* Variant: sample takes every intended group.
SelectedAll(current) == Intended(current)

\* The first NumPrompts intended groups, in arrival order.
Selected(current) ==
    {g \in Intended(current) :
        Cardinality({h \in Intended(current) : h.arrival < g.arrival}) < NumPrompts}

Sampleable(current) ==
    /\ ~TooOld(current)
    /\ Cardinality(Valid(current)) >= NumPrompts
    /\ Cardinality(Intended(current)) >= NumPrompts

\* sample that returns NumPrompts groups and removes them.
Sample(current) ==
    /\ Sampleable(current)
    /\ trajectories' = trajectories \ Selected(current)
    /\ UNCHANGED <<lastTarget, pushes>>

BufferTypeOK ==
    /\ trajectories \subseteq Group
    /\ IsFiniteSet(trajectories)
    /\ lastTarget \in Target \cup {-1}
    /\ pushes \in [Target -> Nat]
=============================================================================
