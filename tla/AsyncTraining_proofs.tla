------------------------ MODULE AsyncTraining_proofs ------------------------
(***************************************************************************)
(* Asynchronous GRPO implements AsyncTraining: the trainer's variables and *)
(* the buffer behave like the abstract pool of groups.  The two steps that *)
(* need an argument are a push, whose label must be a published version    *)
(* (VersionInv), and a sample, which must take exactly NumPrompts groups   *)
(* (SelectedIsABatch, which needs the arrivals of a target to differ).     *)
(*                                                                         *)
(* The second half is about histories in which nothing failed and no       *)
(* target was reserved twice: no group leaves its age window, a step       *)
(* trains on every prompt of a batch once, and the buffer has room.  All   *)
(* three rest on the counts: a target whose batch was taken has no group   *)
(* left to spawn, to generate or to sample.                                *)
(***************************************************************************)
EXTENDS AsyncGRPO_proofs

TrainingPhase == {"train", "prepareRefit", "refit"}

\* What a push does to the buffer.
LEMMA PushAdds ==
    ASSUME TypeInv, ArrivalsDistinct, NEW w \in workers, PushGroup(w)
    PROVE  \E g \in Group :
              /\ g = [target |-> w.target, arrival |-> pushes[w.target],
                      version |-> w.version, prompt |-> w.prompt]
              /\ g \notin trajectories
              /\ trajectories' = trajectories \cup {g}
              /\ pushes' = [pushes EXCEPT ![w.target] = @ + 1]
              /\ w.target \in Target /\ pushes[w.target] \in Nat
<1> DEFINE g == [target |-> w.target, arrival |-> pushes[w.target],
                 version |-> w.version, prompt |-> w.prompt]
<1>1. w.target \in Target /\ w.version \in Version /\ w.prompt \in Prompt
  BY DEF TypeInv, TypeOK, CollectorTypeOK, WorkerRecord
<1>2. pushes[w.target] \in Nat
  BY <1>1 DEF TypeInv, TypeOK, BufferTypeOK
<1>3. g \in Group
  BY <1>1, <1>2 DEF Group
<1>4. g \notin trajectories
  BY <1>2 DEF ArrivalsDistinct
<1>5. /\ trajectories' = trajectories \cup {g}
      /\ pushes' = [pushes EXCEPT ![w.target] = @ + 1]
  BY DEF PushGroup, Push
<1> QED BY <1>1, <1>2, <1>3, <1>4, <1>5

\* What the collector leaves alone when it does not push.
LEMMA OnlyPushesPush ==
    ASSUME Collector
    PROVE  /\ UNCHANGED <<phase, weightVersion>>
           /\ \/ UNCHANGED <<trajectories, pushes>>
              \/ \E w \in workers : PushGroup(w)
<1>1. UNCHANGED <<phase, weightVersion>>
  BY DEF Collector, trainerVars
<1>2. ASSUME MainThread PROVE UNCHANGED <<trajectories, pushes>>
  BY <1>2
  DEF MainThread, StartCollection, SetWeightVersion, WakeLoop, Pause, Resume,
      PrepareForRefit, ResumeAfterRefit, WaitForPendingGenerations, PollPending, bufferVars
<1>3. ASSUME CollectionLoop \/ DataloaderFails PROVE UNCHANGED <<trajectories, pushes>>
  BY <1>3
  DEF CollectionLoop, DataloaderFails, AwaitManualPause, AwaitRefitPause, ReadVersion,
      ReadLast, CheckLimit, WarnOncePerVersion, NoteWarning, ClearLimitEvent, AwaitLimitCleared,
      BeginBatch, ReadLastForTarget, ReserveTarget, DropBatch, NextPrompt,
      AwaitPromptRefitPause, RereadVersion, AcquireAndTrack, StartThread, EndBatch,
      loopUnchanged, bufferVars
<1>4. ASSUME NEW w \in workers, WorkerSteps(w) \/ RolloutFails(w)
      PROVE  UNCHANGED <<trajectories, pushes>> \/ PushGroup(w)
  BY <1>4
  DEF WorkerSteps, RolloutFails, PushFull, PushAbandoned, ReleaseFirst,
      EmergencyCleanup, DetachAndRelease, bufferVars
<1> QED BY <1>1, <1>2, <1>3, <1>4 DEF Collector, CollectorNext

\* What the trainer leaves alone when it does not sample.
LEMMA OnlySamplesSample ==
    ASSUME Trainer
    PROVE  UNCHANGED <<trajectories, pushes>> \/ SampleBatch
BY DEF Trainer, StartUp, InitialRefit, InitialValidation, FillBuffer, BufferNotFilled,
       SampleNone, SampleRaises, Train, RefitPrepared, Refit, BeginValidation,
       EndValidation, BeginCheckpoint, Quiesced, EndCheckpoint, Advance, actorsUnchanged,
       bufferVars, vars

\* The trainer's steps by what they do to the batch of its step.
LEMMA TrainerPhases ==
    ASSUME Trainer
    PROVE  \/ SampleBatch
           \/ /\ phase = "refit" /\ phase' = "validate"
              /\ weightVersion' = weightVersion + 1
           \/ /\ UNCHANGED weightVersion
              /\ phase' \in TrainingPhase <=> phase \in TrainingPhase
BY DEF Trainer, StartUp, InitialRefit, InitialValidation, FillBuffer, BufferNotFilled,
       SampleNone, SampleRaises, Train, RefitPrepared, Refit, BeginValidation,
       EndValidation, BeginCheckpoint, Quiesced, EndCheckpoint, Advance, TrainingPhase,
       vars, trainerVars

\* No actor is left once the trainer is over.
LEMMA OnlyTheLivingMove ==
    ASSUME Trainer \/ TrainerRaises \/ Collector
    PROVE  Alive
BY DEF Trainer, StartUp, InitialRefit, InitialValidation, FillBuffer, BufferNotFilled,
       SampleBatch, SampleNone, SampleRaises, Train, RefitPrepared, Refit, BeginValidation,
       EndValidation, BeginCheckpoint, Quiesced, EndCheckpoint, Advance, TrainerRaises,
       Collector, Alive

\* Arrivals stay distinct: push numbers the groups of a target one by one.
LEMMA ArrivalsInvariant == Spec => []ArrivalsDistinct
<1>1. Init => ArrivalsDistinct
  BY DEF Init, BufferInit, ArrivalsDistinct
<1>2. TypeInv /\ ArrivalsDistinct /\ [Next]_vars => ArrivalsDistinct'
  <2> SUFFICES ASSUME TypeInv, ArrivalsDistinct, [Next]_vars PROVE ArrivalsDistinct'
    OBVIOUS
  <2>1. CASE UNCHANGED <<trajectories, pushes>>
    BY <2>1 DEF ArrivalsDistinct
  <2>2. CASE SampleBatch
    BY <2>2 DEF SampleBatch, Sample, ArrivalsDistinct
  <2>3. ASSUME NEW w \in workers, PushGroup(w) PROVE ArrivalsDistinct'
    <3>1. PICK g \in Group :
             /\ g = [target |-> w.target, arrival |-> pushes[w.target],
                     version |-> w.version, prompt |-> w.prompt]
             /\ trajectories' = trajectories \cup {g}
             /\ pushes' = [pushes EXCEPT ![w.target] = @ + 1]
             /\ w.target \in Target /\ pushes[w.target] \in Nat
      BY <2>3, PushAdds
    <3>2. g.target = w.target /\ g.arrival = pushes[w.target]
      BY <3>1
    <3>3. pushes \in [Target -> Nat] /\ \A h \in trajectories : h.target \in Target /\ h.arrival \in Nat
      BY DEF TypeInv, TypeOK, BufferTypeOK, Group
    <3>4. \A h \in trajectories' : h.arrival < pushes'[h.target]
      BY <3>1, <3>2, <3>3 DEF ArrivalsDistinct
    <3>5. \A h, k \in trajectories' : h.target = k.target /\ h.arrival = k.arrival => h = k
      <4>1. \A h \in trajectories : h.target = w.target => h.arrival < pushes[w.target]
        BY DEF ArrivalsDistinct
      <4>2. \A h \in trajectories : h.target = g.target => h.arrival # g.arrival
        BY <3>1, <3>2, <3>3, <4>1
      <4> QED BY <3>1, <4>2 DEF ArrivalsDistinct
    <3> QED BY <3>4, <3>5 DEF ArrivalsDistinct
  <2> QED BY <2>1, <2>2, <2>3, OnlyPushesPush, OnlySamplesSample
      DEF Next, Terminated, TrainerRaises, vars, bufferVars
<1> QED BY <1>1, <1>2, TypeInvariant, PTL DEF Spec

\* A sample takes a batch out of the buffer and nothing else.
LEMMA SampleTakes ==
    ASSUME TypeInv, ArrivalsDistinct, SampleBatch
    PROVE  /\ trajectories' = trajectories \ Selected(weightVersion)
           /\ UNCHANGED <<pushes, weightVersion>> /\ phase = "sample" /\ phase' = "train"
           /\ Selected(weightVersion) \subseteq Buffered(weightVersion)
           /\ IsFiniteSet(Selected(weightVersion))
           /\ Cardinality(Selected(weightVersion)) = NumPrompts
           /\ \A g \in Selected(weightVersion) :
                 /\ g \in trajectories /\ g.target = weightVersion
                 /\ weightVersion - MaxAge <= g.version /\ g.version <= weightVersion
<1>1. BufferTypeOK /\ weightVersion \in Version /\ Sampleable(weightVersion)
  BY DEF TypeInv, TypeOK, SampleBatch, Sample
<1>2. /\ IsFiniteSet(Selected(weightVersion))
      /\ Cardinality(Selected(weightVersion)) = NumPrompts
      /\ \A g \in Selected(weightVersion) :
            /\ g \in trajectories /\ g.target = weightVersion
            /\ weightVersion - MaxAge <= g.version /\ g.version <= weightVersion
  BY <1>1, SelectedIsABatch
<1>3. /\ trajectories' = trajectories \ Selected(weightVersion)
      /\ UNCHANGED <<pushes, weightVersion>> /\ phase = "sample" /\ phase' = "train"
  BY DEF SampleBatch, Sample
<1> QED BY <1>2, <1>3 DEF Buffered

\* Initially nothing is buffered, taken or pushed.
LEMMA InitAccounted == Init => BufferAccounted
<1> SUFFICES ASSUME Init, NEW t \in Target
             PROVE  Cardinality(Buffered(t)) + (IF Consumed(t) THEN NumPrompts ELSE 0)
                       = pushes[t]
  BY DEF BufferAccounted
<1>1. Buffered(t) = {} /\ pushes[t] = 0
  BY DEF Init, BufferInit, Buffered
<1>2. ~Consumed(t)
  BY StepsAssumption DEF Init, Consumed, Target
<1> QED BY <1>1, <1>2, FS_EmptySet

\* Every accepted group is in the buffer or was trained on at its own step.
THEOREM BufferIsAccounted == Spec => []BufferAccounted
<1> USE NumPromptsAssumption
<1>1. Init => BufferAccounted
  BY InitAccounted
<1>2. TypeInv /\ ArrivalsDistinct /\ BufferAccounted /\ [Next]_vars => BufferAccounted'
  <2> SUFFICES ASSUME TypeInv, ArrivalsDistinct, BufferAccounted, [Next]_vars,
                      Alive', Alive, NEW t \in Target
               PROVE  Cardinality(Buffered(t)') + (IF Consumed(t)' THEN NumPrompts ELSE 0)
                         = pushes'[t]
    BY OnlyTheLivingMove DEF BufferAccounted, Next, Terminated, vars, trainerVars, Alive
  <2>1. /\ IsFiniteSet(Buffered(t)) /\ Cardinality(Buffered(t)) \in Nat
        /\ pushes \in [Target -> Nat] /\ weightVersion \in Int /\ t \in Int
        /\ Cardinality(Buffered(t)) + (IF Consumed(t) THEN NumPrompts ELSE 0) = pushes[t]
    BY FS_Subset, FS_CardinalityType
    DEF TypeInv, TypeOK, BufferTypeOK, Buffered, BufferAccounted, Version, Target
  <2>2. CASE UNCHANGED <<trajectories, pushes>> /\ (Consumed(t)' <=> Consumed(t))
    BY <2>1, <2>2 DEF Buffered
  <2>3. CASE SampleBatch
    <3>1. CASE t = weightVersion
      <4>1. Consumed(t)' /\ ~Consumed(t) /\ pushes' = pushes
        BY <2>1, <2>3, <3>1, SampleTakes DEF Consumed
      <4>2. Buffered(t)' = Buffered(t) \ Selected(weightVersion)
        BY <2>3, SampleTakes DEF Buffered
      <4>3. Cardinality(Buffered(t)') = Cardinality(Buffered(t)) - NumPrompts
        <5>1. Buffered(t) \cap Selected(weightVersion) = Selected(weightVersion)
          BY <2>3, <3>1, SampleTakes
        <5>2. Cardinality(Buffered(t) \ Selected(weightVersion))
                 = Cardinality(Buffered(t)) - Cardinality(Buffered(t) \cap Selected(weightVersion))
          BY <2>1, FS_Difference
        <5> QED BY <2>3, <4>2, <5>1, <5>2, SampleTakes
      <4> QED BY <2>1, <4>1, <4>3
    <3>2. CASE t # weightVersion
      <4>1. (Consumed(t)' <=> Consumed(t)) /\ pushes' = pushes
        BY <2>1, <2>3, <3>2, SampleTakes DEF Consumed
      <4>2. Buffered(t)' = Buffered(t)
        BY <2>3, <3>2, SampleTakes DEF Buffered
      <4> QED BY <2>1, <4>1, <4>2
    <3> QED BY <3>1, <3>2
  <2>4. ASSUME NEW w \in workers, PushGroup(w), UNCHANGED <<phase, weightVersion>>
        PROVE  Cardinality(Buffered(t)') + (IF Consumed(t)' THEN NumPrompts ELSE 0)
                  = pushes'[t]
    <3>1. PICK g \in Group :
             /\ g = [target |-> w.target, arrival |-> pushes[w.target],
                     version |-> w.version, prompt |-> w.prompt]
             /\ g \notin trajectories
             /\ trajectories' = trajectories \cup {g}
             /\ pushes' = [pushes EXCEPT ![w.target] = @ + 1]
             /\ w.target \in Target /\ pushes[w.target] \in Nat
      BY <2>4, PushAdds
    <3>2. Consumed(t)' <=> Consumed(t)
      BY <2>4 DEF Consumed
    <3>3. CASE t = w.target
      <4>1. Buffered(t)' = Buffered(t) \cup {g} /\ g \notin Buffered(t)
        BY <3>1, <3>3 DEF Buffered
      <4>2. Cardinality(Buffered(t)') = Cardinality(Buffered(t)) + 1
        BY <2>1, <4>1, FS_AddElement
      <4>3. pushes'[t] = pushes[t] + 1
        BY <2>1, <3>1, <3>3
      <4> QED BY <2>1, <3>2, <4>2, <4>3
    <3>4. CASE t # w.target
      <4>1. Buffered(t)' = Buffered(t) /\ pushes'[t] = pushes[t]
        BY <2>1, <3>1, <3>4 DEF Buffered
      <4> QED BY <2>1, <3>2, <4>1
    <3> QED BY <3>3, <3>4
  <2>5. CASE Trainer
    <3>1. SampleBatch \/ (Consumed(t)' <=> Consumed(t))
      BY <2>1, <2>5, TrainerPhases DEF Consumed, TrainingPhase
    <3> QED BY <2>2, <2>3, <2>5, <3>1, OnlySamplesSample
  <2>6. CASE Collector
    <3>1. Consumed(t)' <=> Consumed(t)
      BY <2>6, OnlyPushesPush DEF Consumed
    <3> QED BY <2>2, <2>4, <2>6, <3>1, OnlyPushesPush
  <2>7. CASE UNCHANGED vars
    BY <2>2, <2>7 DEF vars, bufferVars, trainerVars, Consumed
  <2>8. ~TrainerRaises
    BY DEF TrainerRaises, Alive
  <2> QED BY <2>5, <2>6, <2>7, <2>8 DEF Next, Terminated
<1> QED BY <1>1, <1>2, TypeInvariant, ArrivalsInvariant, PTL DEF Spec

-----------------------------------------------------------------------------
(* The refinement. *)

\* Initially nothing is buffered, made or taken.
LEMMA RefinesInit == Init => AT!Init
BY DEF Init, BufferInit, AT!Init, AT!Target, Target, Alive

\* A step of the program is a step of AsyncTraining or leaves its state alone.
LEMMA RefinesNext ==
    ASSUME TypeInv, VersionInv, ArrivalsDistinct, [Next]_vars
    PROVE  [AT!Next]_AT!vars
<1> USE DEF TrainingPhase
<1>1. CASE SampleBatch
  <2>1. /\ phase = "sample" /\ phase' = "train" /\ weightVersion < MaxNumSteps
        /\ trajectories \ trajectories' = Selected(weightVersion)
        /\ trajectories' \subseteq trajectories
        /\ UNCHANGED <<pushes, weightVersion>>
    BY <1>1, SampleTakes DEF TypeInv, StepsInPhase
  <2>2. \A g \in trajectories \ trajectories' : AT!InTime(g)
    <3>1. \A g \in Selected(weightVersion) :
             g.version \in (weightVersion - MaxAge)..weightVersion /\ g.target = weightVersion
      <4>1. \A g \in trajectories : g.version \in Int
        BY DEF TypeInv, TypeOK, BufferTypeOK, Group, Version
      <4> QED BY <1>1, <4>1, SampleTakes
    <3> QED BY <2>1, <3>1 DEF AT!InTime
  <2>3. Cardinality(trajectories \ trajectories') = NumPrompts
    BY <1>1, <2>1, SampleTakes
  <2>4. UNCHANGED Alive /\ Alive
    BY <2>1 DEF Alive
  <2>5. ~(phase \in TrainingPhase) /\ (phase' \in TrainingPhase) = TRUE
    BY <2>1
  <2>6. AT!TakeBatch
    BY <2>1, <2>2, <2>3, <2>4, <2>5
    DEF AT!TakeBatch, AT!Cardinality, Cardinality
  <2> QED BY <2>4, <2>6 DEF AT!Next
<1>2. ASSUME NEW w \in workers, PushGroup(w), UNCHANGED <<phase, weightVersion>>, Alive
      PROVE  AT!Next
  <2>1. /\ w.version <= weightVersion /\ w.version \in Version
        /\ w.target \in Target /\ w.prompt \in Prompt
    BY DEF VersionInv, VersionsBounded, TypeInv, TypeOK, CollectorTypeOK, WorkerRecord
  <2>2. AT!Make(w.target, w.version, w.prompt)
    BY <1>2, <2>1 DEF PushGroup, Push, AT!Make, Alive
  <2> QED BY <1>2, <2>1, <2>2 DEF AT!Next, AT!Target, Target, Version, Prompt
<1>3. CASE Trainer
  <2>1. CASE UNCHANGED <<trajectories, pushes>> /\ phase = "refit" /\ phase' = "validate"
             /\ weightVersion' = weightVersion + 1
    BY <2>1 DEF AT!Next, AT!Publish, Alive
  <2>2. CASE UNCHANGED <<trajectories, pushes, weightVersion>>
             /\ (phase' \in TrainingPhase <=> phase \in TrainingPhase)
    <3>1. Alive
      BY <1>3, OnlyTheLivingMove
    <3>2. CASE Alive'
      BY <2>2, <3>1, <3>2 DEF AT!vars
    <3>3. CASE ~Alive'
      <4>1. phase \notin TrainingPhase
        BY <2>2, <3>3 DEF Alive
      <4>2. AT!Stop
        BY <2>2, <3>3, <4>1 DEF AT!Stop
      <4> QED BY <3>1, <4>2 DEF AT!Next
    <3> QED BY <3>2, <3>3
  <2> QED BY <1>1, <1>3, <2>1, <2>2, TrainerPhases, OnlySamplesSample
<1>4. CASE Collector
  <2>1. Alive /\ UNCHANGED <<phase, weightVersion>>
    BY <1>4, OnlyPushesPush DEF Collector
  <2>2. CASE UNCHANGED <<trajectories, pushes>>
    BY <2>1, <2>2 DEF AT!vars, Alive
  <2> QED BY <1>2, <1>4, <2>1, <2>2, OnlyPushesPush
<1>5. CASE UNCHANGED vars
  BY <1>5 DEF vars, bufferVars, trainerVars, AT!vars, Alive
<1>6. CASE TrainerRaises
  <2>1. UNCHANGED <<trajectories, pushes, weightVersion>> /\ phase' = "raised"
    BY <1>6 DEF TrainerRaises, bufferVars
  <2>2. Alive /\ ~Alive' /\ ~(phase' \in TrainingPhase)
    BY <1>6, <2>1, OnlyTheLivingMove DEF Alive
  <2>3. AT!Stop
    BY <2>1, <2>2 DEF AT!Stop
  <2> QED BY <2>2, <2>3 DEF AT!Next
<1> QED BY <1>3, <1>4, <1>5, <1>6 DEF Next, Terminated

\* Whatever fails and however the threads interleave, every training step trains on
\* exactly num_prompts_per_step groups made for it within its age window, and on no
\* group twice.
THEOREM Refinement == Spec => ImplementsAsyncTraining
BY RefinesInit, RefinesNext, TypeInvariant, VersionInvariant, ArrivalsInvariant, PTL
DEF Spec, ImplementsAsyncTraining, AT!Spec

-----------------------------------------------------------------------------
(* What an undisturbed history guarantees.  Three lemmas say where a loop, *)
(* a worker and a buffered group come from; the counts of GroupsAccounted  *)
(* and BufferAccounted then show that a target whose batch was taken has   *)
(* nothing left to spawn, to generate or to sample.                        *)

USE NumPromptsAssumption, MaxAgeAssumption, StepsAssumption

\* The buffer is accounted for until the trainer raises.
Accounted ==
    phase \notin {"failed", "raised"} => \A t \in Target :
        Cardinality(Buffered(t)) + (IF Consumed(t) THEN NumPrompts ELSE 0) = pushes[t]

\* No age is lost on the way from a reservation to the buffer.
AgeKept ==
    /\ loop.version <= current
    /\ loop.pc \in Spawning => loop.target - MaxAge <= loop.version
    /\ \A w \in workers : w.target - MaxAge <= w.version
    /\ \A g \in trajectories : g.target - MaxAge <= g.version

\* Reservations run at most an age window ahead.
ReservedInReach ==
    \A t \in Target : reservations[t] > 0 => t <= weightVersion + MaxAge

\* Undisturbed histories label no group newer than the step it is made for.
InTime ==
    /\ phase = "raised" => failures > 0
    /\ Undisturbed =>
          /\ \A w \in Unpushed : w.version <= w.target
          /\ \A g \in trajectories : g.version <= g.target
          /\ phase # "failed"

WindowInv == AgeKept /\ ReservedInReach /\ InTime

\* A target has groups only once it was reserved.
MadeWhenReserved ==
    /\ \A w \in workers : 1 <= w.round
    /\ loop.pc \in Spawning => 1 <= reservations[loop.target]
    /\ \A g \in trajectories : 1 <= reservations[g.target]

\* A target that was reserved once has each prompt at most once.
PromptsOnce ==
    \A t \in Target : reservations[t] <= 1 =>
        /\ \A g, h \in Buffered(t) : g.prompt = h.prompt => g = h
        /\ \A g \in Buffered(t), w \in Due(t) : g.prompt # w.prompt
        /\ loop.pc \in Spawning /\ loop.target = t
              => \A g \in Buffered(t) : g.prompt < Spawned

PromptInv == MadeWhenReserved /\ PromptsOnce /\ BatchIsOnePerPrompt

\* What a step does to the loop: it reserves, or it ends a batch, or it stays in one.
LEMMA LoopMoves ==
    ASSUME TypeInv, Next, ~ReserveTarget
    PROVE  /\ UNCHANGED reservations
           /\ loop'.version \in {loop.version, current, StartStep}
           /\ loop'.pc \in Spawning =>
                 /\ loop.pc \in Spawning /\ loop'.target = loop.target
                 /\ loop'.version \in {loop.version, current}
                 /\ Spawned' = Spawned \/ (AcquireAndTrack /\ Spawned' = Spawned + 1)
<1>1. loop \in LoopRecord
  BY DEF TypeInv, TypeOK, CollectorTypeOK
<1> DEFINE Goal == /\ UNCHANGED reservations
                   /\ loop'.version \in {loop.version, current, StartStep}
                   /\ loop'.pc \in Spawning =>
                         /\ loop.pc \in Spawning /\ loop'.target = loop.target
                         /\ loop'.version \in {loop.version, current}
                         /\ Spawned' = Spawned \/ (AcquireAndTrack /\ Spawned' = Spawned + 1)
<1>2. CASE UNCHANGED <<loop, reservations>>
  BY <1>2 DEF Spawned
<1>3. CASE Trainer \/ TrainerRaises \/ UNCHANGED vars
  <2>1. UNCHANGED <<loop, reservations>>
    BY <1>3
    DEF Trainer, StartUp, InitialRefit, InitialValidation, FillBuffer, BufferNotFilled,
        SampleBatch, SampleNone, SampleRaises, Train, RefitPrepared, Refit, BeginValidation,
        EndValidation, BeginCheckpoint, Quiesced, EndCheckpoint, Advance, actorsUnchanged,
        TrainerRaises, vars, collectorVars
  <2> QED BY <1>2, <2>1
<1>4. CASE MainThread
  <2>1. CASE StartCollection
    BY <1>1, <2>1 DEF StartCollection, Goto, LoopRecord, Spawning, BeforeSpawn
  <2>2. CASE UNCHANGED <<loop, reservations>>
    BY <1>2, <2>2
  <2> QED BY <1>4, <2>1, <2>2
      DEF MainThread, SetWeightVersion, WakeLoop, Pause, Resume, PrepareForRefit,
          ResumeAfterRefit, WaitForPendingGenerations, PollPending
<1>5. ASSUME NEW w \in workers, WorkerSteps(w) \/ RolloutFails(w)
      PROVE  Goal
  <2>1. UNCHANGED <<loop, reservations>>
    BY <1>5 DEF WorkerSteps, RolloutFails, PushGroup, PushFull, PushAbandoned, ReleaseFirst,
                EmergencyCleanup, DetachAndRelease, workerUnchanged, collectorVars
  <2> QED BY <1>2, <2>1
<1>6. CASE CollectionLoop \/ DataloaderFails
  <2> USE DEF LoopRecord, Spawning, BeforeSpawn
  <2>1. CASE DataloaderFails \/ CheckLimit \/ DropBatch \/ EndBatch
    BY <2>1 DEF DataloaderFails, CheckLimit, DropBatch, EndBatch, LoopAt
  <2>2. CASE AwaitManualPause \/ AwaitRefitPause \/ ClearLimitEvent \/ AwaitLimitCleared
    BY <1>1, <2>2 DEF AwaitManualPause, AwaitRefitPause, ClearLimitEvent, AwaitLimitCleared,
                      Goto
  <2>3. CASE WarnOncePerVersion \/ NoteWarning
    BY <1>1, <2>3 DEF WarnOncePerVersion, NoteWarning, Goto
  <2>4. CASE ReadVersion \/ ReadLast \/ BeginBatch \/ ReadLastForTarget
    BY <1>1, <2>4 DEF ReadVersion, ReadLast, BeginBatch, ReadLastForTarget
  <2>5. CASE NextPrompt \/ AwaitPromptRefitPause \/ RereadVersion
    BY <1>1, <2>5 DEF NextPrompt, AwaitPromptRefitPause, RereadVersion, Goto, Spawned
  <2>6. CASE AcquireAndTrack
    BY <1>1, <2>6 DEF AcquireAndTrack, Goto, Spawned
  <2>7. CASE StartThread
    BY <1>1, <2>7 DEF StartThread, Spawned
  <2> QED BY <1>6, <2>1, <2>2, <2>3, <2>4, <2>5, <2>6, <2>7 DEF CollectionLoop
<1> QED BY <1>3, <1>4, <1>5, <1>6 DEF Next, Collector, CollectorNext, Terminated

\* What a reservation does: the target is in reach of the version the loop has read.
LEMMA ReserveMoves ==
    ASSUME TypeInv, ReserveTarget
    PROVE  \E t \in Target :
              /\ t <= loop.version + MaxAge
              /\ reservations' = [reservations EXCEPT ![t] = @ + 1]
              /\ loop'.target = t /\ loop'.version = loop.version /\ loop.pc = "reserve"
              /\ loop'.pc = "nextPrompt" /\ UNCHANGED <<workers, trajectories, failures>>
<1> DEFINE need == NeedGeneration(loop.version, loop.last)
           t == Min(need)
<1>1. loop \in LoopRecord
  BY DEF TypeInv, TypeOK, CollectorTypeOK
<1>2. need \subseteq Target /\ \A u \in need : u <= loop.version + MaxAge
  BY <1>1, CalculatedAreTargets
  DEF NeedGeneration, LoopRecord, CalculateTargetWeights, Version
<1>3. t \in need
  BY <1>2, MinIsMember DEF ReserveTarget
<1>4. /\ reservations' = [reservations EXCEPT ![t] = @ + 1]
      /\ loop' = [loop EXCEPT !.pc = "nextPrompt", !.target = t, !.last = -1]
      /\ UNCHANGED <<workers, trajectories, failures>> /\ loop.pc = "reserve"
  BY DEF ReserveTarget, loopUnchanged, bufferVars
<1> HIDE DEF t, need
<1>5. loop'.target = t /\ loop'.version = loop.version /\ loop'.pc = "nextPrompt"
  BY <1>1, <1>4 DEF LoopRecord
<1>6. t \in Target /\ t <= loop.version + MaxAge
  BY <1>2, <1>3
<1> QED BY <1>4, <1>5, <1>6

\* The worker the loop creates next.
NewWorker ==
    [target |-> loop.target, round |-> reservations[loop.target], prompt |-> loop.prompt,
     version |-> loop.version, pc |-> "created", tracked |-> TRUE]

\* Where a worker comes from: it was there, or the loop creates it.
LEMMA WorkerSources ==
    ASSUME TypeInv, [Next]_vars, NEW v \in workers'
    PROVE  \/ \E w \in workers :
                 /\ SameWorker(v, w) /\ v.version = w.version
                 /\ v.pc \in Pending => w.pc \in Pending
           \/ AcquireAndTrack /\ Collector /\ v = NewWorker
<1>1. workers \subseteq WorkerRecord
  BY DEF TypeInv, TypeOK, CollectorTypeOK
<1> USE DEF SameWorker, Pending
<1>2. CASE UNCHANGED workers
  BY <1>2
<1>3. CASE workers' = FinishedThreadsRemoved
  BY <1>1, <1>3 DEF FinishedThreadsRemoved, WorkerRecord
<1>4. CASE Trainer \/ TrainerRaises \/ UNCHANGED vars
  <2>1. UNCHANGED workers
    BY <1>4
    DEF Trainer, StartUp, InitialRefit, InitialValidation, FillBuffer, BufferNotFilled,
        SampleBatch, SampleNone, SampleRaises, Train, RefitPrepared, Refit, BeginValidation,
        EndValidation, BeginCheckpoint, Quiesced, EndCheckpoint, Advance, actorsUnchanged,
        TrainerRaises, vars, collectorVars
  <2> QED BY <1>2, <2>1
<1>5. CASE MainThread
  BY <1>2, <1>3, <1>5
  DEF MainThread, StartCollection, SetWeightVersion, WakeLoop, Pause, Resume,
      PrepareForRefit, ResumeAfterRefit, WaitForPendingGenerations, PollPending
<1>6. ASSUME NEW w \in workers, WorkerSteps(w) \/ RolloutFails(w)
      PROVE  \E u \in workers :
                /\ SameWorker(v, u) /\ v.version = u.version
                /\ v.pc \in Pending => u.pc \in Pending
  <2>1. \/ workers' \subseteq workers
        \/ \E pc \in WorkerPC \ Pending : Moves(w, pc)
    BY <1>6 DEF WorkerSteps, RolloutFails, PushGroup, PushFull, PushAbandoned, ReleaseFirst,
                EmergencyCleanup, DetachAndRelease, collectorVars, WorkerPC
  <2>2. CASE v \in workers
    BY <2>2
  <2>3. CASE v \notin workers
    <3>1. PICK pc \in WorkerPC \ Pending : v = [w EXCEPT !.pc = pc]
      BY <2>1, <2>3 DEF Moves
    <3> QED BY <1>1, <3>1 DEF WorkerRecord
  <2> QED BY <2>2, <2>3
<1>7. CASE Collector /\ (CollectionLoop \/ DataloaderFails)
  <2>1. CASE AcquireAndTrack
    <3>1. workers' = workers \cup {NewWorker}
      BY <2>1 DEF AcquireAndTrack, NewWorker
    <3> HIDE DEF SameWorker, Pending
    <3>2. CASE v = NewWorker
      BY <1>7, <2>1, <3>2
    <3>3. CASE v \in workers
      BY <3>3 DEF SameWorker
    <3> QED BY <3>1, <3>2, <3>3
  <2>2. CASE StartThread
    BY <1>1, <2>2 DEF StartThread, WorkerRecord
  <2>3. CASE EndBatch
    BY <1>3, <2>3 DEF EndBatch
  <2>4. CASE DataloaderFails
    BY <1>2, <2>4 DEF DataloaderFails
  <2> QED BY <1>2, <1>7, <2>1, <2>2, <2>3, <2>4
      DEF CollectionLoop, AwaitManualPause, AwaitRefitPause, ReadVersion, ReadLast,
          CheckLimit, WarnOncePerVersion, NoteWarning, ClearLimitEvent, AwaitLimitCleared,
          BeginBatch, ReadLastForTarget, ReserveTarget, DropBatch, NextPrompt,
          AwaitPromptRefitPause, RereadVersion, loopUnchanged
<1> QED BY <1>4, <1>5, <1>6, <1>7 DEF Next, Collector, CollectorNext, Terminated

\* Where a buffered group comes from: it was there, or a worker pushes it.
LEMMA BufferSources ==
    ASSUME TypeInv, ArrivalsDistinct, [Next]_vars
    PROVE  \/ trajectories' \subseteq trajectories
           \/ \E w \in workers, g \in Group :
                 /\ Collector /\ w.pc = "rollout" /\ UNCHANGED loop
                 /\ g.target = w.target /\ g.prompt = w.prompt /\ g.version = w.version
                 /\ trajectories' = trajectories \cup {g}
                 /\ \E pc \in {"releaseFirst", "cleanup"} : Moves(w, pc)
<1>1. CASE Trainer
  BY <1>1, OnlySamplesSample DEF SampleBatch, Sample
<1>2. CASE TrainerRaises \/ UNCHANGED vars
  BY <1>2 DEF TrainerRaises, vars, bufferVars
<1>3. ASSUME Collector, NEW w \in workers, PushGroup(w)
      PROVE  \E g \in Group :
                 /\ Collector /\ w.pc = "rollout" /\ UNCHANGED loop
                 /\ g.target = w.target /\ g.prompt = w.prompt /\ g.version = w.version
                 /\ trajectories' = trajectories \cup {g}
                 /\ \E pc \in {"releaseFirst", "cleanup"} : Moves(w, pc)
  <2>1. PICK g \in Group :
           /\ g = [target |-> w.target, arrival |-> pushes[w.target],
                   version |-> w.version, prompt |-> w.prompt]
           /\ trajectories' = trajectories \cup {g}
    BY <1>3, PushAdds
  <2>2. g.target = w.target /\ g.prompt = w.prompt /\ g.version = w.version
    BY <2>1
  <2>3. w.pc = "rollout" /\ UNCHANGED loop /\ \E pc \in {"releaseFirst", "cleanup"} : Moves(w, pc)
    BY <1>3 DEF PushGroup, workerUnchanged
  <2> QED BY <1>3, <2>1, <2>2, <2>3
<1>4. CASE Collector
  BY <1>3, <1>4, OnlyPushesPush
<1> QED BY <1>1, <1>2, <1>4 DEF Next, Terminated

\* Nothing undoes a disturbance, and versions and reservations only grow.
LEMMA Grows ==
    ASSUME TypeInv, VersionInv, [Next]_vars
    PROVE  /\ Undisturbed' => Undisturbed
           /\ current <= current' /\ weightVersion <= weightVersion'
           /\ \A t \in Target : reservations[t] <= reservations'[t]
<1>1. /\ reservations \in [Target -> Nat] /\ failures \in Nat /\ current \in Int
      /\ weightVersion \in Int /\ current <= weightVersion
  BY VersionTypes DEF TypeInv, TypeOK, CollectorTypeOK, VersionInv, VersionsBounded
<1>2. failures' \in Nat /\ failures <= failures'
  <2>1. ASSUME NEW w \in workers, WorkerSteps(w) \/ RolloutFails(w)
        PROVE  failures' \in {failures, failures + 1}
    BY <2>1 DEF WorkerSteps, RolloutFails, PushGroup, PushFull, PushAbandoned, ReleaseFirst,
                EmergencyCleanup, DetachAndRelease, collectorVars
  <2>2. ASSUME Trainer \/ TrainerRaises \/ UNCHANGED vars
        PROVE  failures' \in {failures, failures + 1}
    BY <2>2
    DEF Trainer, StartUp, InitialRefit, InitialValidation, FillBuffer, BufferNotFilled,
        SampleBatch, SampleNone, SampleRaises, Train, RefitPrepared, Refit, BeginValidation,
        EndValidation, BeginCheckpoint, Quiesced, EndCheckpoint, Advance, actorsUnchanged,
        TrainerRaises, vars, collectorVars
  <2>3. ASSUME MainThread PROVE failures' = failures
    BY <2>3
    DEF MainThread, StartCollection, SetWeightVersion, WakeLoop, Pause, Resume,
        PrepareForRefit, ResumeAfterRefit, WaitForPendingGenerations, PollPending
  <2>4. ASSUME CollectionLoop \/ DataloaderFails PROVE failures' \in {failures, failures + 1}
    BY <2>4
    DEF CollectionLoop, DataloaderFails, AwaitManualPause, AwaitRefitPause, ReadVersion,
        ReadLast, CheckLimit, WarnOncePerVersion, NoteWarning, ClearLimitEvent,
        AwaitLimitCleared, BeginBatch, ReadLastForTarget, ReserveTarget, DropBatch,
        NextPrompt, AwaitPromptRefitPause, RereadVersion, AcquireAndTrack, StartThread,
        EndBatch, loopUnchanged
  <2> QED BY <1>1, <2>1, <2>2, <2>3, <2>4 DEF Next, Collector, CollectorNext, Terminated
<1>3. \A t \in Target : reservations'[t] \in Nat /\ reservations[t] <= reservations'[t]
  <2>1. CASE ReserveTarget
    BY <1>1, <2>1, ReserveMoves
  <2>2. CASE UNCHANGED reservations
    BY <1>1, <2>2
  <2> QED BY <2>1, <2>2, LoopMoves DEF vars, collectorVars
<1>4. weightVersion <= weightVersion'
  BY <1>1, TrainerPhases, SampleTakes
  DEF Next, Collector, Terminated, TrainerRaises, SampleBatch, vars, trainerVars
<1>5. current <= current'
  <2>1. CASE SetWeightVersion
    <3>1. current' = weightVersion
      BY <2>1, VersionTypes, HeadTailProperties, EmptySeq
      DEF SetWeightVersion, Called, VersionInv, SetsArePublished, Queued, IsSet
    <3> QED BY <1>1, <3>1
  <2>2. CASE MainThread
    BY <1>1, <2>1, <2>2
    DEF MainThread, StartCollection, WakeLoop, Pause, Resume, PrepareForRefit,
        ResumeAfterRefit, WaitForPendingGenerations, PollPending
  <2>3. ASSUME NEW w \in workers, WorkerSteps(w) \/ RolloutFails(w)
        PROVE  current' = current
    BY <2>3 DEF WorkerSteps, RolloutFails, PushGroup, PushFull, PushAbandoned, ReleaseFirst,
                EmergencyCleanup, DetachAndRelease, collectorVars, workerUnchanged, mainVars
  <2>4. ASSUME Trainer \/ TrainerRaises \/ UNCHANGED vars PROVE current' = current
    BY <2>4
    DEF Trainer, StartUp, InitialRefit, InitialValidation, FillBuffer, BufferNotFilled,
        SampleBatch, SampleNone, SampleRaises, Train, RefitPrepared, Refit, BeginValidation,
        EndValidation, BeginCheckpoint, Quiesced, EndCheckpoint, Advance, actorsUnchanged,
        TrainerRaises, vars, collectorVars, mainVars
  <2>5. ASSUME CollectionLoop \/ DataloaderFails PROVE current' = current
    BY <2>5
    DEF CollectionLoop, DataloaderFails, AwaitManualPause, AwaitRefitPause, ReadVersion,
        ReadLast, CheckLimit, WarnOncePerVersion, NoteWarning, ClearLimitEvent,
        AwaitLimitCleared, BeginBatch, ReadLastForTarget, ReserveTarget, DropBatch,
        NextPrompt, AwaitPromptRefitPause, RereadVersion, AcquireAndTrack, StartThread,
        EndBatch, loopUnchanged, mainVars
  <2> QED BY <1>1, <2>2, <2>3, <2>4, <2>5 DEF Next, Collector, CollectorNext, Terminated
<1>6. Undisturbed' => Undisturbed
  BY <1>1, <1>2, <1>3 DEF Undisturbed
<1> QED BY <1>3, <1>4, <1>5, <1>6

\* The buffer stays accounted for when the last step is over.
LEMMA AccountedInvariant == Spec => []Accounted
<1>1. Init => Accounted
  <2>1. Init => Alive
    BY DEF Init, Alive
  <2>2. Init => BufferAccounted
    BY InitAccounted
  <2> QED BY <2>1, <2>2 DEF BufferAccounted, Accounted
<1>2. Accounted /\ BufferAccounted /\ BufferAccounted' /\ [Next]_vars => Accounted'
  <2> SUFFICES ASSUME Accounted, BufferAccounted, BufferAccounted', [Next]_vars,
                      phase' \notin {"failed", "raised"}
               PROVE  Accounted'
    BY DEF Accounted
  <2>1. CASE Alive'
    BY <2>1 DEF BufferAccounted, Accounted
  <2>2. CASE ~Alive'
    <3>1. CASE UNCHANGED vars
      BY <3>1 DEF vars, bufferVars, trainerVars, Accounted, Buffered, Consumed
    <3>2. CASE ~UNCHANGED vars
      <4>1. Advance
        BY <2>2, <3>2
        DEF Next, Terminated, TrainerRaises, Collector, trainerVars, Trainer, StartUp,
            InitialRefit, InitialValidation, FillBuffer, BufferNotFilled, SampleBatch,
            SampleNone, SampleRaises, Train, RefitPrepared, Refit, BeginValidation,
            EndValidation, BeginCheckpoint, Quiesced, EndCheckpoint, Alive
      <4>2. Alive /\ UNCHANGED <<trajectories, pushes, weightVersion>>
            /\ phase = "advance" /\ phase' = "done"
        BY <2>2, <4>1 DEF Advance, Alive, actorsUnchanged, bufferVars
      <4> QED BY <4>2 DEF BufferAccounted, Accounted, Buffered, Consumed
    <3> QED BY <3>1, <3>2
  <2> QED BY <2>1, <2>2
<1> QED BY <1>1, <1>2, BufferIsAccounted, PTL DEF Spec

\* In an undisturbed history a target whose batch was taken was reserved, and
\* nothing of it is left to be spawned, to be generated or to be sampled.
LEMMA ConsumedIsOver ==
    ASSUME TypeInv, GroupInv, Accounted, Undisturbed, phase \notin {"failed", "raised"},
           NEW t \in Target, Consumed(t)
    PROVE  /\ reservations[t] = 1 /\ ToSpawn(t) = 0 /\ Due(t) = {} /\ Buffered(t) = {}
<1>1. /\ pushes[t] + ToSpawn(t) + Cardinality(Due(t)) = NumPrompts * reservations[t]
      /\ Cardinality(Buffered(t)) + NumPrompts = pushes[t]
  BY DEF GroupInv, GroupsAccounted, Accounted, Undisturbed, Due
<1>2. /\ IsFiniteSet(Due(t)) /\ Cardinality(Due(t)) \in Nat
      /\ ToSpawn(t) \in Int /\ pushes[t] \in Nat /\ reservations[t] \in Nat
  BY DueIsFinite
<1>3. IsFiniteSet(Buffered(t)) /\ Cardinality(Buffered(t)) \in Nat
  <2>1. Buffered(t) \in SUBSET trajectories /\ IsFiniteSet(trajectories)
    BY DEF Buffered, TypeInv, TypeOK, BufferTypeOK
  <2> QED BY <2>1, FS_Subset, FS_CardinalityType
<1>4. ToSpawn(t) >= 0
  BY DEF ToSpawn, TypeInv, TypeOK, CollectorTypeOK, LoopRecord, PromptInBatch, BeforeSpawn
<1>5. reservations[t] \in {0, 1}
  BY <1>2 DEF Undisturbed
<1>6. NumPrompts * 0 = 0 /\ NumPrompts * 1 = NumPrompts /\ NumPrompts \in Nat \ {0}
  OBVIOUS
<1>7. /\ reservations[t] = 1 /\ ToSpawn(t) = 0 /\ Cardinality(Due(t)) = 0
      /\ Cardinality(Buffered(t)) = 0
  <2> DEFINE r == reservations[t]
             spawn == ToSpawn(t)
             due == Cardinality(Due(t))
             kept == Cardinality(Buffered(t))
             pushed == pushes[t]
  <2>1. /\ (pushed + spawn) + due = NumPrompts * r /\ kept + NumPrompts = pushed
        /\ due \in Nat /\ spawn \in Int /\ spawn >= 0 /\ pushed \in Nat /\ kept \in Nat
        /\ r \in {0, 1}
    BY <1>1, <1>2, <1>3, <1>4, <1>5
  <2> HIDE DEF r, spawn, due, kept, pushed
  <2>2. r = 1 /\ spawn = 0 /\ due = 0 /\ kept = 0
    BY <1>6, <2>1
  <2> QED BY <2>2 DEF r, spawn, due, kept
<1> QED BY <1>2, <1>3, <1>7, FS_EmptySet

\* So whatever is still to be spawned, generated or sampled is for the present step
\* or a later one.
LEMMA OpenIsAhead ==
    ASSUME TypeInv, GroupInv, Accounted, InTime, Undisturbed
    PROVE  /\ phase \notin {"failed", "raised"}
           /\ \A t \in Target : ToSpawn(t) # 0 => weightVersion <= t
           /\ \A w \in Unpushed : weightVersion <= w.target
           /\ \A g \in trajectories : weightVersion <= g.target
<1>1. phase \notin {"failed", "raised"}
  BY DEF InTime, Undisturbed
<1>2. ASSUME NEW t \in Target, t < weightVersion
      PROVE  ToSpawn(t) = 0 /\ Due(t) = {} /\ Buffered(t) = {}
  BY <1>1, <1>2, ConsumedIsOver DEF Consumed
<1>3. /\ weightVersion \in Int /\ \A t \in Target : t \in Int
      /\ \A w \in Unpushed : w.target \in Target /\ w \in Due(w.target)
      /\ \A g \in trajectories : g.target \in Target /\ g \in Buffered(g.target)
  BY Ranges
  DEF TypeInv, TypeOK, BufferTypeOK, CollectorTypeOK, Unpushed, Due, Buffered, WorkerRecord,
      Group
<1>4. \A t \in Target : t < weightVersion \/ weightVersion <= t
  BY <1>3
<1> QED BY <1>1, <1>2, <1>3, <1>4

\* The numbers of a type-correct state.
LEMMA WindowTypes ==
    ASSUME TypeInv
    PROVE  /\ loop \in LoopRecord /\ loop.version \in Int /\ loop.target \in Target
           /\ current \in Int /\ weightVersion \in Int /\ StartStep <= current
           /\ \A w \in workers : w.target \in Target /\ w.version \in Int
           /\ \A g \in trajectories : g.target \in Target /\ g.version \in Int
           /\ reservations \in [Target -> Nat] /\ Target \subseteq Int
<1>1. /\ loop \in LoopRecord /\ current \in Version /\ weightVersion \in Version
      /\ workers \subseteq WorkerRecord /\ trajectories \subseteq Group
      /\ reservations \in [Target -> Nat]
  BY DEF TypeInv, TypeOK, BufferTypeOK, CollectorTypeOK
<1>2. current \in Int /\ weightVersion \in Int /\ StartStep <= current /\ Target \subseteq Int
  BY <1>1 DEF Version, Target
<1>3. loop.target \in Target /\ loop.version \in Int
  BY <1>1 DEF LoopRecord, Version
<1>4. \A w \in workers : w.target \in Target /\ w.version \in Int
  BY <1>1 DEF WorkerRecord, Version
<1>5. \A g \in trajectories : g.target \in Target /\ g.version \in Int
  BY <1>1 DEF Group, Version
<1> QED BY <1>1, <1>2, <1>3, <1>4, <1>5

\* A worker takes the version of the loop, a group that of its worker.
LEMMA AgesAreKept ==
    ASSUME TypeInv, TypeInv', VersionInv, ArrivalsDistinct, WindowInv, Next
    PROVE  AgeKept'
<1>1. /\ current <= current' /\ loop.version <= current
  BY Grows DEF WindowInv, AgeKept
<1>2. /\ loop'.version \in {loop.version, current, StartStep}
      /\ loop'.pc \in Spawning =>
            loop'.version \in {loop.version, current} /\ loop'.target - MaxAge <= loop'.version
  <2>1. CASE ReserveTarget
    BY <2>1, ReserveMoves, WindowTypes
  <2>2. CASE ~ReserveTarget
    BY <2>2, LoopMoves, WindowTypes DEF WindowInv, AgeKept
  <2> QED BY <2>1, <2>2
<1>3. loop'.version <= current'
  <2>1. current' \in Int
    BY DEF TypeInv, TypeOK, CollectorTypeOK, Version
  <2> QED BY <1>1, <1>2, <2>1, WindowTypes
<1>4. \A v \in workers' : v.target - MaxAge <= v.version
  <2> SUFFICES ASSUME NEW v \in workers' PROVE v.target - MaxAge <= v.version
    OBVIOUS
  <2>1. CASE AcquireAndTrack /\ v = NewWorker
    BY <2>1 DEF AcquireAndTrack, NewWorker, WindowInv, AgeKept, Spawning, BeforeSpawn
  <2> QED BY <2>1, WorkerSources DEF WindowInv, AgeKept, SameWorker
<1>5. \A g \in trajectories' : g.target - MaxAge <= g.version
  BY BufferSources DEF WindowInv, AgeKept
<1> QED BY <1>2, <1>3, <1>4, <1>5 DEF AgeKept

\* A reservation is aimed at most MaxAge past a version the loop has read.
LEMMA ReachIsKept ==
    ASSUME TypeInv, TypeInv', VersionInv, WindowInv, Next
    PROVE  ReservedInReach'
<1>1. weightVersion <= weightVersion' /\ loop.version <= weightVersion
  BY Grows DEF VersionInv, VersionsBounded
<1>2. weightVersion' \in Int
  BY DEF TypeInv, TypeOK, Version
<1>3. CASE ReserveTarget
  <2>1. PICK t \in Target : /\ t <= loop.version + MaxAge
                           /\ reservations' = [reservations EXCEPT ![t] = @ + 1]
    BY <1>3, ReserveMoves
  <2> SUFFICES ASSUME NEW u \in Target, reservations'[u] > 0
               PROVE  u <= weightVersion' + MaxAge
    BY DEF ReservedInReach
  <2>2. CASE u = t
    BY <1>1, <1>2, <2>1, <2>2, WindowTypes
  <2>3. CASE u # t
    <3>1. reservations[u] > 0
      BY <2>1, <2>3, WindowTypes
    <3>2. u <= weightVersion + MaxAge
      BY <3>1 DEF WindowInv, ReservedInReach
    <3> QED BY <1>1, <1>2, <3>2, WindowTypes
  <2> QED BY <2>2, <2>3
<1>4. CASE ~ReserveTarget
  <2> SUFFICES ASSUME NEW u \in Target, reservations'[u] > 0
               PROVE  u <= weightVersion' + MaxAge
    BY DEF ReservedInReach
  <2>1. u <= weightVersion + MaxAge
    BY <1>4, LoopMoves DEF WindowInv, ReservedInReach
  <2> QED BY <1>1, <1>2, <2>1, WindowTypes
<1> QED BY <1>3, <1>4

\* A worker is created for a target that is ahead of the weights, and sample finds
\* no group too old.
LEMMA TimeIsKept ==
    ASSUME TypeInv, TypeInv', VersionInv, ArrivalsDistinct, GroupInv, Accounted, WindowInv, Next
    PROVE  InTime'
<1>1. phase' = "raised" => failures' > 0
  <2>1. CASE TrainerRaises
    BY <2>1 DEF TrainerRaises, TypeInv, TypeOK, CollectorTypeOK
  <2>2. CASE Terminated
    BY <2>2 DEF Terminated, vars, collectorVars, trainerVars, WindowInv, InTime
  <2>3. CASE Collector
    BY <2>3 DEF Collector, trainerVars, Alive
  <2>4. CASE Trainer
    BY <2>4
    DEF Trainer, StartUp, InitialRefit, InitialValidation, FillBuffer, BufferNotFilled,
        SampleBatch, SampleNone, SampleRaises, Train, RefitPrepared, Refit, BeginValidation,
        EndValidation, BeginCheckpoint, Quiesced, EndCheckpoint, Advance, vars, trainerVars
  <2> QED BY <2>1, <2>2, <2>3, <2>4 DEF Next
<1>2. ASSUME Undisturbed'
      PROVE  /\ \A w \in Unpushed' : w.version <= w.target
             /\ \A g \in trajectories' : g.version <= g.target
             /\ phase' # "failed"
  <2>1. /\ Undisturbed /\ phase \notin {"failed", "raised"}
        /\ \A t \in Target : ToSpawn(t) # 0 => weightVersion <= t
        /\ \A g \in trajectories : weightVersion <= g.target
        /\ \A w \in Unpushed : w.version <= w.target
        /\ \A g \in trajectories : g.version <= g.target
    BY <1>2, Grows, OpenIsAhead DEF WindowInv, InTime
  <2>2. \A w \in Unpushed' : w.version <= w.target
    <3> SUFFICES ASSUME NEW v \in Unpushed' PROVE v.version <= v.target
      OBVIOUS
    <3>1. CASE AcquireAndTrack /\ v = NewWorker
      <4>1. ToSpawn(loop.target) # 0
        BY <3>1, WindowTypes
        DEF AcquireAndTrack, ToSpawn, TypeInv, PromptInBatch, BeforeSpawn, LoopRecord
      <4>2. weightVersion <= loop.target /\ loop.version <= weightVersion
        BY <2>1, <4>1, WindowTypes DEF VersionInv, VersionsBounded
      <4>3. v.version = loop.version /\ v.target = loop.target
        BY <3>1 DEF NewWorker
      <4>4. loop.version \in Int /\ loop.target \in Int /\ weightVersion \in Int
        BY WindowTypes
      <4> QED BY <4>2, <4>3, <4>4
    <3>2. ASSUME NEW w \in workers, SameWorker(v, w), v.version = w.version,
                 v.pc \in Pending => w.pc \in Pending
          PROVE  v.version <= v.target
      <4>1. w \in Unpushed
        BY <3>2 DEF Unpushed, Pending
      <4> QED BY <2>1, <3>2, <4>1 DEF SameWorker
    <3>3. v \in workers'
      BY DEF Unpushed
    <3> QED BY <3>1, <3>2, <3>3, WorkerSources
  <2>3. \A g \in trajectories' : g.version <= g.target
    <3>1. CASE trajectories' \subseteq trajectories
      BY <2>1, <3>1
    <3>2. ASSUME NEW w \in workers, w.pc = "rollout", NEW g \in Group,
                 g.target = w.target, g.version = w.version,
                 trajectories' = trajectories \cup {g}
          PROVE  \A h \in trajectories' : h.version <= h.target
      BY <2>1, <3>2 DEF Unpushed
    <3> QED BY <3>1, <3>2, BufferSources
  <2>4. phase' # "failed"
    <3>1. ~SampleRaises
      <4>1. \A g \in trajectories : /\ weightVersion - MaxAge <= g.version
                                   /\ 0 <= g.version
        <5>1. \A g \in trajectories : g.target - MaxAge <= g.version
          BY DEF WindowInv, AgeKept
        <5>2. \A g \in trajectories : 0 <= g.version
          BY DEF TypeInv, TypeOK, BufferTypeOK, Group, Version
        <5>3. ASSUME NEW g \in trajectories PROVE weightVersion - MaxAge <= g.version
          <6>1. g.target \in Int /\ g.version \in Int /\ weightVersion \in Int
            BY WindowTypes
          <6> QED BY <2>1, <5>1, <6>1
        <5> QED BY <5>2, <5>3
      <4> QED BY <4>1, WindowTypes DEF SampleRaises, TooOld, MinValidVersion
    <3>2. CASE Trainer
      BY <3>1, <3>2
      DEF Trainer, StartUp, InitialRefit, InitialValidation, FillBuffer, BufferNotFilled,
          SampleBatch, SampleNone, Train, RefitPrepared, Refit, BeginValidation,
          EndValidation, BeginCheckpoint, Quiesced, EndCheckpoint, Advance, vars,
          trainerVars
    <3> QED BY <2>1, <3>2 DEF Next, Collector, TrainerRaises, Terminated, vars, trainerVars
  <2> QED BY <2>2, <2>3, <2>4
<1> QED BY <1>1, <1>2 DEF InTime

\* Ages, reservations and labels stay in the window.
LEMMA WindowInvariant == Spec => []WindowInv
<1>1. Init => WindowInv
  BY DEF Init, BufferInit, CollectorInit, LoopAt, WindowInv, AgeKept, ReservedInReach, InTime,
         Spawning, BeforeSpawn, Unpushed
<1>2. TypeInv /\ TypeInv' /\ VersionInv /\ ArrivalsDistinct /\ GroupInv /\ Accounted
         /\ WindowInv /\ [Next]_vars => WindowInv'
  <2> SUFFICES ASSUME TypeInv, TypeInv', VersionInv, ArrivalsDistinct, GroupInv, Accounted,
                      WindowInv, [Next]_vars
               PROVE  WindowInv'
    OBVIOUS
  <2>1. CASE UNCHANGED vars
    <3>1. UNCHANGED <<loop, current, workers, trajectories, weightVersion, reservations,
                      phase, failures>>
      BY <2>1 DEF vars, bufferVars, collectorVars, trainerVars
    <3> QED BY <3>1 DEF WindowInv, AgeKept, ReservedInReach, InTime, Undisturbed, Unpushed
  <2>2. CASE Next
    BY <2>2, AgesAreKept, ReachIsKept, TimeIsKept DEF WindowInv
  <2> QED BY <2>1, <2>2
<1> QED BY <1>1, <1>2, TypeInvariant, VersionInvariant, ArrivalsInvariant, GroupInvariant,
           AccountedInvariant, PTL DEF Spec
\* In an undisturbed history no group is older than the age window of its step, nor
\* newer than it, nor left behind by the trainer, and sample never raises
\* (the targets _calculate_target_weights allows, and the versions workers take).
THEOREM WindowIsKept == Spec => []WithinAgeWindow
<1>1. TypeInv /\ GroupInv /\ Accounted /\ WindowInv => WithinAgeWindow
  <2> SUFFICES ASSUME TypeInv, GroupInv, Accounted, WindowInv, Undisturbed
               PROVE  /\ \A w \in Unpushed : w.version \in (w.target - MaxAge)..w.target
                      /\ \A g \in trajectories :
                            /\ g.version \in (g.target - MaxAge)..g.target
                            /\ g.target >= weightVersion
                      /\ phase # "failed"
    BY DEF WithinAgeWindow
  <2>1. /\ phase # "failed"
        /\ \A w \in Unpushed : w.version <= w.target
        /\ \A g \in trajectories : g.version <= g.target /\ weightVersion <= g.target
    BY OpenIsAhead DEF WindowInv, InTime
  <2>2. \A w \in Unpushed : w.version \in (w.target - MaxAge)..w.target
    <3> SUFFICES ASSUME NEW w \in Unpushed
                 PROVE  w.version \in (w.target - MaxAge)..w.target
      OBVIOUS
    <3>1. w \in workers
      BY DEF Unpushed
    <3>2. w.target - MaxAge <= w.version /\ w.target \in Int /\ w.version \in Int
      BY <3>1, WindowTypes DEF WindowInv, AgeKept
    <3> QED BY <2>1, <3>2
  <2>3. ASSUME NEW g \in trajectories
        PROVE  g.version \in (g.target - MaxAge)..g.target /\ g.target >= weightVersion
    <3>1. /\ g.target - MaxAge <= g.version /\ g.target \in Int /\ g.version \in Int
          /\ weightVersion \in Int
      BY WindowTypes DEF WindowInv, AgeKept
    <3> QED BY <2>1, <3>1
  <2> QED BY <2>1, <2>2, <2>3
<1> QED BY <1>1, TypeInvariant, GroupInvariant, AccountedInvariant, WindowInvariant, PTL

\* The prompts of a type-correct state are numbers.
LEMMA PromptTypes ==
    ASSUME TypeInv
    PROVE  /\ Spawned \in Int
           /\ \A w \in workers : w.prompt \in Int /\ w.round \in Int /\ w.target \in Target
           /\ \A g \in trajectories : g.prompt \in Prompt /\ g.prompt \in Int /\ g.target \in Target
<1>1. loop \in LoopRecord /\ workers \subseteq WorkerRecord /\ trajectories \subseteq Group
  BY DEF TypeInv, TypeOK, BufferTypeOK, CollectorTypeOK
<1>2. Spawned \in Int
  BY <1>1 DEF LoopRecord, Spawned
<1>3. \A w \in workers : w.prompt \in Int /\ w.round \in Int /\ w.target \in Target
  BY <1>1 DEF WorkerRecord, Prompt
<1>4. \A g \in trajectories : g.prompt \in Prompt /\ g.prompt \in Int /\ g.target \in Target
  BY <1>1 DEF Group, Prompt
<1> QED BY <1>2, <1>3, <1>4

\* Reservations come before workers, workers before groups.
LEMMA MadeIsKept ==
    ASSUME TypeInv, VersionInv, ArrivalsDistinct, PermitInv, MadeWhenReserved, Next
    PROVE  MadeWhenReserved'
<1>1. reservations \in [Target -> Nat] /\ loop.target \in Target
  BY WindowTypes
<1>2. \A t \in Target : reservations[t] <= reservations'[t] /\ reservations'[t] \in Nat
  <2>1. CASE ReserveTarget
    BY <1>1, <2>1, ReserveMoves
  <2>2. CASE ~ReserveTarget
    BY <1>1, <2>2, LoopMoves
  <2> QED BY <2>1, <2>2
<1>3. \A v \in workers' : 1 <= v.round
  <2> SUFFICES ASSUME NEW v \in workers' PROVE 1 <= v.round
    OBVIOUS
  <2>1. CASE AcquireAndTrack /\ v = NewWorker
    BY <2>1 DEF AcquireAndTrack, NewWorker, MadeWhenReserved, Spawning, BeforeSpawn
  <2> QED BY <2>1, WorkerSources DEF MadeWhenReserved, SameWorker
<1>4. loop'.pc \in Spawning => 1 <= reservations'[loop'.target]
  <2>1. CASE ReserveTarget
    BY <1>1, <2>1, ReserveMoves
  <2>2. CASE ~ReserveTarget
    BY <2>2, LoopMoves DEF MadeWhenReserved
  <2> QED BY <2>1, <2>2
<1>5. \A g \in trajectories' : 1 <= reservations'[g.target]
  <2>1. \A g \in trajectories : 1 <= reservations'[g.target]
    <3> SUFFICES ASSUME NEW g \in trajectories PROVE 1 <= reservations'[g.target]
      OBVIOUS
    <3>1. g.target \in Target /\ 1 <= reservations[g.target]
      BY PromptTypes DEF MadeWhenReserved
    <3> QED BY <1>1, <1>2, <3>1
  <2>2. ASSUME NEW w \in workers, NEW h \in Group, h.target = w.target,
               trajectories' = trajectories \cup {h}
        PROVE  \A g \in trajectories' : 1 <= reservations'[g.target]
    <3>1. /\ w.round \in Int /\ w.target \in Target
          /\ 1 <= w.round /\ w.round <= reservations[w.target]
      BY PromptTypes DEF MadeWhenReserved, PermitInv, RoundsReserved
    <3>2. 1 <= reservations'[h.target]
      BY <1>1, <1>2, <2>2, <3>1
    <3> QED BY <2>1, <2>2, <3>2
  <2> QED BY <2>1, <2>2, BufferSources
<1> QED BY <1>3, <1>4, <1>5 DEF MadeWhenReserved

\* The first reservation of a target leads to each prompt once.
LEMMA PromptsStayOnce ==
    ASSUME TypeInv, TypeInv', VersionInv, ArrivalsDistinct, PermitInv, MadeWhenReserved,
           PromptsOnce, Next
    PROVE  PromptsOnce'
<1> SUFFICES ASSUME NEW t \in Target, reservations'[t] <= 1
             PROVE  /\ \A g, h \in Buffered(t)' : g.prompt = h.prompt => g = h
                    /\ \A g \in Buffered(t)', v \in Due(t)' : g.prompt # v.prompt
                    /\ loop'.pc \in Spawning /\ loop'.target = t
                          => \A g \in Buffered(t)' : g.prompt < Spawned'
  BY DEF PromptsOnce
<1>1. reservations[t] <= 1
  <2>1. reservations[t] \in Nat /\ reservations'[t] \in Nat
    BY DEF TypeInv, TypeOK, CollectorTypeOK
  <2> QED BY <2>1, Grows
<1>2. /\ \A g, h \in Buffered(t) : g.prompt = h.prompt => g = h
      /\ \A g \in Buffered(t), w \in Due(t) : g.prompt # w.prompt
      /\ loop.pc \in Spawning /\ loop.target = t => \A g \in Buffered(t) : g.prompt < Spawned
  BY <1>1 DEF PromptsOnce
<1>3. \A g \in Buffered(t) : g \in trajectories /\ g.target = t /\ 1 <= reservations[t]
  BY DEF Buffered, MadeWhenReserved
<1>4. \A g \in Buffered(t), v \in Due(t)' : g.prompt # v.prompt
  <2> SUFFICES ASSUME NEW g \in Buffered(t), NEW v \in Due(t)' PROVE g.prompt # v.prompt
    OBVIOUS
  <2>1. v \in workers' /\ v.pc \in Pending /\ v.target = t
    BY DEF Due, Unpushed, Pending
  <2>2. CASE AcquireAndTrack /\ v = NewWorker
    <3>1. /\ loop.pc \in Spawning /\ loop.target = t
          /\ Spawned = loop.prompt /\ v.prompt = loop.prompt
      BY <2>1, <2>2 DEF AcquireAndTrack, NewWorker, Spawning, BeforeSpawn, Spawned
    <3>2. g.prompt < Spawned /\ g.prompt \in Int /\ Spawned \in Int
      BY <1>2, <1>3, <3>1, PromptTypes
    <3> QED BY <3>1, <3>2
  <2>3. ASSUME NEW w \in workers, SameWorker(v, w), v.pc \in Pending => w.pc \in Pending
        PROVE  g.prompt # v.prompt
    <3>1. w \in Due(t) /\ v.prompt = w.prompt
      BY <2>1, <2>3 DEF Due, Unpushed, Pending, SameWorker
    <3> QED BY <1>2, <3>1
  <2> QED BY <2>1, <2>2, <2>3, WorkerSources
<1>5. loop'.pc \in Spawning /\ loop'.target = t => \A g \in Buffered(t) : g.prompt < Spawned'
  <2> SUFFICES ASSUME loop'.pc \in Spawning, loop'.target = t, NEW g \in Buffered(t)
               PROVE  g.prompt < Spawned'
    OBVIOUS
  <2>1. ~ReserveTarget
    <3> SUFFICES ASSUME ReserveTarget PROVE FALSE
      OBVIOUS
    <3>1. reservations'[t] = reservations[t] + 1
      BY ReserveMoves, WindowTypes
    <3> QED BY <1>3, <3>1, WindowTypes
  <2>2. /\ loop.pc \in Spawning /\ loop.target = t
        /\ Spawned' = Spawned \/ Spawned' = Spawned + 1
    BY <2>1, LoopMoves
  <2>3. g.prompt < Spawned /\ g.prompt \in Int /\ Spawned \in Int
    BY <1>2, <1>3, <2>2, PromptTypes
  <2> HIDE DEF Spawned
  <2> QED BY <2>2, <2>3
<1>6. CASE trajectories' \subseteq trajectories
  <2>1. Buffered(t)' \subseteq Buffered(t)
    BY <1>6 DEF Buffered
  <2> QED BY <1>2, <1>4, <1>5, <2>1
<1>7. ASSUME NEW w \in workers, NEW n \in Group,
             w.pc = "rollout", UNCHANGED loop,
             n.target = w.target, n.prompt = w.prompt,
             trajectories' = trajectories \cup {n},
             NEW pc \in {"releaseFirst", "cleanup"}, Moves(w, pc)
      PROVE  /\ \A g, h \in Buffered(t)' : g.prompt = h.prompt => g = h
             /\ \A g \in Buffered(t)', v \in Due(t)' : g.prompt # v.prompt
             /\ loop'.pc \in Spawning /\ loop'.target = t
                   => \A g \in Buffered(t)' : g.prompt < Spawned'
  <2>1. CASE w.target # t
    <3>1. Buffered(t)' = Buffered(t)
      BY <1>7, <2>1 DEF Buffered
    <3> QED BY <1>2, <1>4, <1>5, <3>1
  <2>2. CASE w.target = t
    <3>1. Buffered(t)' = Buffered(t) \cup {n} /\ w \in Due(t)
      BY <1>7, <2>2 DEF Buffered, Due, Unpushed
    <3>2. w.round = 1 /\ reservations[t] = 1
      <4>1. /\ w.round \in Int /\ reservations[t] \in Nat
            /\ 1 <= w.round /\ w.round <= reservations[t]
        BY <2>2, PromptTypes, WindowTypes DEF MadeWhenReserved, PermitInv, RoundsReserved
      <4> QED BY <1>1, <4>1
    <3>3. \A v \in Due(t)' : n.prompt # v.prompt
      <4> SUFFICES ASSUME NEW v \in Due(t)', v.prompt = w.prompt PROVE FALSE
        BY <1>7
      <4>1. v \in workers \ {w} /\ v.target = t
        BY <1>7 DEF Due, Unpushed, Moves, TypeInv, TypeOK, CollectorTypeOK, WorkerRecord
      <4>2. v.round = 1
        <5>1. /\ v.round \in Int
              /\ 1 <= v.round /\ v.round <= reservations[t]
          BY <4>1, PromptTypes DEF MadeWhenReserved, PermitInv, RoundsReserved
        <5> QED BY <3>2, <5>1
      <4> QED BY <2>2, <3>2, <4>1, <4>2 DEF PermitInv, WorkersDistinct, SameWorker
    <3>4. loop'.pc \in Spawning /\ loop'.target = t => n.prompt < Spawned'
      BY <1>7, <2>2, <3>2 DEF PermitInv, SpawnedInOrder, Spawned
    <3> QED BY <1>2, <1>4, <1>5, <1>7, <3>1, <3>3, <3>4
  <2> QED BY <2>1, <2>2
<1> QED BY <1>6, <1>7, BufferSources

\* A batch of NumPrompts groups without a repeated prompt has every prompt.
LEMMA PromptsOfABatch ==
    ASSUME NEW B, B \subseteq trajectories, TypeInv, IsFiniteSet(B),
           Cardinality(B) = NumPrompts, \A g, h \in B : g.prompt = h.prompt => g = h
    PROVE  {g.prompt : g \in B} = Prompt
<1> DEFINE f == [g \in B |-> g.prompt]
<1>1. f \in [B -> Prompt] /\ \A g, h \in B : f[g] = f[h] => g = h
  BY PromptTypes
<1>2. f \in Injection(B, Prompt)
  BY <1>1, Fun_IsInj
<1>3. IsFiniteSet(Prompt) /\ Cardinality(Prompt) = NumPrompts
  BY FS_Interval DEF Prompt
<1>4. f \in Surjection(B, Prompt)
  BY <1>2, <1>3, FS_Injection
<1>5. \A p \in Prompt : \E g \in B : f[g] = p
  BY <1>4 DEF Surjection
<1> QED BY <1>1, <1>5

\* The step that takes the batch finds every prompt once.
LEMMA BatchStaysWhole ==
    ASSUME TypeInv, VersionInv, ArrivalsDistinct, PromptsOnce, BatchIsOnePerPrompt, Next
    PROVE  BatchIsOnePerPrompt'
<1> SUFFICES ASSUME Undisturbed', phase' = "train"
             PROVE  /\ {g.prompt : g \in batch'} = Prompt
                    /\ Cardinality(batch') = NumPrompts
  BY DEF BatchIsOnePerPrompt
<1>1. Undisturbed
  BY Grows
<1>2. CASE SampleBatch
  <2> DEFINE B == Selected(weightVersion)
  <2>1. batch' = B
    BY <1>2 DEF SampleBatch
  <2>2. B \subseteq Buffered(weightVersion) /\ IsFiniteSet(B) /\ Cardinality(B) = NumPrompts
    BY <1>2, SampleTakes
  <2>3. weightVersion \in Target
    BY Ranges DEF TypeInv, TypeOK
  <2>4. \A g, h \in Buffered(weightVersion) : g.prompt = h.prompt => g = h
    BY <1>1, <2>3 DEF PromptsOnce, Undisturbed
  <2>5. B \subseteq trajectories
    BY <2>2 DEF Buffered
  <2> HIDE DEF B
  <2> QED BY <2>1, <2>2, <2>4, <2>5, PromptsOfABatch
<1>3. CASE ~SampleBatch
  <2>1. UNCHANGED <<phase, batch>>
    BY <1>3
    DEF Next, Terminated, TrainerRaises, Collector, trainerVars, vars, Trainer, StartUp,
        InitialRefit, InitialValidation, FillBuffer, BufferNotFilled, SampleNone,
        SampleRaises, Train, RefitPrepared, Refit, BeginValidation, EndValidation,
        BeginCheckpoint, Quiesced, EndCheckpoint, Advance
  <2> QED BY <1>1, <2>1 DEF BatchIsOnePerPrompt
<1> QED BY <1>2, <1>3

\* Groups follow reservations, and a prompt its reservation.
LEMMA PromptInvariant == Spec => []PromptInv
<1>1. Init => PromptInv
  BY DEF Init, BufferInit, CollectorInit, LoopAt, PromptInv, MadeWhenReserved, PromptsOnce,
         BatchIsOnePerPrompt, Spawning, BeforeSpawn, Buffered
<1>2. TypeInv /\ TypeInv' /\ VersionInv /\ ArrivalsDistinct /\ PermitInv /\ PromptInv
         /\ [Next]_vars => PromptInv'
  <2> SUFFICES ASSUME TypeInv, TypeInv', VersionInv, ArrivalsDistinct, PermitInv, PromptInv,
                      [Next]_vars
               PROVE  PromptInv'
    OBVIOUS
  <2>1. CASE UNCHANGED vars
    <3>1. UNCHANGED <<loop, workers, trajectories, reservations, phase, failures, batch>>
      BY <2>1 DEF vars, bufferVars, collectorVars, trainerVars
    <3> QED BY <3>1 DEF PromptInv, MadeWhenReserved, PromptsOnce, BatchIsOnePerPrompt,
                        Undisturbed, Buffered, Due, Unpushed, Spawned
  <2>2. CASE Next
    BY <2>2, MadeIsKept, PromptsStayOnce, BatchStaysWhole DEF PromptInv
  <2> QED BY <2>1, <2>2
<1> QED BY <1>1, <1>2, TypeInvariant, VersionInvariant, ArrivalsInvariant, PermitInvariant,
           PTL DEF Spec

\* In an undisturbed history a training step trains on every prompt of one dataloader
\* batch, once (the workers of one reservation, and what sample takes).
THEOREM EveryPromptOnce == Spec => []BatchIsOnePerPrompt
<1>1. PromptInv => BatchIsOnePerPrompt
  BY DEF PromptInv
<1> QED BY <1>1, PromptInvariant, PTL

\* The steps that can be reserved and not yet trained on.
Window == weightVersion..(weightVersion + MaxAge)

\* They hold at most a buffer's worth of groups.
LEMMA WindowFits ==
    ASSUME TypeInv
    PROVE  /\ IsFiniteSet(Window) /\ Cardinality(Window) = MaxAge + 1
           /\ IsFiniteSet(Prompt) /\ Cardinality(Prompt) = NumPrompts
           /\ NumPrompts * (MaxAge + 1) <= MaxSize
<1>1. weightVersion \in Int
  BY WindowTypes
<1>2. IsFiniteSet(Window) /\ Cardinality(Window) = MaxAge + 1
  BY <1>1, FS_Interval DEF Window
<1>3. IsFiniteSet(Prompt) /\ Cardinality(Prompt) = NumPrompts
  BY FS_Interval DEF Prompt
<1>4. NumPrompts * (MaxAge + 1) <= MaxSize
  <2>1. MaxSize = NumPrompts * MaxAge + NumPrompts * MaxAge
    BY DEF MaxSize
  <2>2. NumPrompts * (MaxAge + 1) = NumPrompts * MaxAge + NumPrompts
    OBVIOUS
  <2>3. NumPrompts <= NumPrompts * MaxAge
    OBVIOUS
  <2> DEFINE p == NumPrompts * MaxAge
  <2>4. p \in Nat /\ NumPrompts * (MaxAge + 1) \in Nat
    OBVIOUS
  <2> QED BY <2>1, <2>2, <2>3, <2>4
<1> QED BY <1>2, <1>3, <1>4

\* In an undisturbed history the buffer has room for all that is reserved, so no worker
\* meets a full one (MaxSize of async_grpo_train, push_with_wait_signal).
THEOREM RoomForAll == Spec => []NeverFull
<1>1. TypeInv /\ WindowInv => (Undisturbed =>
         NumPrompts * Cardinality({t \in Target : reservations[t] > 0 /\ ~Consumed(t)})
            <= MaxSize)
  <2> SUFFICES ASSUME TypeInv, WindowInv
               PROVE  NumPrompts * Cardinality({t \in Target : reservations[t] > 0
                                                               /\ ~Consumed(t)})
                         <= MaxSize
    OBVIOUS
  <2> DEFINE R == {t \in Target : reservations[t] > 0 /\ ~Consumed(t)}
  <2>1. R \in SUBSET Window
    BY WindowTypes DEF WindowInv, ReservedInReach, Consumed, Window
  <2>2. IsFiniteSet(Window) /\ Cardinality(Window) = MaxAge + 1
    BY WindowFits
  <2> DEFINE c == Cardinality(R)
  <2> HIDE DEF R
  <2>3. c \in Nat /\ c <= MaxAge + 1
    BY <2>1, <2>2, FS_Subset, FS_CardinalityType
  <2> HIDE DEF c
  <2>4. NumPrompts * c <= NumPrompts * (MaxAge + 1)
    BY <2>3
  <2>5. /\ NumPrompts * c \in Nat /\ NumPrompts * (MaxAge + 1) \in Nat /\ MaxSize \in Nat
        /\ NumPrompts * (MaxAge + 1) <= MaxSize
    BY <2>3, WindowFits DEF MaxSize
  <2>6. NumPrompts * c <= MaxSize
    BY <2>4, <2>5
  <2> QED BY <2>6 DEF c, R
<1>2. TypeInv /\ PermitInv /\ GroupInv /\ Accounted /\ WindowInv /\ PromptInv
         => (Undisturbed => (Generating # {} => ~Full))
  <2> SUFFICES ASSUME TypeInv, PermitInv, GroupInv, Accounted, WindowInv, PromptInv,
                      Undisturbed, NEW w \in Generating
               PROVE  ~Full
    OBVIOUS
  <2>1. w \in workers /\ w \in Unpushed /\ w \in Due(w.target)
    BY DEF Generating, Unpushed, Due
  <2>2. /\ \A g \in trajectories : weightVersion <= g.target
        /\ weightVersion <= w.target
    BY <2>1, OpenIsAhead DEF WindowInv
  <2>3. w.target \in Window
    <3>1. w.target \in Target /\ reservations[w.target] > 0
      BY <2>1, PromptTypes, WindowTypes
      DEF PromptInv, MadeWhenReserved, PermitInv, RoundsReserved
    <3> QED BY <2>2, <3>1, WindowTypes DEF WindowInv, ReservedInReach, Window
  <2>4. ASSUME NEW g \in trajectories PROVE g.target \in Window
    <3>1. g.target \in Target /\ reservations[g.target] > 0
      BY PromptTypes, WindowTypes DEF PromptInv, MadeWhenReserved
    <3> QED BY <2>2, <3>1, WindowTypes DEF WindowInv, ReservedInReach, Window
  <2>5. w.prompt \in Prompt
    BY <2>1 DEF TypeInv, TypeOK, CollectorTypeOK, WorkerRecord
  <2>6. /\ \A g, h \in trajectories : g.target = h.target /\ g.prompt = h.prompt => g = h
        /\ \A g \in trajectories : g.target = w.target => g.prompt # w.prompt
    <3>1. ASSUME NEW t \in Target
          PROVE  /\ \A g, h \in Buffered(t) : g.prompt = h.prompt => g = h
                 /\ \A g \in Buffered(t), v \in Due(t) : g.prompt # v.prompt
      BY DEF PromptInv, PromptsOnce, Undisturbed
    <3>2. \A g \in trajectories : g.target \in Target /\ g \in Buffered(g.target)
      BY PromptTypes DEF Buffered
    <3> QED BY <2>1, <3>1, <3>2 DEF Buffered
  <2> DEFINE place == <<w.target, w.prompt>>
             Places == Window \X Prompt
             f == [g \in trajectories |-> <<g.target, g.prompt>>]
             n == Cardinality(trajectories)
  <2>7. /\ IsFiniteSet(Places) /\ Cardinality(Places) = (MaxAge + 1) * NumPrompts
        /\ place \in Places
    BY <2>3, <2>5, WindowFits, FS_Product, ZenonT(20)
  <2>8. /\ IsFiniteSet(Places \ {place})
        /\ Cardinality(Places \ {place}) = ((MaxAge + 1) * NumPrompts) - 1
    <3> HIDE DEF Places, place
    <3> QED BY <2>7, FS_RemoveElement
  <2>9. f \in Injection(trajectories, Places \ {place})
    <3>1. \A g \in trajectories : f[g] \in Places \ {place}
      BY <2>4, <2>6, PromptTypes
    <3>2. \A g, h \in trajectories : f[g] = f[h] => g = h
      BY <2>6
    <3>3. f \in [trajectories -> Places \ {place}]
      BY <3>1
    <3> HIDE DEF f, Places, place
    <3> QED BY <3>2, <3>3, Fun_IsInj
  <2>10. n \in Nat /\ n <= ((MaxAge + 1) * NumPrompts) - 1
    <3> HIDE DEF f, Places, place
    <3> QED BY <2>8, <2>9, FS_Injection, FS_CardinalityType
  <2>11. n < MaxSize
    <3>1. /\ NumPrompts * (MaxAge + 1) <= MaxSize /\ NumPrompts * (MaxAge + 1) \in Nat
          /\ MaxSize \in Nat /\ (MaxAge + 1) * NumPrompts = NumPrompts * (MaxAge + 1)
      BY WindowFits DEF MaxSize
    <3> DEFINE q == NumPrompts * (MaxAge + 1)
    <3> HIDE DEF n
    <3>2. q \in Nat /\ n \in Nat /\ n <= q - 1 /\ q <= MaxSize
      BY <2>10, <3>1
    <3> HIDE DEF q
    <3> QED BY <3>1, <3>2
  <2> QED BY <2>10, <2>11 DEF Full, MaxSize
<1>3. TypeInv /\ PermitInv /\ GroupInv /\ Accounted /\ WindowInv /\ PromptInv => NeverFull
  BY <1>1, <1>2 DEF NeverFull
<1> QED BY <1>3, TypeInvariant, PermitInvariant, GroupInvariant, AccountedInvariant,
           WindowInvariant, PromptInvariant, PTL
=============================================================================
