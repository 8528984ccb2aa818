-------------------------- MODULE AsyncGRPO_proofs --------------------------
(***************************************************************************)
(* Asynchronous GRPO by itself, for every value of the constants: what     *)
(* sample takes, types, and the threads of the collector.                  *)
(*                                                                         *)
(* TypeOK alone is not inductive: weight_version grows in a refit without  *)
(* looking at max_num_steps, a worker takes the index of its prompt from   *)
(* the loop, and the main thread answers the first call of its mailbox.    *)
(* TypeInv adds why none of these leaves its range.                        *)
(*                                                                         *)
(* The collector's counts: no permit of _inflight_sema is leaked or        *)
(* doubled, and while nothing fails no group is lost or made twice.  A     *)
(* step that changes the set of workers must not merge two of them; it     *)
(* does not, for a worker is known by its target, the reservation of that  *)
(* target it belongs to, and its prompt.                                   *)
(* What it knows of the weights: it lags by one version at most, because   *)
(* prepare_for_refit is waited for and the actor answers calls in order;   *)
(* and while the weights are replaced at most one rollout starts, because  *)
(* the loop meets the pause at its next prompt.                            *)
(***************************************************************************)
EXTENDS AsyncGRPOProperties, Counting, SequenceTheorems

-----------------------------------------------------------------------------
(* sample *)

\* The groups of one target arrived one after the other, and the history knows
\* how many there were.
ArrivalsDistinct ==
    /\ \A g \in trajectories : g.arrival < pushes[g.target]
    /\ \A g, h \in trajectories :
          g.target = h.target /\ g.arrival = h.arrival => g = h

\* A sample that answers takes exactly NumPrompts groups, all made for the step
\* that asks and none of them outside its age window.
LEMMA SelectedIsABatch ==
    ASSUME BufferTypeOK, ArrivalsDistinct, NEW now \in Version, Sampleable(now)
    PROVE  /\ IsFiniteSet(Selected(now)) /\ Cardinality(Selected(now)) = NumPrompts
           /\ \A g \in Selected(now) :
                 /\ g \in trajectories /\ g.target = now
                 /\ now - MaxAge <= g.version /\ g.version <= now
<1> DEFINE I == Intended(now)
           key == [g \in I |-> g.arrival]
<1>1. I \subseteq trajectories /\ IsFiniteSet(I)
  BY FS_Subset DEF Intended, Valid, BufferTypeOK
<1>2. key \in [I -> Int]
  BY <1>1 DEF BufferTypeOK, Group
<1>3. \A g, h \in I : key[g] = key[h] => g = h
  BY <1>1 DEF ArrivalsDistinct, Intended
<1>4. NumPrompts \in Nat /\ NumPrompts <= Cardinality(I)
  BY NumPromptsAssumption, FS_CardinalityType, <1>1 DEF Sampleable
<1>5. Selected(now) = {g \in I : Ranking(I, key)[g] < NumPrompts}
  <2>1. \A g \in I : Below(I, key, g) = {h \in I : h.arrival < g.arrival}
    BY DEF Below
  <2> QED BY <2>1 DEF Selected, Ranking
<1>6. Selected(now) \subseteq I
  BY DEF Selected
<1>7. \A g \in I : /\ g \in trajectories /\ g.target = now
                  /\ now - MaxAge <= g.version /\ g.version <= now
  BY MaxAgeAssumption, StepsAssumption
  DEF Intended, Valid, MinValidVersion, Version, BufferTypeOK, Group
<1> HIDE DEF I, key
<1>8. IsFiniteSet(Selected(now)) /\ Cardinality(Selected(now)) = NumPrompts
  BY <1>1, <1>2, <1>3, <1>4, <1>5, FirstOfRank
<1> QED BY <1>6, <1>7, <1>8

-----------------------------------------------------------------------------
(* Types. *)

\* The trainer is ahead of its step counter exactly between a refit and the end
\* of the step, and neither runs past max_num_steps.
StepsInPhase ==
    /\ phase \in {"start", "initialRefit", "initialValidation", "fillBuffer",
                  "sample", "train", "prepareRefit", "refit"}
           => weightVersion = step /\ step < MaxNumSteps
    /\ phase \in {"validate", "validating", "checkpoint", "quiesce", "saving",
                  "advance"}
           => weightVersion = step + 1 /\ step < MaxNumSteps

\* The loop is between the check of a prompt's index and the end of its turn.
BeforeSpawn == {"promptRefitPause", "rereadVersion", "acquire", "start"}
PromptInBatch == loop.pc \in BeforeSpawn => loop.prompt < NumPrompts

\* The main thread is inside a call only while that call is unanswered.
BusyOnACall == mainPc # "idle" => mailbox # << >>

TypeInv == TypeOK /\ StepsInPhase /\ PromptInBatch /\ BusyOnACall

\* Every version is a target, and the prompts of a batch are numbered from 0.
LEMMA Ranges ==
    /\ Version \subseteq Target /\ StartStep \in Version
    /\ 0 \in Prompt /\ 0 \in 0..NumPrompts
    /\ \A v \in Version : v \in Int
    /\ \A t \in Target : t \in Int
BY StepsAssumption, MaxAgeAssumption, NumPromptsAssumption DEF Version, Target, Prompt

\* A finite set of targets has its Min in it.
LEMMA MinIsMember ==
    ASSUME NEW S \in SUBSET Target, S # {}
    PROVE  Min(S) \in S
<1>1. IsFiniteSet(Target) /\ Target \subseteq Int
  BY FS_Interval, StepsAssumption, MaxAgeAssumption DEF Target
<1>2. IsFiniteSet(S) /\ S \subseteq Int
  BY <1>1, FS_Subset
<1>3. \E x \in S : \A y \in S : x <= y
  BY <1>2, SmallestExists
<1> QED BY <1>3 DEF Min

\* The targets calculated for a version are targets.
LEMMA CalculatedAreTargets ==
    ASSUME NEW v \in Version
    PROVE  CalculateTargetWeights(v) \subseteq Target
BY StepsAssumption, MaxAgeAssumption DEF CalculateTargetWeights, Version, Target

\* Forgetting the finished threads leaves a finite set of worker records.
LEMMA FinishedThreadsRemovedType ==
    ASSUME workers \subseteq WorkerRecord, IsFiniteSet(workers)
    PROVE  FinishedThreadsRemoved \subseteq WorkerRecord /\ IsFiniteSet(FinishedThreadsRemoved)
<1> DEFINE f == [w \in workers |-> IF w.pc = "created" THEN [w EXCEPT !.tracked = FALSE] ELSE w]
<1>1. f \in [workers -> WorkerRecord]
  BY DEF WorkerRecord
<1>2. FinishedThreadsRemoved = {f[w] : w \in workers}
  BY DEF FinishedThreadsRemoved
<1> HIDE DEF f
<1>3. IsFiniteSet(FinishedThreadsRemoved)
  BY <1>1, <1>2, FiniteImage
<1> QED BY <1>1, <1>2, <1>3

\* A worker that moves on leaves a finite set of worker records.
LEMMA MovesType ==
    ASSUME workers \subseteq WorkerRecord, IsFiniteSet(workers),
           NEW w \in workers, NEW pc \in WorkerPC, Moves(w, pc)
    PROVE  workers' \subseteq WorkerRecord /\ IsFiniteSet(workers')
<1>1. [w EXCEPT !.pc = pc] \in WorkerRecord
  BY DEF WorkerRecord
<1>2. IsFiniteSet(workers \ {w})
  BY FS_RemoveElement
<1> QED BY <1>1, <1>2, FS_AddElement DEF Moves

\* A remote call is a call.
LEMMA CallsAreCalls ==
    ASSUME NEW m \in Method, NEW v \in Version
    PROVE  CallOf(m, v) \in Call
BY DEF CallOf, Call

\* Answering the first call in the mailbox leaves calls.
LEMMA ReturnType ==
    ASSUME mailbox \in Seq(Call), mailbox # << >>, Return
    PROVE  mailbox' \in Seq(Call) /\ mainPc' \in MainPC
BY HeadTailProperties DEF Return, MainPC

\* Where the loop may go: its record keeps its types, and the index of the prompt
\* stays below NumPrompts where it has to.
LEMMA LoopRecords ==
    ASSUME loop \in LoopRecord, NEW pc \in LoopPC,
           \/ loop' = LoopAt(pc) /\ pc \notin BeforeSpawn
           \/ /\ pc \in BeforeSpawn => loop.prompt < NumPrompts
              /\ \/ loop' = [loop EXCEPT !.pc = pc]
                 \/ \E v \in Version : loop' = [loop EXCEPT !.pc = pc, !.version = v]
                 \/ \E t \in Target \cup {-1} : loop' = [loop EXCEPT !.pc = pc, !.last = t]
                 \/ \E t \in Target :
                       loop' = [loop EXCEPT !.pc = pc, !.target = t, !.last = -1]
    PROVE  loop' \in LoopRecord /\ PromptInBatch'
<1>1. CASE loop' = LoopAt(pc) /\ pc \notin BeforeSpawn
  <2>1. StartStep \in Version /\ StartStep \in Target /\ 0 \in 0..NumPrompts
    BY Ranges, Zenon
  <2> QED BY <1>1, <2>1 DEF LoopRecord, LoopAt, PromptInBatch
<1>2. CASE (pc \in BeforeSpawn => loop.prompt < NumPrompts) /\ loop' = [loop EXCEPT !.pc = pc]
  BY <1>2 DEF LoopRecord, PromptInBatch
<1>3. ASSUME pc \in BeforeSpawn => loop.prompt < NumPrompts, NEW v \in Version,
             loop' = [loop EXCEPT !.pc = pc, !.version = v]
      PROVE  loop' \in LoopRecord /\ PromptInBatch'
  BY <1>3 DEF LoopRecord, PromptInBatch
<1>4. ASSUME pc \in BeforeSpawn => loop.prompt < NumPrompts, NEW t \in Target \cup {-1},
             loop' = [loop EXCEPT !.pc = pc, !.last = t]
      PROVE  loop' \in LoopRecord /\ PromptInBatch'
  BY <1>4 DEF LoopRecord, PromptInBatch
<1>5. ASSUME pc \in BeforeSpawn => loop.prompt < NumPrompts, NEW t \in Target,
             loop' = [loop EXCEPT !.pc = pc, !.target = t, !.last = -1]
      PROVE  loop' \in LoopRecord /\ PromptInBatch'
  BY <1>5 DEF LoopRecord, PromptInBatch
<1> QED BY <1>1, <1>2, <1>3, <1>4, <1>5

\* The main thread keeps the types.
LEMMA MainThreadType ==
    ASSUME TypeInv, Collector, MainThread
    PROVE  TypeInv'
<1>1. CASE StartCollection
  <2>1. loop' \in LoopRecord /\ PromptInBatch'
    BY <1>1, LoopRecords
    DEF StartCollection, Goto, LoopPC, BeforeSpawn, TypeInv, TypeOK, CollectorTypeOK
  <2> QED BY <1>1, <2>1, ReturnType
      DEF StartCollection, Return, TypeInv, TypeOK, BufferTypeOK, CollectorTypeOK,
          StepsInPhase, BusyOnACall, Collector, Called, bufferVars, pauseVars, trainerVars
<1> USE DEF TypeInv, TypeOK, BufferTypeOK, CollectorTypeOK, StepsInPhase, PromptInBatch,
            BusyOnACall, Collector, Called, Goto, bufferVars, pauseVars, trainerVars
<1>2. CASE SetWeightVersion
  <2>1. Head(mailbox) \in Call
    BY <1>2, HeadTailProperties DEF SetWeightVersion
  <2> QED BY <1>2, <2>1 DEF SetWeightVersion, Call, MainPC
<1>3. CASE WakeLoop \/ Pause \/ Resume \/ ResumeAfterRefit
  <2>1. Return /\ mailbox # << >>
    BY <1>3 DEF WakeLoop, Pause, Resume, ResumeAfterRefit
  <2> QED BY <1>3, <2>1, ReturnType DEF WakeLoop, Pause, Resume, ResumeAfterRefit, Return
<1>4. CASE PrepareForRefit
  BY <1>4, ReturnType DEF PrepareForRefit, Return, MainPC
<1>5. CASE WaitForPendingGenerations
  BY <1>5 DEF WaitForPendingGenerations, MainPC
<1>6. CASE PollPending
  <2>1. workers' \subseteq WorkerRecord /\ IsFiniteSet(workers')
    BY <1>6, FinishedThreadsRemovedType DEF PollPending
  <2> QED BY <1>6, <2>1, ReturnType DEF PollPending, Return, MainPC
<1> QED BY <1>1, <1>2, <1>3, <1>4, <1>5, <1>6 DEF MainThread

\* A step of the loop keeps the types when it keeps those of what it may change.
LEMMA LoopFrame ==
    ASSUME TypeInv, UNCHANGED <<mainVars, bufferVars, trainerVars, manualCleared,
                                refitCleared>>,
           loop' \in LoopRecord, PromptInBatch',
           limitCleared' \in BOOLEAN, lastLimitWarning' \in Version \cup {-1},
           generating' \subseteq Target, sema' \in Nat,
           workers' \subseteq WorkerRecord, IsFiniteSet(workers'),
           reservations' \in [Target -> Nat], failures' \in 0..MaxFailures
    PROVE  TypeInv'
BY DEF TypeInv, TypeOK, BufferTypeOK, CollectorTypeOK, StepsInPhase, BusyOnACall,
       mainVars, bufferVars, trainerVars

\* The collection thread keeps the types.
LEMMA LoopType ==
    ASSUME TypeInv, Collector, CollectionLoop \/ DataloaderFails
    PROVE  TypeInv'
<1>1. /\ loop \in LoopRecord /\ PromptInBatch /\ current \in Version
      /\ lastTarget \in Target \cup {-1} /\ generating \subseteq Target
      /\ lastLimitWarning \in Version \cup {-1} /\ limitCleared \in BOOLEAN
      /\ sema \in Nat /\ workers \subseteq WorkerRecord /\ IsFiniteSet(workers)
      /\ reservations \in [Target -> Nat] /\ failures \in 0..MaxFailures
  BY DEF TypeInv, TypeOK, BufferTypeOK, CollectorTypeOK
<1>2. UNCHANGED trainerVars
  BY DEF Collector
<1>3. CASE DataloaderFails
  <2>1. loop' \in LoopRecord /\ PromptInBatch'
    BY <1>1, <1>3, LoopRecords DEF DataloaderFails, LoopPC, BeforeSpawn
  <2>2. failures' \in 0..MaxFailures
    BY <1>1, <1>3, FailuresAssumption DEF DataloaderFails
  <2> QED BY <1>1, <1>2, <1>3, <2>1, <2>2, LoopFrame DEF DataloaderFails, pauseVars
<1>4. CASE AwaitManualPause \/ AwaitRefitPause \/ ReadVersion \/ ReadLast \/ CheckLimit
           \/ WarnOncePerVersion \/ NoteWarning \/ ClearLimitEvent \/ AwaitLimitCleared \/ BeginBatch
           \/ ReadLastForTarget \/ DropBatch
  <2>1. loop' \in LoopRecord /\ PromptInBatch'
    <3> USE DEF LoopPC, BeforeSpawn
    <3>1. CASE AwaitManualPause \/ AwaitRefitPause
      BY <1>1, <3>1, LoopRecords DEF AwaitManualPause, AwaitRefitPause, Goto
    <3>2. CASE ReadVersion \/ BeginBatch
      BY <1>1, <3>2, LoopRecords DEF ReadVersion, BeginBatch
    <3>3. CASE ReadLast \/ ReadLastForTarget
      BY <1>1, <3>3, LoopRecords DEF ReadLast, ReadLastForTarget
    <3>4. CASE CheckLimit \/ DropBatch
      BY <1>1, <3>4, LoopRecords DEF CheckLimit, DropBatch
    <3>5. CASE WarnOncePerVersion \/ NoteWarning \/ ClearLimitEvent \/ AwaitLimitCleared
      BY <1>1, <3>5, LoopRecords
         DEF WarnOncePerVersion, NoteWarning, ClearLimitEvent, AwaitLimitCleared, Goto
    <3> QED BY <1>4, <3>1, <3>2, <3>3, <3>4, <3>5
  <2>2. /\ limitCleared' \in BOOLEAN /\ lastLimitWarning' \in Version \cup {-1}
        /\ UNCHANGED <<loopUnchanged, manualCleared, refitCleared, generating, reservations>>
    BY <1>1, <1>4
    DEF AwaitManualPause, AwaitRefitPause, ReadVersion, ReadLast, CheckLimit,
        WarnOncePerVersion, NoteWarning, ClearLimitEvent, AwaitLimitCleared, BeginBatch,
        ReadLastForTarget, DropBatch, pauseVars
  <2> QED BY <1>1, <1>2, <2>1, <2>2, LoopFrame DEF loopUnchanged
<1>5. CASE ReserveTarget
  <2> DEFINE need == NeedGeneration(loop.version, loop.last)
             target == Min(need)
  <2>1. need \subseteq Target
    BY <1>1, CalculatedAreTargets DEF NeedGeneration, LoopRecord
  <2>2. target \in Target
    BY <1>5, <2>1, MinIsMember DEF ReserveTarget
  <2>3. /\ generating' = generating \cup {target}
        /\ reservations' = [reservations EXCEPT ![target] = @ + 1]
        /\ loop' = [loop EXCEPT !.pc = "nextPrompt", !.target = target, !.last = -1]
        /\ UNCHANGED <<loopUnchanged, pauseVars, lastLimitWarning>>
    BY <1>5 DEF ReserveTarget
  <2> HIDE DEF target, need
  <2>4. loop' \in LoopRecord /\ PromptInBatch'
    BY <1>1, <2>2, <2>3, LoopRecords DEF LoopPC, BeforeSpawn
  <2>5. reservations' \in [Target -> Nat]
    BY <1>1, <2>2, <2>3
  <2> QED BY <1>1, <1>2, <2>2, <2>3, <2>4, <2>5, LoopFrame DEF loopUnchanged, pauseVars
<1>6. CASE NextPrompt \/ AwaitPromptRefitPause \/ RereadVersion
  <2>1. loop' \in LoopRecord /\ PromptInBatch'
    <3> USE DEF LoopPC, BeforeSpawn
    <3>1. CASE NextPrompt
      BY <1>1, <3>1, LoopRecords DEF NextPrompt, Goto
    <3>2. CASE AwaitPromptRefitPause
      BY <1>1, <3>2, LoopRecords DEF AwaitPromptRefitPause, Goto, PromptInBatch
    <3>3. CASE RereadVersion
      BY <1>1, <3>3, LoopRecords DEF RereadVersion, PromptInBatch
    <3> QED BY <1>6, <3>1, <3>2, <3>3
  <2> QED BY <1>1, <1>2, <1>6, <2>1, LoopFrame
      DEF NextPrompt, AwaitPromptRefitPause, RereadVersion, loopUnchanged, pauseVars
<1>7. CASE AcquireAndTrack
  <2> DEFINE new == [target |-> loop.target, round |-> reservations[loop.target],
                     prompt |-> loop.prompt, version |-> loop.version,
                     pc |-> "created", tracked |-> TRUE]
  <2>1. new \in WorkerRecord
    BY <1>1, <1>7, NumPromptsAssumption
    DEF AcquireAndTrack, LoopRecord, WorkerRecord, WorkerPC, Prompt, PromptInBatch,
        BeforeSpawn
  <2>2. workers' = workers \cup {new} /\ sema' \in Nat
    BY <1>1, <1>7 DEF AcquireAndTrack
  <2> HIDE DEF new
  <2>3. workers' \subseteq WorkerRecord /\ IsFiniteSet(workers')
    BY <1>1, <2>1, <2>2, FS_AddElement
  <2>4. loop' \in LoopRecord /\ PromptInBatch'
    BY <1>1, <1>7, LoopRecords
    DEF AcquireAndTrack, Goto, LoopPC, BeforeSpawn, PromptInBatch
  <2> QED BY <1>1, <1>2, <1>7, <2>2, <2>3, <2>4, LoopFrame DEF AcquireAndTrack, pauseVars
<1>8. CASE StartThread
  <2> DEFINE f == [w \in workers |-> IF w.pc = "created" THEN [w EXCEPT !.pc = "rollout"]
                                                         ELSE w]
  <2>1. f \in [workers -> WorkerRecord]
    BY <1>1 DEF WorkerRecord, WorkerPC
  <2>2. workers' = {f[w] : w \in workers}
    BY <1>8 DEF StartThread
  <2> HIDE DEF f
  <2>3. workers' \subseteq WorkerRecord /\ IsFiniteSet(workers')
    <3>1. IsFiniteSet({f[w] : w \in workers})
      BY <1>1, <2>1, FiniteImage
    <3> QED BY <2>1, <2>2, <3>1
  <2>4. loop.prompt + 1 \in 0..NumPrompts
    BY <1>1, <1>8, NumPromptsAssumption DEF StartThread, LoopRecord, BeforeSpawn, PromptInBatch
  <2>5. loop' = [loop EXCEPT !.pc = "nextPrompt", !.prompt = loop.prompt + 1]
    BY <1>1, <1>8 DEF StartThread, LoopRecord
  <2>6. loop' \in LoopRecord /\ PromptInBatch'
    BY <1>1, <2>4, <2>5 DEF LoopPC, LoopRecord, BeforeSpawn, PromptInBatch
  <2> QED BY <1>1, <1>2, <1>8, <2>3, <2>6, LoopFrame DEF StartThread, pauseVars
<1>9. CASE EndBatch
  <2>1. workers' \subseteq WorkerRecord /\ IsFiniteSet(workers')
    BY <1>1, <1>9, FinishedThreadsRemovedType DEF EndBatch
  <2>2. loop' \in LoopRecord /\ PromptInBatch'
    BY <1>1, <1>9, LoopRecords DEF EndBatch, LoopPC, BeforeSpawn
  <2> QED BY <1>1, <1>2, <1>9, <2>1, <2>2, LoopFrame DEF EndBatch, pauseVars
<1> QED BY <1>3, <1>4, <1>5, <1>6, <1>7, <1>8, <1>9 DEF CollectionLoop

\* A step of a worker keeps the types when it keeps those of what it may change.
LEMMA WorkerFrame ==
    ASSUME TypeInv, UNCHANGED <<workerUnchanged, trainerVars>>, BufferTypeOK',
           generating' \subseteq Target, sema' \in Nat,
           workers' \subseteq WorkerRecord, IsFiniteSet(workers'),
           failures' \in 0..MaxFailures
    PROVE  TypeInv'
BY DEF TypeInv, TypeOK, CollectorTypeOK, StepsInPhase, BusyOnACall, PromptInBatch,
       workerUnchanged, mainVars, pauseVars, trainerVars

\* What push_with_wait_signal adds is a group of its target.
LEMMA PushType ==
    ASSUME BufferTypeOK, NEW v \in Version, NEW t \in Target, NEW p \in Prompt,
           Push(v, t, p)
    PROVE  BufferTypeOK'
<1> DEFINE g == [target |-> t, arrival |-> pushes[t], version |-> v, prompt |-> p]
<1>1. g \in Group
  BY DEF Group, BufferTypeOK
<1>2. trajectories' = trajectories \cup {g}
  BY DEF Push
<1> HIDE DEF g
<1>3. trajectories' \subseteq Group /\ IsFiniteSet(trajectories')
  BY <1>1, <1>2, FS_AddElement DEF BufferTypeOK
<1>4. lastTarget' \in Target \cup {-1} /\ pushes' \in [Target -> Nat]
  BY DEF Push, BufferTypeOK
<1> QED BY <1>3, <1>4 DEF BufferTypeOK

\* A worker thread keeps the types.
LEMMA WorkerType ==
    ASSUME TypeInv, Collector, NEW w \in workers, WorkerSteps(w) \/ RolloutFails(w)
    PROVE  TypeInv'
<1>1. /\ BufferTypeOK /\ generating \subseteq Target /\ sema \in Nat
      /\ workers \subseteq WorkerRecord /\ IsFiniteSet(workers) /\ failures \in 0..MaxFailures
      /\ w.version \in Version /\ w.target \in Target /\ w.prompt \in Prompt
  BY DEF TypeInv, TypeOK, CollectorTypeOK, WorkerRecord
<1>2. UNCHANGED trainerVars
  BY DEF Collector
<1>3. ASSUME NEW pc \in WorkerPC, Moves(w, pc)
      PROVE  workers' \subseteq WorkerRecord /\ IsFiniteSet(workers')
  BY <1>1, <1>3, MovesType
<1>4. ASSUME UNCHANGED bufferVars PROVE BufferTypeOK'
  BY <1>1, <1>4 DEF BufferTypeOK, bufferVars
<1>5. CASE PushAbandoned(w) \/ ReleaseFirst(w) \/ EmergencyCleanup(w)
  <2>1. workers' \subseteq WorkerRecord /\ IsFiniteSet(workers')
    BY <1>3, <1>5
    DEF PushAbandoned, ReleaseFirst, EmergencyCleanup, WorkerPC
  <2> QED BY <1>1, <1>2, <1>4, <1>5, <2>1, WorkerFrame
      DEF PushAbandoned, ReleaseFirst, EmergencyCleanup
<1>6. CASE RolloutFails(w)
  <2>1. workers' \subseteq WorkerRecord /\ IsFiniteSet(workers')
    BY <1>3, <1>6 DEF RolloutFails, WorkerPC
  <2>2. failures' \in 0..MaxFailures
    BY <1>1, <1>6, FailuresAssumption DEF RolloutFails
  <2> QED BY <1>1, <1>2, <1>4, <1>6, <2>1, <2>2, WorkerFrame DEF RolloutFails
<1>7. CASE PushGroup(w)
  <2>1. workers' \subseteq WorkerRecord /\ IsFiniteSet(workers')
    BY <1>3, <1>7 DEF PushGroup, WorkerPC
  <2>2. BufferTypeOK'
    BY <1>1, <1>7, PushType DEF PushGroup
  <2> QED BY <1>1, <1>2, <1>7, <2>1, <2>2, WorkerFrame DEF PushGroup
<1>8. CASE PushFull(w)
  BY <1>1, <1>2, <1>4, <1>8, WorkerFrame
  DEF PushFull, collectorVars, workerUnchanged, mainVars, pauseVars
<1>9. CASE DetachAndRelease(w)
  <2>1. workers' \subseteq WorkerRecord /\ IsFiniteSet(workers')
    BY <1>1, <1>9, FS_RemoveElement DEF DetachAndRelease
  <2> QED BY <1>1, <1>2, <1>4, <1>9, <2>1, WorkerFrame DEF DetachAndRelease
<1> QED BY <1>5, <1>6, <1>7, <1>8, <1>9 DEF WorkerSteps

\* Appending one or two calls leaves calls, and a mailbox that is not empty.
LEMMA SendType ==
    ASSUME mailbox \in Seq(Call),
           \/ \E c \in Call : Send(<<c>>)
           \/ \E c, d \in Call : Send(<<c, d>>)
    PROVE  mailbox' \in Seq(Call) /\ mailbox' # << >>
<1>1. ASSUME NEW c \in Call, Send(<<c>>)
      PROVE  mailbox' \in Seq(Call) /\ mailbox' # << >>
  <2>1. <<c>> \in Seq(Call) /\ <<c>> # << >>
    OBVIOUS
  <2> HIDE DEF CallOf
  <2> QED BY <1>1, <2>1, ConcatProperties, ConcatEqualIffEmpty DEF Send
<1>2. ASSUME NEW c \in Call, NEW d \in Call, Send(<<c, d>>)
      PROVE  mailbox' \in Seq(Call) /\ mailbox' # << >>
  <2>1. <<c, d>> \in Seq(Call) /\ <<c, d>> # << >>
    OBVIOUS
  <2> QED BY <1>2, <2>1, ConcatProperties, ConcatEqualIffEmpty DEF Send
<1> QED BY <1>1, <1>2

\* A step of the trainer keeps the types when it keeps those of what it may change.
LEMMA TrainerFrame ==
    ASSUME TypeInv, UNCHANGED <<actorsUnchanged>>,
           \/ UNCHANGED mailbox
           \/ mailbox' \in Seq(Call) /\ mailbox' # << >>,
           phase' \in Phase, step' \in StartStep..MaxNumSteps, weightVersion' \in Version,
           batch' \subseteq Group, timedOut' \in BOOLEAN, StepsInPhase'
    PROVE  TypeInv'
BY DEF TypeInv, TypeOK, BufferTypeOK, CollectorTypeOK, BusyOnACall, PromptInBatch,
       actorsUnchanged, bufferVars, pauseVars

\* The trainer keeps the types.
LEMMA TrainerType ==
    ASSUME TypeInv, Trainer
    PROVE  TypeInv'
<1>1. /\ phase \in Phase /\ step \in StartStep..MaxNumSteps /\ weightVersion \in Version
      /\ batch \subseteq Group /\ timedOut \in BOOLEAN /\ StepsInPhase
      /\ mailbox \in Seq(Call) /\ BufferTypeOK
  BY DEF TypeInv, TypeOK, CollectorTypeOK
<1>2. \A m \in Method, v \in Version : CallOf(m, v) \in Call
  BY CallsAreCalls
<1>3. StartStep \in Version
  BY Ranges
<1>4. ASSUME NEW m \in Method, SendPlain(m)
      PROVE  mailbox' \in Seq(Call) /\ mailbox' # << >>
  BY <1>1, <1>2, <1>3, <1>4, SendType DEF SendPlain
<1>5. CASE StartUp
  <2>1. mailbox' \in Seq(Call) /\ mailbox' # << >>
    BY <1>1, <1>2, <1>3, <1>5, SendType DEF StartUp, Method
  <2> QED BY <1>1, <1>5, <2>1, TrainerFrame DEF StartUp, Phase, StepsInPhase
<1>6. CASE InitialRefit
  <2>1. UNCHANGED mailbox \/ (mailbox' \in Seq(Call) /\ mailbox' # << >>)
    BY <1>4, <1>6 DEF InitialRefit, Method
  <2> QED BY <1>1, <1>6, <2>1, TrainerFrame DEF InitialRefit, Phase, StepsInPhase
<1>7. CASE InitialValidation
  <2>1. mailbox' \in Seq(Call) /\ mailbox' # << >>
    BY <1>4, <1>7 DEF InitialValidation, Method
  <2> QED BY <1>1, <1>7, <2>1, TrainerFrame DEF InitialValidation, Phase, StepsInPhase
<1>8. CASE FillBuffer \/ RefitPrepared \/ Quiesced
  BY <1>1, <1>8, TrainerFrame DEF FillBuffer, RefitPrepared, Quiesced, Phase, StepsInPhase
<1>9. CASE BufferNotFilled \/ SampleNone
  BY <1>1, <1>9, TrainerFrame
  DEF BufferNotFilled, SampleNone, vars, collectorVars, trainerVars, actorsUnchanged,
      pauseVars, StepsInPhase
<1>10. CASE SampleBatch
  <2>1. Selected(weightVersion) \subseteq trajectories
    BY DEF Selected, Intended, Valid
  <2>2. BufferTypeOK'
    BY <1>1, <1>10, FS_Subset DEF SampleBatch, Sample, BufferTypeOK
  <2>3. batch' \subseteq Group
    BY <1>1, <1>10, <2>1 DEF SampleBatch, BufferTypeOK
  <2>4. phase' \in Phase /\ StepsInPhase'
    BY <1>1, <1>10 DEF SampleBatch, Phase, StepsInPhase
  <2> QED BY <1>10, <2>2, <2>3, <2>4
      DEF SampleBatch, TypeInv, TypeOK, CollectorTypeOK, BusyOnACall, PromptInBatch,
          collectorVars
<1>11. CASE SampleRaises
  BY <1>1, <1>11, TrainerFrame
  DEF SampleRaises, collectorVars, actorsUnchanged, pauseVars, Phase, StepsInPhase
<1>12. CASE Train
  <2>1. mailbox' \in Seq(Call) /\ mailbox' # << >>
    BY <1>4, <1>12 DEF Train, Method
  <2> QED BY <1>1, <1>12, <2>1, TrainerFrame DEF Train, Phase, StepsInPhase
<1>13. CASE Refit
  <2>1. weightVersion + 1 \in Version
    BY <1>1, <1>13, StepsAssumption DEF Refit, StepsInPhase, Version
  <2>2. mailbox' \in Seq(Call) /\ mailbox' # << >>
    BY <1>1, <1>2, <1>3, <1>13, <2>1, SendType DEF Refit, Method
  <2> QED BY <1>1, <1>13, <2>1, <2>2, TrainerFrame DEF Refit, Phase, StepsInPhase
<1>14. CASE BeginValidation
  <2>1. UNCHANGED mailbox \/ (mailbox' \in Seq(Call) /\ mailbox' # << >>)
    BY <1>4, <1>14 DEF BeginValidation, Method
  <2> QED BY <1>1, <1>14, <2>1, TrainerFrame DEF BeginValidation, Phase, StepsInPhase
<1>15. CASE EndValidation \/ EndCheckpoint
  <2>1. mailbox' \in Seq(Call) /\ mailbox' # << >>
    BY <1>4, <1>15 DEF EndValidation, EndCheckpoint, Method
  <2> QED BY <1>1, <1>15, <2>1, TrainerFrame
      DEF EndValidation, EndCheckpoint, Phase, StepsInPhase
<1>16. CASE BeginCheckpoint
  <2>1. UNCHANGED mailbox \/ (mailbox' \in Seq(Call) /\ mailbox' # << >>)
    BY <1>1, <1>2, <1>3, <1>16, SendType DEF BeginCheckpoint, Method
  <2>2. timedOut' \in BOOLEAN
    BY <1>16 DEF BeginCheckpoint
  <2> QED BY <1>1, <1>16, <2>1, <2>2, TrainerFrame DEF BeginCheckpoint, Phase, StepsInPhase
<1>17. CASE Advance
  <2>1. step' \in StartStep..MaxNumSteps /\ StepsInPhase' /\ phase' \in Phase
    BY <1>1, <1>17, StepsAssumption DEF Advance, Phase, StepsInPhase, Version
  <2> QED BY <1>1, <1>17, <2>1, TrainerFrame DEF Advance
<1> QED BY <1>5, <1>6, <1>7, <1>8, <1>9, <1>10, <1>11, <1>12, <1>13, <1>14, <1>15, <1>16,
           <1>17 DEF Trainer

\* The inductive strengthening of TypeOK.
LEMMA TypeInvariant == Spec => []TypeInv
<1>1. Init => TypeInv
  <2> SUFFICES ASSUME Init PROVE TypeInv
    OBVIOUS
  <2>1. BufferTypeOK
    BY FS_EmptySet DEF Init, BufferInit, BufferTypeOK
  <2>2. loop \in LoopRecord /\ PromptInBatch
    BY Ranges DEF Init, CollectorInit, LoopAt, LoopRecord, LoopPC, PromptInBatch, BeforeSpawn
  <2>3. CollectorTypeOK
    <3>1. MaxInflight \in Nat
      BY NumPromptsAssumption, MaxAgeAssumption DEF MaxInflight
    <3> QED BY <2>2, <3>1, Ranges, FS_EmptySet, NumPromptsAssumption, MaxAgeAssumption,
               StepsAssumption, FailuresAssumption
        DEF Init, CollectorInit, CollectorTypeOK, MainPC
  <2>4. step \in StartStep..MaxNumSteps /\ weightVersion \in Version /\ StepsInPhase
    BY StepsAssumption DEF Init, StepsInPhase, Version
  <2>5. phase \in Phase /\ batch \subseteq Group
    BY DEF Init, Phase
  <2>6. timedOut \in BOOLEAN
    BY DEF Init
  <2>7. BusyOnACall
    BY DEF Init, CollectorInit, BusyOnACall
  <2> QED BY <2>1, <2>2, <2>3, <2>4, <2>5, <2>6, <2>7 DEF TypeInv, TypeOK
<1>2. TypeInv /\ [Next]_vars => TypeInv'
  <2> SUFFICES ASSUME TypeInv, [Next]_vars PROVE TypeInv'
    OBVIOUS
  <2>1. CASE Trainer
    BY <2>1, TrainerType
  <2>2. CASE Collector
    BY <2>2, MainThreadType, LoopType, WorkerType DEF Collector, CollectorNext
  <2>3. CASE UNCHANGED vars
    BY <2>3
    DEF vars, bufferVars, collectorVars, trainerVars, TypeInv, TypeOK, BufferTypeOK,
        CollectorTypeOK, StepsInPhase, BusyOnACall, PromptInBatch
  <2>4. CASE TrainerRaises
    <3>1. failures' \in 0..MaxFailures
      BY <2>4, FailuresAssumption DEF TrainerRaises, TypeInv, TypeOK, CollectorTypeOK
    <3>2. phase' \in Phase /\ StepsInPhase'
      BY <2>4 DEF TrainerRaises, Phase, StepsInPhase
    <3> QED BY <2>4, <3>1, <3>2
        DEF TrainerRaises, mainVars, pauseVars, bufferVars, TypeInv, TypeOK, BufferTypeOK,
            CollectorTypeOK, BusyOnACall, PromptInBatch
  <2> QED BY <2>1, <2>2, <2>3, <2>4 DEF Next, Terminated
<1> QED BY <1>1, <1>2, PTL DEF Spec

\* TypeOK holds in every reachable state, for every number of prompts, every age
\* window, every range of steps and every bound on failures: no counter, target,
\* version or prompt index of async_grpo_train and its actors leaves its range.
THEOREM TypeCorrect == Spec => []TypeOK
<1>1. TypeInv => TypeOK
  BY DEF TypeInv
<1> QED BY <1>1, TypeInvariant, PTL

-----------------------------------------------------------------------------
(* Permits: the semaphore counts down once per worker the loop creates and *)
(* up once per worker that is over.                                        *)

SameWorker(v, w) == v.target = w.target /\ v.round = w.round /\ v.prompt = w.prompt

\* Different workers are different in target, reservation or prompt.
WorkersDistinct == \A v, w \in workers : SameWorker(v, w) => v = w

\* A worker belongs to a reservation that was made.
RoundsReserved == \A w \in workers : w.round <= reservations[w.target]

\* The prompts of the reservation the loop works on that have workers by now.
Spawning == BeforeSpawn \cup {"nextPrompt"}
Spawned == IF loop.pc = "start" THEN loop.prompt + 1 ELSE loop.prompt
SpawnedInOrder ==
    loop.pc \in Spawning =>
        \A w \in workers :
            w.target = loop.target /\ w.round = reservations[loop.target]
                => w.prompt < Spawned

PermitInv == PermitsConserved /\ WorkersDistinct /\ RoundsReserved /\ SpawnedInOrder

\* Changing each worker without changing who it is loses none of them.
LEMMA SameWorkersRemain ==
    ASSUME TypeInv, PermitInv, NEW f \in [workers -> WorkerRecord],
           \A w \in workers : SameWorker(f[w], w),
           workers' = {f[w] : w \in workers}
    PROVE  /\ Cardinality(workers') = Cardinality(workers)
           /\ WorkersDistinct'
           /\ \A v \in workers' : \E w \in workers : SameWorker(v, w)
<1>1. \A v, w \in workers : f[v] = f[w] => v = w
  BY DEF PermitInv, WorkersDistinct, SameWorker
<1>2. IsFiniteSet(workers)
  BY DEF TypeInv, TypeOK, CollectorTypeOK
<1>3. Cardinality(workers') = Cardinality(workers)
  BY <1>1, <1>2, FiniteImage
<1>4. WorkersDistinct'
  BY DEF PermitInv, WorkersDistinct, SameWorker
<1>5. \A v \in workers' : \E w \in workers : SameWorker(v, w)
  OBVIOUS
<1> QED BY <1>3, <1>4, <1>5

\* The workers that remain after _inflight_threads was cleaned up.
LEMMA FinishedThreadsSame ==
    ASSUME TypeInv, PermitInv, workers' = FinishedThreadsRemoved
    PROVE  /\ Cardinality(workers') = Cardinality(workers)
           /\ WorkersDistinct'
           /\ \A v \in workers' : \E w \in workers : SameWorker(v, w)
<1> DEFINE f == [w \in workers |-> IF w.pc = "created" THEN [w EXCEPT !.tracked = FALSE] ELSE w]
<1>1. f \in [workers -> WorkerRecord] /\ \A w \in workers : SameWorker(f[w], w)
  <2> SUFFICES ASSUME NEW w \in workers PROVE f[w] \in WorkerRecord /\ SameWorker(f[w], w)
    OBVIOUS
  <2>1. w \in WorkerRecord
    BY DEF TypeInv, TypeOK, CollectorTypeOK
  <2> QED BY <2>1 DEF WorkerRecord, SameWorker
<1>2. workers' = {f[w] : w \in workers}
  BY DEF FinishedThreadsRemoved
<1> HIDE DEF f
<1> QED BY <1>1, <1>2, SameWorkersRemain

\* A step that leaves the workers who they are and gives the loop no new target
\* or prompt keeps the invariant.
LEMMA PermitFrame ==
    ASSUME TypeInv, PermitInv, UNCHANGED <<sema, reservations>>,
           Cardinality(workers') = Cardinality(workers), WorkersDistinct',
           \A v \in workers' : \E w \in workers : SameWorker(v, w),
           \/ loop'.pc \notin Spawning
           \/ /\ loop.pc \in Spawning /\ loop'.target = loop.target
              /\ Spawned <= Spawned' /\ Spawned \in Nat /\ Spawned' \in Nat
    PROVE  PermitInv'
<1>1. PermitsConserved'
  BY DEF PermitInv, PermitsConserved
<1>2. RoundsReserved'
  BY DEF PermitInv, RoundsReserved, SameWorker
<1>3. SpawnedInOrder'
  <2> SUFFICES ASSUME loop'.pc \in Spawning, NEW v \in workers',
                      v.target = loop'.target, v.round = reservations'[loop'.target]
               PROVE  v.prompt < Spawned'
    BY DEF SpawnedInOrder
  <2>1. PICK w \in workers : SameWorker(v, w)
    OBVIOUS
  <2>2. w.prompt < Spawned
    BY <2>1 DEF PermitInv, SpawnedInOrder, SameWorker
  <2>3. w.prompt \in Int
    BY DEF TypeInv, TypeOK, CollectorTypeOK, WorkerRecord, Prompt
  <2>4. Spawned <= Spawned' /\ Spawned \in Nat /\ Spawned' \in Nat
    OBVIOUS
  <2> HIDE DEF Spawned
  <2> QED BY <2>1, <2>2, <2>3, <2>4 DEF SameWorker
<1> QED BY <1>1, <1>2, <1>3 DEF PermitInv

\* The same when no worker changes at all.
LEMMA PermitStutter ==
    ASSUME TypeInv, PermitInv, UNCHANGED <<sema, reservations, workers>>,
           \/ loop'.pc \notin Spawning
           \/ /\ loop.pc \in Spawning /\ loop'.target = loop.target
              /\ Spawned' = Spawned
    PROVE  PermitInv'
<1>1. Spawned \in Nat
  BY DEF TypeInv, TypeOK, CollectorTypeOK, LoopRecord, Spawned
<1>2. /\ Cardinality(workers') = Cardinality(workers)
      /\ WorkersDistinct'
      /\ \A v \in workers' : \E w \in workers : SameWorker(v, w)
  BY DEF PermitInv, WorkersDistinct, SameWorker
<1>3. \/ loop'.pc \notin Spawning
      \/ /\ loop.pc \in Spawning /\ loop'.target = loop.target
         /\ Spawned <= Spawned' /\ Spawned \in Nat /\ Spawned' \in Nat
  <2> HIDE DEF Spawned
  <2> QED BY <1>1
<1> QED BY <1>2, <1>3, PermitFrame

\* The loop steps that neither reserve a target nor create a worker.
LEMMA PermitsBetweenBatches ==
    ASSUME TypeInv, PermitInv,
           \/ DataloaderFails \/ AwaitManualPause \/ AwaitRefitPause \/ ReadVersion
           \/ ReadLast \/ CheckLimit \/ WarnOncePerVersion \/ NoteWarning \/ ClearLimitEvent
           \/ AwaitLimitCleared \/ BeginBatch \/ ReadLastForTarget \/ DropBatch
    PROVE  PermitInv'
<1>1. UNCHANGED <<sema, reservations, workers>>
  BY DEF DataloaderFails, AwaitManualPause, AwaitRefitPause, ReadVersion, ReadLast,
         CheckLimit, WarnOncePerVersion, NoteWarning, ClearLimitEvent, AwaitLimitCleared, BeginBatch,
         ReadLastForTarget, DropBatch, loopUnchanged
<1>2. loop'.pc \notin Spawning
  <2>1. loop \in LoopRecord
    BY DEF TypeInv, TypeOK, CollectorTypeOK
  <2> USE DEF Goto, Spawning, BeforeSpawn, LoopRecord
  <2>2. CASE DataloaderFails \/ CheckLimit \/ DropBatch
    BY <2>2 DEF DataloaderFails, CheckLimit, DropBatch, LoopAt
  <2>3. CASE AwaitManualPause \/ AwaitRefitPause \/ ClearLimitEvent \/ AwaitLimitCleared
    BY <2>1, <2>3 DEF AwaitManualPause, AwaitRefitPause, ClearLimitEvent, AwaitLimitCleared
  <2>4. CASE WarnOncePerVersion \/ NoteWarning
    BY <2>1, <2>4 DEF WarnOncePerVersion, NoteWarning
  <2>5. CASE ReadVersion \/ ReadLast \/ BeginBatch \/ ReadLastForTarget
    BY <2>1, <2>5 DEF ReadVersion, ReadLast, BeginBatch, ReadLastForTarget
  <2> QED BY <2>2, <2>3, <2>4, <2>5
<1> QED BY <1>1, <1>2, PermitStutter

\* The loop steps of a batch.
LEMMA PermitsInBatch ==
    ASSUME TypeInv, PermitInv,
           \/ ReserveTarget \/ NextPrompt \/ AwaitPromptRefitPause \/ RereadVersion
           \/ AcquireAndTrack \/ StartThread \/ EndBatch
    PROVE  PermitInv'
<1>1. /\ loop \in LoopRecord /\ workers \subseteq WorkerRecord /\ IsFiniteSet(workers)
      /\ sema \in Nat /\ reservations \in [Target -> Nat]
  BY DEF TypeInv, TypeOK, CollectorTypeOK
<1>2. CASE ReserveTarget
  <2> DEFINE need == NeedGeneration(loop.version, loop.last)
             target == Min(need)
  <2>1. target \in Target
    <3>1. need \subseteq Target
      BY <1>1, CalculatedAreTargets DEF NeedGeneration, LoopRecord
    <3> QED BY <1>2, <3>1, MinIsMember DEF ReserveTarget
  <2>2. /\ reservations' = [reservations EXCEPT ![target] = @ + 1]
        /\ loop' = [loop EXCEPT !.pc = "nextPrompt", !.target = target, !.last = -1]
        /\ UNCHANGED <<sema, workers>>
    BY <1>2 DEF ReserveTarget, loopUnchanged
  <2> HIDE DEF target, need
  <2>3. PermitsConserved' /\ WorkersDistinct'
    BY <2>2 DEF PermitInv, PermitsConserved, WorkersDistinct
  <2>4. \A w \in workers :
           /\ w.round <= reservations'[w.target]
           /\ w.target = target => w.round < reservations'[target]
    <3>1. \A w \in workers : /\ w.target \in Target /\ w.round \in Nat
                            /\ w.round <= reservations[w.target]
      BY <1>1 DEF PermitInv, RoundsReserved, WorkerRecord
    <3> QED BY <1>1, <2>1, <2>2, <3>1
  <2>5. loop'.target = target
    BY <1>1, <2>2 DEF LoopRecord
  <2>6. RoundsReserved' /\ SpawnedInOrder'
    <3>1. \A w \in workers : w.round \in Nat
      BY <1>1 DEF WorkerRecord
    <3>2. reservations'[target] \in Nat
      BY <1>1, <2>1, <2>2
    <3> QED BY <2>2, <2>4, <2>5, <3>1, <3>2 DEF RoundsReserved, SpawnedInOrder
  <2> QED BY <2>3, <2>6 DEF PermitInv
<1>3. CASE NextPrompt \/ AwaitPromptRefitPause \/ RereadVersion
  <2>1. UNCHANGED <<sema, reservations, workers>>
    BY <1>3 DEF NextPrompt, AwaitPromptRefitPause, RereadVersion, loopUnchanged
  <2>2. loop.pc \in Spawning /\ loop'.target = loop.target /\ Spawned' = Spawned
    BY <1>1, <1>3
    DEF NextPrompt, AwaitPromptRefitPause, RereadVersion, Goto, LoopRecord, Spawning,
        BeforeSpawn, Spawned
  <2> QED BY <2>1, <2>2, PermitStutter
<1>4. CASE AcquireAndTrack
  <2> DEFINE new == [target |-> loop.target, round |-> reservations[loop.target],
                     prompt |-> loop.prompt, version |-> loop.version,
                     pc |-> "created", tracked |-> TRUE]
  <2>1. workers' = workers \cup {new} /\ sema' = sema - 1 /\ UNCHANGED reservations
    BY <1>4 DEF AcquireAndTrack
  <2>2. loop.target \in Target /\ loop.prompt \in Nat /\ loop.pc = "acquire"
    BY <1>1, <1>4 DEF AcquireAndTrack, LoopRecord
  <2>3. loop'.target = loop.target /\ Spawned = loop.prompt /\ Spawned' = loop.prompt + 1
    BY <1>1, <1>4 DEF AcquireAndTrack, Goto, LoopRecord, Spawned
  <2>4. \A w \in workers : ~SameWorker(w, new)
    <3>1. \A w \in workers : w.target = loop.target /\ w.round = reservations[loop.target]
                               => w.prompt < loop.prompt
      BY <2>2, <2>3 DEF PermitInv, SpawnedInOrder, Spawning, BeforeSpawn
    <3>2. \A w \in workers : w.prompt \in Int
      BY <1>1 DEF WorkerRecord, Prompt
    <3> QED BY <2>2, <3>1, <3>2 DEF SameWorker
  <2>5. PermitsConserved'
    <3>1. new \notin workers
      BY <2>4 DEF SameWorker
    <3> HIDE DEF new
    <3>2. Cardinality(workers') = Cardinality(workers) + 1
      BY <1>1, <2>1, <3>1, FS_AddElement
    <3>3. Cardinality(workers) \in Nat
      BY <1>1, FS_CardinalityType
    <3> QED BY <1>1, <2>1, <3>2, <3>3 DEF PermitInv, PermitsConserved, MaxInflight
  <2>6. WorkersDistinct'
    BY <2>1, <2>4 DEF PermitInv, WorkersDistinct, SameWorker
  <2>7. RoundsReserved'
    BY <1>1, <2>1, <2>2 DEF PermitInv, RoundsReserved
  <2>8. SpawnedInOrder'
    <3> SUFFICES ASSUME NEW v \in workers', v.target = loop.target,
                        v.round = reservations[loop.target]
                 PROVE  v.prompt < loop.prompt + 1
      BY <2>1, <2>3 DEF SpawnedInOrder
    <3>1. CASE v = new
      BY <2>2, <3>1
    <3>2. CASE v \in workers
      <4>1. v.prompt < loop.prompt
        BY <2>2, <2>3, <3>2 DEF PermitInv, SpawnedInOrder, Spawning, BeforeSpawn
      <4>2. v.prompt \in Int
        BY <1>1, <3>2 DEF WorkerRecord, Prompt
      <4> QED BY <2>2, <4>1, <4>2
    <3> QED BY <2>1, <3>1, <3>2
  <2> QED BY <2>5, <2>6, <2>7, <2>8 DEF PermitInv
<1>5. CASE StartThread
  <2> DEFINE f == [w \in workers |-> IF w.pc = "created" THEN [w EXCEPT !.pc = "rollout"]
                                                         ELSE w]
  <2>1. f \in [workers -> WorkerRecord] /\ \A w \in workers : SameWorker(f[w], w)
    BY <1>1 DEF WorkerRecord, WorkerPC, SameWorker
  <2>2. workers' = {f[w] : w \in workers} /\ UNCHANGED <<sema, reservations>>
    BY <1>5 DEF StartThread
  <2> HIDE DEF f
  <2>3. /\ Cardinality(workers') = Cardinality(workers) /\ WorkersDistinct'
        /\ \A v \in workers' : \E w \in workers : SameWorker(v, w)
    BY <2>1, <2>2, SameWorkersRemain
  <2>4. /\ loop.pc \in Spawning /\ loop'.target = loop.target
        /\ Spawned <= Spawned' /\ Spawned \in Nat /\ Spawned' \in Nat
    BY <1>1, <1>5 DEF StartThread, LoopRecord, Spawning, BeforeSpawn, Spawned
  <2> QED BY <2>2, <2>3, <2>4, PermitFrame
<1>6. CASE EndBatch
  <2>1. workers' = FinishedThreadsRemoved /\ UNCHANGED <<sema, reservations>>
    BY <1>6 DEF EndBatch
  <2>2. loop'.pc \notin Spawning
    BY <1>6 DEF EndBatch, LoopAt, Spawning, BeforeSpawn
  <2> QED BY <2>1, <2>2, FinishedThreadsSame, PermitFrame
<1> QED BY <1>2, <1>3, <1>4, <1>5, <1>6

\* The main thread creates no worker and ends none.
LEMMA PermitsInCalls ==
    ASSUME TypeInv, PermitInv, MainThread
    PROVE  PermitInv'
<1>1. CASE PollPending
  <2>1. workers' = FinishedThreadsRemoved /\ UNCHANGED <<sema, reservations, loop>>
    BY <1>1 DEF PollPending
  <2>2. Spawned \in Nat /\ Spawned' = Spawned
    BY <2>1 DEF TypeInv, TypeOK, CollectorTypeOK, LoopRecord, Spawned
  <2>3. Spawned <= Spawned'
    <3> HIDE DEF Spawned
    <3> QED BY <2>2
  <2> QED BY <2>1, <2>2, <2>3, FinishedThreadsSame, PermitFrame
<1>2. CASE StartCollection
  <2>1. UNCHANGED <<sema, reservations, workers>> /\ loop'.pc \notin Spawning
    BY <1>2
    DEF StartCollection, Goto, Spawning, BeforeSpawn, TypeInv, TypeOK, CollectorTypeOK,
        LoopRecord
  <2> QED BY <2>1, PermitStutter
<1>3. CASE SetWeightVersion \/ WakeLoop \/ Pause \/ Resume \/ PrepareForRefit
           \/ ResumeAfterRefit \/ WaitForPendingGenerations
  <2>1. UNCHANGED <<sema, reservations, workers, loop>>
    BY <1>3 DEF SetWeightVersion, WakeLoop, Pause, Resume, PrepareForRefit,
                ResumeAfterRefit, WaitForPendingGenerations
  <2> QED BY <2>1, PermitStutter DEF Spawned
<1> QED BY <1>1, <1>2, <1>3 DEF MainThread

\* A worker keeps its permit until it is over, and then gives back one.
LEMMA PermitsInWorkers ==
    ASSUME TypeInv, PermitInv, NEW w \in workers, WorkerSteps(w) \/ RolloutFails(w)
    PROVE  PermitInv'
<1>1. /\ workers \subseteq WorkerRecord /\ IsFiniteSet(workers) /\ sema \in Nat
      /\ UNCHANGED <<loop, reservations>>
  BY DEF TypeInv, TypeOK, CollectorTypeOK, WorkerSteps, RolloutFails, PushGroup,
         PushFull, PushAbandoned, ReleaseFirst, EmergencyCleanup, DetachAndRelease,
         workerUnchanged, collectorVars
<1>2. Cardinality(workers) \in Nat
  BY <1>1, FS_CardinalityType
<1>3. ASSUME NEW pc \in WorkerPC, Moves(w, pc), UNCHANGED sema
      PROVE  PermitInv'
  <2> DEFINE f == [v \in workers |-> IF v = w THEN [w EXCEPT !.pc = pc] ELSE v]
  <2>1. f \in [workers -> WorkerRecord] /\ \A v \in workers : SameWorker(f[v], v)
    BY <1>1 DEF WorkerRecord, SameWorker
  <2>2. workers' = {f[v] : v \in workers}
    BY <1>3 DEF Moves
  <2> HIDE DEF f
  <2>3. /\ Cardinality(workers') = Cardinality(workers) /\ WorkersDistinct'
        /\ \A v \in workers' : \E u \in workers : SameWorker(v, u)
    BY <2>1, <2>2, SameWorkersRemain
  <2>4. Spawned \in Nat /\ Spawned' = Spawned
    BY <1>1 DEF TypeInv, TypeOK, CollectorTypeOK, LoopRecord, Spawned
  <2>5. Spawned <= Spawned'
    <3> HIDE DEF Spawned
    <3> QED BY <2>4
  <2> QED BY <1>1, <1>3, <2>3, <2>4, <2>5, PermitFrame
<1>4. CASE RolloutFails(w) \/ PushGroup(w) \/ PushAbandoned(w)
           \/ ReleaseFirst(w) \/ EmergencyCleanup(w)
  BY <1>3, <1>4
  DEF RolloutFails, PushGroup, PushAbandoned, ReleaseFirst, EmergencyCleanup,
      WorkerPC
<1>5. CASE PushFull(w)
  BY <1>5, PermitStutter DEF PushFull, collectorVars, Spawned
<1>6. CASE DetachAndRelease(w)
  <2>1. workers' = workers \ {w} /\ sema' = sema + 1
    BY <1>6 DEF DetachAndRelease
  <2>2. Cardinality(workers') = Cardinality(workers) - 1
    BY <1>1, <2>1, FS_RemoveElement
  <2>3. PermitsConserved'
    BY <1>1, <1>2, <2>1, <2>2 DEF PermitInv, PermitsConserved, MaxInflight
  <2>4. WorkersDistinct' /\ RoundsReserved' /\ SpawnedInOrder'
    BY <1>1, <2>1 DEF PermitInv, WorkersDistinct, RoundsReserved, SpawnedInOrder, Spawned
  <2> QED BY <2>3, <2>4 DEF PermitInv
<1> QED BY <1>4, <1>5, <1>6 DEF WorkerSteps

\* The inductive strengthening of PermitsConserved.
LEMMA PermitInvariant == Spec => []PermitInv
<1>1. Init => PermitInv
  <2>1. MaxInflight \in Nat
    BY NumPromptsAssumption, MaxAgeAssumption DEF MaxInflight
  <2> QED BY <2>1, FS_EmptySet
      DEF Init, CollectorInit, PermitInv, PermitsConserved, WorkersDistinct, RoundsReserved,
          SpawnedInOrder
<1>2. TypeInv /\ PermitInv /\ [Next]_vars => PermitInv'
  <2> SUFFICES ASSUME TypeInv, PermitInv, [Next]_vars PROVE PermitInv'
    OBVIOUS
  <2>1. CASE Trainer \/ TrainerRaises \/ UNCHANGED vars
    <3>1. UNCHANGED <<sema, reservations, workers, loop>>
      BY <2>1
      DEF Trainer, StartUp, InitialRefit, InitialValidation, FillBuffer, BufferNotFilled,
          SampleBatch, SampleNone, SampleRaises, Train, RefitPrepared, Refit,
          BeginValidation, EndValidation, BeginCheckpoint, Quiesced, EndCheckpoint,
          Advance, TrainerRaises, actorsUnchanged, vars, collectorVars
    <3> QED BY <3>1, PermitStutter DEF Spawned
  <2>2. CASE Collector
    BY <2>2, PermitsInCalls, PermitsBetweenBatches, PermitsInBatch, PermitsInWorkers
    DEF Collector, CollectorNext, CollectionLoop
  <2> QED BY <2>1, <2>2 DEF Next, Terminated
<1> QED BY <1>1, <1>2, TypeInvariant, PTL DEF Spec

\* At every moment the free permits and the workers that are not over add up to
\* num_prompts_per_step * max_trajectory_age_steps, whatever fails and in whatever
\* order the threads run.
THEOREM PermitsAreConserved == Spec => []PermitsConserved
<1>1. PermitInv => PermitsConserved
  BY DEF PermitInv
<1> QED BY <1>1, PermitInvariant, PTL

-----------------------------------------------------------------------------
(* Groups are neither lost nor duplicated while nothing fails.  Each count *)
(* of GroupsAccounted moves by one at a time, for workers are distinct; a  *)
(* group is given up only by a worker that finds the loop over, and the    *)
(* loop is over only after a failure, for it is started once.              *)

USE NumPromptsAssumption, MaxAgeAssumption, StepsAssumption

StartCalls == {i \in 1..Len(mailbox) : mailbox[i].method = "start_collection"}

\* The loop is started at most once: by the first call of the mailbox.
StartedOnce ==
    /\ phase = "start" => mailbox = << >> /\ loop.pc = "off"
    /\ \A i \in StartCalls : i = 1 /\ loop.pc = "off"

\* A loop that is not running has no workers, or something failed.
OffIsIdle == loop.pc = "off" => workers = {}
DeadFailed == loop.pc = "dead" => failures > 0

\* The prompts of a batch are counted from 0.
PromptFromZero == loop.pc \notin Spawning => loop.prompt = 0

GroupInv == StartedOnce /\ OffIsIdle /\ DeadFailed /\ PromptFromZero /\ GroupsAccounted

Pending == {"created", "rollout"}
Due(t) == {w \in Unpushed : w.target = t}

\* The workers of a target are finitely many.
LEMMA DueIsFinite ==
    ASSUME TypeInv, NEW t \in Target
    PROVE  /\ IsFiniteSet(Due(t)) /\ Cardinality(Due(t)) \in Nat
           /\ ToSpawn(t) \in Int /\ pushes[t] \in Nat /\ reservations[t] \in Nat
<1>1. IsFiniteSet(workers) /\ loop \in LoopRecord /\ pushes[t] \in Nat /\ reservations[t] \in Nat
  BY DEF TypeInv, TypeOK, BufferTypeOK, CollectorTypeOK
<1>2. Due(t) \in SUBSET workers
  BY DEF Due, Unpushed
<1>3. IsFiniteSet(Due(t)) /\ Cardinality(Due(t)) \in Nat
  BY <1>1, <1>2, FS_Subset, FS_CardinalityType
<1>4. loop.prompt \in Int
  BY <1>1 DEF LoopRecord
<1>5. ToSpawn(t) \in Int
  BY <1>4 DEF ToSpawn
<1> QED BY <1>1, <1>3, <1>5

\* Workers that stay who they are, and pushed or not, leave the counts alone.
LEMMA SameWorkersDue ==
    ASSUME TypeInv, PermitInv, NEW f \in [workers -> WorkerRecord],
           \A w \in workers : SameWorker(f[w], w) /\ (f[w].pc \in Pending <=> w.pc \in Pending),
           workers' = {f[w] : w \in workers}, NEW t \in Target
    PROVE  Cardinality(Due(t)') = Cardinality(Due(t))
<1> DEFINE g == [w \in Due(t) |-> f[w]]
<1>1. Due(t) \subseteq workers /\ g \in [Due(t) -> WorkerRecord]
  BY DEF Due, Unpushed
<1>2. \A v, w \in Due(t) : g[v] = g[w] => v = w
  BY <1>1 DEF PermitInv, WorkersDistinct, SameWorker
<1>3. Due(t) = {w \in workers : w.pc \in Pending /\ w.target = t}
  BY DEF Due, Unpushed, Pending
<1>4. Due(t)' = {v \in workers' : v.pc \in Pending /\ v.target = t}
  BY DEF Due, Unpushed, Pending
<1>5. Due(t)' = {f[w] : w \in Due(t)}
  BY <1>3, <1>4 DEF SameWorker
<1>6. Due(t)' = {g[w] : w \in Due(t)}
  BY <1>5
<1> HIDE DEF g
<1>7. IsFiniteSet(Due(t))
  BY DueIsFinite
<1>8. Cardinality({g[w] : w \in Due(t)}) = Cardinality(Due(t))
  <2> DEFINE D == Due(t)
  <2>1. g \in [D -> WorkerRecord] /\ IsFiniteSet(D) /\ \A v, w \in D : g[v] = g[w] => v = w
    BY <1>1, <1>2, <1>7
  <2> HIDE DEF D
  <2>2. Cardinality({g[w] : w \in D}) = Cardinality(D)
    BY <2>1, FiniteImage
  <2> QED BY <2>2 DEF D
<1> QED BY <1>6, <1>8

\* A step that moves none of the counts.
LEMMA GroupsFrame ==
    ASSUME GroupsAccounted, UNCHANGED <<pushes, reservations>>,
           failures' = 0 => failures = 0,
           \A t \in Target : /\ ToSpawn(t)' = ToSpawn(t)
                             /\ Cardinality(Due(t)') = Cardinality(Due(t))
    PROVE  GroupsAccounted'
BY DEF GroupsAccounted, Due

\* A step of the trainer or of the main thread that answers nothing and sends
\* nothing leaves the start of the loop as it was.
LEMMA StartFrame ==
    ASSUME StartedOnce, UNCHANGED mailbox, phase' = "start" => phase = "start",
           loop.pc = "off" => loop'.pc = "off"
    PROVE  StartedOnce'
BY DEF StartedOnce, StartCalls

\* Calls that do not start the loop leave its start as it was.
LEMMA StartSend ==
    ASSUME StartedOnce, mailbox \in Seq(Call), NEW calls \in Seq(Call), Send(calls),
           phase' # "start", loop' = loop,
           \A i \in 1..Len(calls) :
              calls[i].method = "start_collection"
                 => i = 1 /\ mailbox = << >> /\ loop.pc = "off"
    PROVE  StartedOnce'
<1>1. /\ mailbox' \in Seq(Call) /\ Len(mailbox') = Len(mailbox) + Len(calls)
      /\ \A i \in 1..(Len(mailbox) + Len(calls)) :
            mailbox'[i] = IF i <= Len(mailbox) THEN mailbox[i] ELSE calls[i - Len(mailbox)]
  BY ConcatProperties DEF Send
<1>2. Len(mailbox) \in Nat /\ Len(calls) \in Nat /\ (mailbox = << >> => Len(mailbox) = 0)
  BY LenProperties
<1>3. ASSUME NEW i \in StartCalls' PROVE i = 1 /\ loop.pc = "off"
  <2>1. i \in 1..(Len(mailbox) + Len(calls)) /\ mailbox'[i].method = "start_collection"
    BY <1>1, <1>3 DEF StartCalls
  <2>2. CASE i <= Len(mailbox)
    BY <1>1, <1>2, <2>1, <2>2 DEF StartedOnce, StartCalls
  <2>3. CASE ~(i <= Len(mailbox))
    <3>1. i - Len(mailbox) \in 1..Len(calls) /\ mailbox'[i] = calls[i - Len(mailbox)]
      BY <1>1, <1>2, <2>1, <2>3
    <3> QED BY <1>2, <2>1, <3>1
  <2> QED BY <2>2, <2>3
<1> QED BY <1>3 DEF StartedOnce

\* Answering the first call leaves no call that starts the loop.
LEMMA StartReturn ==
    ASSUME StartedOnce, mailbox \in Seq(Call), mailbox # << >>, Return, phase' = phase
    PROVE  StartedOnce'
<1>1. /\ mailbox' = Tail(mailbox) /\ Len(mailbox') = Len(mailbox) - 1
      /\ Len(mailbox) \in Nat \ {0}
      /\ \A i \in 1..Len(mailbox') : mailbox'[i] = mailbox[i + 1]
  BY HeadTailProperties, EmptySeq DEF Return
<1>2. ASSUME NEW i \in StartCalls' PROVE FALSE
  <2>1. i \in 1..Len(mailbox') /\ mailbox[i + 1].method = "start_collection"
    BY <1>1, <1>2 DEF StartCalls
  <2>2. i + 1 \in StartCalls /\ i + 1 # 1
    BY <1>1, <2>1 DEF StartCalls
  <2> QED BY <2>2 DEF StartedOnce
<1> QED BY <1>2 DEF StartedOnce

\* The trainer moves no group between the counts, and starts the loop once.
LEMMA GroupsInTrainer ==
    ASSUME TypeInv, GroupInv, Trainer
    PROVE  GroupInv'
<1>1. UNCHANGED <<workers, loop, failures, reservations, pushes>>
  BY DEF Trainer, StartUp, InitialRefit, InitialValidation, FillBuffer, BufferNotFilled,
         SampleBatch, SampleNone, SampleRaises, Train, RefitPrepared, Refit, BeginValidation,
         EndValidation, BeginCheckpoint, Quiesced, EndCheckpoint, Advance, actorsUnchanged,
         vars, collectorVars, bufferVars, Sample
<1>2. /\ mailbox \in Seq(Call) /\ StartStep \in Version /\ weightVersion \in Version
      /\ \A m \in Method, v \in Version : CallOf(m, v) \in Call
  BY Ranges, CallsAreCalls DEF TypeInv, TypeOK, CollectorTypeOK
<1>3. phase' # "start"
  BY DEF Trainer, StartUp, InitialRefit, InitialValidation, FillBuffer, BufferNotFilled,
         SampleBatch, SampleNone, SampleRaises, Train, RefitPrepared, Refit, BeginValidation,
         EndValidation, BeginCheckpoint, Quiesced, EndCheckpoint, Advance, vars, trainerVars
<1>4. StartedOnce'
  <2>1. ASSUME NEW m \in Method, m # "start_collection", SendPlain(m)
        PROVE  StartedOnce'
    <3> DEFINE calls == <<CallOf(m, StartStep)>>
    <3>1. calls \in Seq(Call) /\ Send(calls)
      BY <1>2, <2>1 DEF SendPlain
    <3>2. \A i \in 1..Len(calls) : calls[i].method # "start_collection"
      BY <2>1 DEF CallOf
    <3> HIDE DEF calls
    <3> QED BY <1>1, <1>2, <1>3, <3>1, <3>2, StartSend DEF GroupInv
  <2>2. ASSUME NEW m \in Method, NEW n \in Method, NEW v \in Version, NEW u \in Version,
               Send(<<CallOf(m, v), CallOf(n, u)>>), n # "start_collection",
               m = "start_collection" => phase = "start"
        PROVE  StartedOnce'
    <3> DEFINE calls == <<CallOf(m, v), CallOf(n, u)>>
    <3>1. calls \in Seq(Call) /\ Send(calls)
      BY <1>2, <2>2
    <3>2. \A i \in 1..Len(calls) : calls[i].method = "start_collection"
                                      => i = 1 /\ m = "start_collection"
      BY <2>2 DEF CallOf
    <3> HIDE DEF calls
    <3>3. phase = "start" => mailbox = << >> /\ loop.pc = "off"
      BY DEF GroupInv, StartedOnce
    <3> QED BY <1>1, <1>2, <1>3, <2>2, <3>1, <3>2, <3>3, StartSend DEF GroupInv
  <2>3. CASE InitialRefit \/ InitialValidation \/ Train \/ BeginValidation \/ EndValidation
             \/ EndCheckpoint \/ BeginCheckpoint
    <3>1. CASE UNCHANGED mailbox
      BY <1>1, <1>3, <3>1, StartFrame DEF GroupInv
    <3>2. CASE Send(<<CallOf("pause", StartStep),
                      CallOf("wait_for_pending_generations", StartStep)>>)
      BY <1>2, <2>2, <3>2 DEF Method
    <3> QED BY <2>1, <2>3, <3>1, <3>2
        DEF InitialRefit, InitialValidation, Train, BeginValidation, EndValidation,
            EndCheckpoint, BeginCheckpoint, Method
  <2>4. CASE StartUp
    BY <1>2, <2>2, <2>4 DEF StartUp, Method
  <2>5. CASE Refit
    <3>1. weightVersion + 1 \in Version
      BY <1>2, <2>5 DEF Refit, TypeInv, StepsInPhase, Version
    <3> QED BY <1>2, <2>2, <2>5, <3>1 DEF Refit, Method
  <2>6. CASE FillBuffer \/ BufferNotFilled \/ SampleBatch \/ SampleNone \/ SampleRaises
             \/ RefitPrepared \/ Quiesced \/ Advance
    <3>1. UNCHANGED mailbox
      BY <2>6
      DEF FillBuffer, BufferNotFilled, SampleBatch, SampleNone, SampleRaises, RefitPrepared,
          Quiesced, Advance, vars, collectorVars
    <3> QED BY <1>1, <1>3, <3>1, StartFrame DEF GroupInv
  <2> QED BY <2>3, <2>4, <2>5, <2>6 DEF Trainer
<1>5. GroupsAccounted'
  BY <1>1 DEF GroupInv, GroupsAccounted, ToSpawn, Unpushed
<1> QED BY <1>1, <1>4, <1>5 DEF GroupInv, OffIsIdle, DeadFailed, PromptFromZero

\* The main thread moves no group between the counts.
LEMMA GroupsInCalls ==
    ASSUME TypeInv, PermitInv, GroupInv, Collector, MainThread
    PROVE  GroupInv'
<1>1. /\ mailbox \in Seq(Call) /\ loop \in LoopRecord /\ workers \subseteq WorkerRecord
      /\ (mainPc # "idle" => mailbox # << >>) /\ UNCHANGED phase
  BY DEF TypeInv, TypeOK, CollectorTypeOK, BusyOnACall, Collector, trainerVars
<1>2. /\ UNCHANGED <<failures, reservations, pushes>> /\ mailbox # << >>
      /\ Return \/ UNCHANGED mailbox
  BY <1>1 DEF MainThread, StartCollection, SetWeightVersion, WakeLoop, Pause, Resume,
      PrepareForRefit, ResumeAfterRefit, WaitForPendingGenerations, PollPending, Called,
      bufferVars
<1>3. CASE StartCollection
  <2>1. 1 \in StartCalls
    <3>1. Head(mailbox) = mailbox[1] /\ Len(mailbox) \in Nat \ {0}
      BY <1>1, <1>2, HeadTailProperties, EmptySeq
    <3> QED BY <1>3, <3>1 DEF StartCollection, Called, StartCalls
  <2>2. loop.pc = "off" /\ loop.prompt = 0
    BY <2>1 DEF GroupInv, StartedOnce, PromptFromZero, Spawning, BeforeSpawn
  <2>3. loop'.pc = "fetch" /\ loop'.prompt = 0 /\ UNCHANGED workers
    BY <1>1, <1>3, <2>2 DEF StartCollection, Goto, LoopRecord
  <2>4. GroupsAccounted'
    BY <1>2, <2>2, <2>3 DEF GroupInv, GroupsAccounted, ToSpawn, Unpushed
  <2>5. StartedOnce'
    BY <1>1, <1>2, <1>3, StartReturn DEF StartCollection, GroupInv
  <2> QED BY <2>3, <2>4, <2>5 DEF GroupInv, OffIsIdle, DeadFailed, PromptFromZero
<1>4. CASE UNCHANGED loop
  <2>1. StartedOnce'
    BY <1>1, <1>2, <1>4, StartReturn, StartFrame DEF GroupInv
  <2>2. CASE PollPending
    <3> DEFINE f == [w \in workers |-> IF w.pc = "created" THEN [w EXCEPT !.tracked = FALSE]
                                                           ELSE w]
    <3>1. f \in [workers -> WorkerRecord]
      BY <1>1 DEF WorkerRecord
    <3>2. \A w \in workers : SameWorker(f[w], w) /\ (f[w].pc \in Pending <=> w.pc \in Pending)
      BY <1>1 DEF WorkerRecord, SameWorker
    <3>3. workers' = {f[w] : w \in workers}
      BY <2>2 DEF PollPending, FinishedThreadsRemoved
    <3> HIDE DEF f
    <3>4. GroupsAccounted'
      <4>1. \A t \in Target : Cardinality(Due(t)') = Cardinality(Due(t))
        BY <3>1, <3>2, <3>3, SameWorkersDue
      <4> QED BY <1>2, <1>4, <4>1, GroupsFrame DEF GroupInv, ToSpawn
    <3> QED BY <1>2, <1>4, <2>1, <3>3, <3>4 DEF GroupInv, OffIsIdle, DeadFailed, PromptFromZero
  <2>3. CASE UNCHANGED workers
    <3>1. GroupsAccounted'
      BY <1>2, <1>4, <2>3 DEF GroupInv, GroupsAccounted, ToSpawn, Unpushed
    <3> QED BY <1>2, <1>4, <2>1, <2>3, <3>1 DEF GroupInv, OffIsIdle, DeadFailed, PromptFromZero
  <2> QED BY <2>2, <2>3
      DEF MainThread, StartCollection, SetWeightVersion, WakeLoop, Pause, Resume,
          PrepareForRefit, ResumeAfterRefit, WaitForPendingGenerations
<1> QED BY <1>3, <1>4
    DEF MainThread, SetWeightVersion, WakeLoop, Pause, Resume, PrepareForRefit,
        ResumeAfterRefit, WaitForPendingGenerations, PollPending

\* A loop step that leaves workers and reservations alone, within a batch or outside.
LEMMA GroupsLoopFrame ==
    ASSUME TypeInv, GroupInv, UNCHANGED <<mailbox, phase, workers, reservations, pushes, failures>>,
           loop.pc # "off", loop'.pc \notin {"off", "dead"},
           \/ /\ loop.pc \notin Spawning /\ loop'.pc \notin Spawning
              /\ loop'.prompt = 0
           \/ /\ loop.pc \in Spawning \ {"start"} /\ loop'.pc \in Spawning \ {"start"}
              /\ UNCHANGED <<loop.target, loop.prompt>>
    PROVE  GroupInv'
<1>1. StartedOnce'
  BY StartFrame DEF GroupInv
<1>2. \A t \in Target : ToSpawn(t)' = ToSpawn(t)
  BY DEF ToSpawn, Spawning, BeforeSpawn
<1>3. GroupsAccounted'
  BY <1>2 DEF GroupInv, GroupsAccounted, Unpushed
<1> QED BY <1>1, <1>3 DEF GroupInv, OffIsIdle, DeadFailed, PromptFromZero

\* The loop steps that create and end no worker.
LEMMA GroupsInLoop ==
    ASSUME TypeInv, GroupInv, Collector,
           \/ AwaitManualPause \/ AwaitRefitPause \/ ReadVersion \/ ReadLast \/ CheckLimit
           \/ WarnOncePerVersion \/ NoteWarning \/ ClearLimitEvent \/ AwaitLimitCleared
           \/ BeginBatch \/ ReadLastForTarget \/ DropBatch
           \/ NextPrompt \/ AwaitPromptRefitPause \/ RereadVersion
    PROVE  GroupInv'
<1>1. loop \in LoopRecord
  BY DEF TypeInv, TypeOK, CollectorTypeOK
<1>2. UNCHANGED <<mailbox, phase, workers, reservations, pushes, failures>>
  BY DEF AwaitManualPause, AwaitRefitPause, ReadVersion, ReadLast, CheckLimit,
         WarnOncePerVersion, NoteWarning, ClearLimitEvent, AwaitLimitCleared, BeginBatch,
         ReadLastForTarget, DropBatch, NextPrompt, AwaitPromptRefitPause, RereadVersion,
         loopUnchanged, mainVars, bufferVars, Collector, trainerVars
<1>3. /\ loop.pc # "off" /\ loop'.pc \notin {"off", "dead"}
      /\ \/ /\ loop.pc \notin Spawning /\ loop'.pc \notin Spawning
            /\ loop'.prompt = 0
         \/ /\ loop.pc \in Spawning \ {"start"} /\ loop'.pc \in Spawning \ {"start"}
            /\ UNCHANGED <<loop.target, loop.prompt>>
  <2>1. loop.pc \notin Spawning => loop.prompt = 0
    BY DEF GroupInv, PromptFromZero
  <2> USE DEF Spawning, BeforeSpawn, LoopRecord
  <2>2. CASE AwaitManualPause \/ AwaitRefitPause \/ ReadVersion \/ ReadLast
    BY <1>1, <2>1, <2>2 DEF AwaitManualPause, AwaitRefitPause, ReadVersion, ReadLast, Goto
  <2>3. CASE CheckLimit \/ DropBatch
    BY <2>3 DEF CheckLimit, DropBatch, LoopAt
  <2>4. CASE WarnOncePerVersion \/ NoteWarning \/ ClearLimitEvent \/ AwaitLimitCleared
    BY <1>1, <2>1, <2>4
    DEF WarnOncePerVersion, NoteWarning, ClearLimitEvent, AwaitLimitCleared, Goto
  <2>5. CASE BeginBatch \/ ReadLastForTarget
    BY <1>1, <2>1, <2>5 DEF BeginBatch, ReadLastForTarget
  <2>6. CASE NextPrompt \/ AwaitPromptRefitPause \/ RereadVersion
    BY <1>1, <2>6 DEF NextPrompt, AwaitPromptRefitPause, RereadVersion, Goto
  <2> QED BY <2>2, <2>3, <2>4, <2>5, <2>6
<1> QED BY <1>2, <1>3, GroupsLoopFrame

\* A reservation owes NumPrompts groups, all of them still to be spawned.
LEMMA GroupsAtReserve ==
    ASSUME TypeInv, GroupInv, Collector, ReserveTarget
    PROVE  GroupInv'
<1> DEFINE need == NeedGeneration(loop.version, loop.last)
           target == Min(need)
<1>1. loop \in LoopRecord /\ reservations \in [Target -> Nat]
  BY DEF TypeInv, TypeOK, CollectorTypeOK
<1>2. target \in Target
  <2>1. need \subseteq Target
    BY <1>1, CalculatedAreTargets DEF NeedGeneration, LoopRecord
  <2> QED BY <2>1, MinIsMember DEF ReserveTarget
<1>3. /\ reservations' = [reservations EXCEPT ![target] = @ + 1]
      /\ loop' = [loop EXCEPT !.pc = "nextPrompt", !.target = target, !.last = -1]
      /\ UNCHANGED <<mailbox, phase, workers, pushes, failures>> /\ loop.pc = "reserve"
  BY DEF ReserveTarget, loopUnchanged, mainVars, bufferVars, Collector, trainerVars
<1> HIDE DEF target, need
<1>4. /\ loop'.pc = "nextPrompt" /\ loop'.target = target /\ loop'.prompt = 0
  BY <1>1, <1>3 DEF LoopRecord, GroupInv, PromptFromZero, Spawning, BeforeSpawn
<1>5. \A t \in Target :
         /\ ToSpawn(t) = 0
         /\ ToSpawn(t)' = IF t = target THEN NumPrompts ELSE 0
         /\ reservations'[t] = IF t = target THEN reservations[t] + 1 ELSE reservations[t]
  BY <1>1, <1>2, <1>3, <1>4 DEF ToSpawn
<1>6. GroupsAccounted'
  <2> SUFFICES ASSUME failures = 0, NEW t \in Target
               PROVE  pushes[t] + ToSpawn(t)' + Cardinality(Due(t))
                         = NumPrompts * reservations'[t]
    BY <1>3 DEF GroupsAccounted, Due, Unpushed
  <2>1. /\ pushes[t] + ToSpawn(t) + Cardinality(Due(t)) = NumPrompts * reservations[t]
        /\ pushes[t] \in Nat /\ Cardinality(Due(t)) \in Nat /\ reservations[t] \in Nat
    BY DueIsFinite DEF GroupInv, GroupsAccounted, Due
  <2>2. NumPrompts * (reservations[t] + 1) = NumPrompts * reservations[t] + NumPrompts
    BY <2>1
  <2>3. NumPrompts * reservations[t] \in Nat
    BY <2>1
  <2> QED BY <1>5, <2>1, <2>2, <2>3
<1>7. StartedOnce'
  BY <1>3, StartFrame DEF GroupInv
<1> QED BY <1>3, <1>4, <1>6, <1>7
    DEF GroupInv, OffIsIdle, DeadFailed, PromptFromZero, Spawning

\* A worker takes over a prompt of the loop, and is started.
LEMMA GroupsAtSpawn ==
    ASSUME TypeInv, PermitInv, GroupInv, Collector,
           AcquireAndTrack \/ StartThread \/ EndBatch
    PROVE  GroupInv'
<1>1. /\ loop \in LoopRecord /\ workers \subseteq WorkerRecord /\ IsFiniteSet(workers)
      /\ reservations \in [Target -> Nat]
  BY DEF TypeInv, TypeOK, CollectorTypeOK
<1>2. UNCHANGED <<mailbox, phase, pushes, failures, reservations>>
  BY DEF AcquireAndTrack, StartThread, EndBatch, mainVars, bufferVars, Collector, trainerVars
<1>3. loop.pc # "off" /\ loop'.pc \notin {"off", "dead"}
      /\ (loop'.pc \notin Spawning => loop'.prompt = 0)
  <2> USE DEF LoopRecord, Spawning, BeforeSpawn
  <2>1. CASE AcquireAndTrack
    BY <1>1, <2>1 DEF AcquireAndTrack, Goto
  <2>2. CASE StartThread
    BY <1>1, <2>2 DEF StartThread
  <2>3. CASE EndBatch
    BY <2>3 DEF EndBatch, LoopAt
  <2> QED BY <2>1, <2>2, <2>3
<1>4. StartedOnce'
  BY <1>2, <1>3, StartFrame DEF GroupInv
<1>5. CASE AcquireAndTrack
  <2> DEFINE new == [target |-> loop.target, round |-> reservations[loop.target],
                     prompt |-> loop.prompt, version |-> loop.version,
                     pc |-> "created", tracked |-> TRUE]
  <2>1. workers' = workers \cup {new} /\ loop.pc = "acquire"
        /\ loop' = [loop EXCEPT !.pc = "start"]
    BY <1>5 DEF AcquireAndTrack, Goto
  <2>2. new \notin workers
    <3>1. \A w \in workers : w.target = loop.target /\ w.round = reservations[loop.target]
                               => w.prompt < loop.prompt
      BY <2>1 DEF PermitInv, SpawnedInOrder, Spawning, BeforeSpawn, Spawned
    <3>2. loop.prompt \in Int
      BY <1>1 DEF LoopRecord
    <3> QED BY <3>1, <3>2
  <2>3. new.target = loop.target /\ new.pc = "created"
    OBVIOUS
  <2> HIDE DEF new
  <2>4. \A t \in Target :
           Cardinality(Due(t)') = Cardinality(Due(t)) + IF t = loop.target THEN 1 ELSE 0
    <3> SUFFICES ASSUME NEW t \in Target
                 PROVE  Cardinality(Due(t)') = Cardinality(Due(t))
                                                  + IF t = loop.target THEN 1 ELSE 0
      OBVIOUS
    <3>1. IsFiniteSet(Due(t)) /\ Cardinality(Due(t)) \in Nat
      BY DueIsFinite
    <3>2. CASE t = loop.target
      <4>1. Due(t)' = Due(t) \cup {new} /\ new \notin Due(t)
        BY <2>1, <2>2, <2>3, <3>2 DEF Due, Unpushed
      <4> QED BY <3>1, <3>2, <4>1, FS_AddElement
    <3>3. CASE t # loop.target
      <4>1. Due(t)' = Due(t)
        BY <2>1, <2>3, <3>3 DEF Due, Unpushed
      <4> QED BY <3>1, <3>3, <4>1
    <3> QED BY <3>2, <3>3
  <2>5. \A t \in Target :
           ToSpawn(t)' = ToSpawn(t) - IF t = loop.target THEN 1 ELSE 0
    BY <1>1, <2>1 DEF ToSpawn, LoopRecord
  <2>6. GroupsAccounted'
    <3> SUFFICES ASSUME failures = 0, NEW t \in Target
                 PROVE  pushes[t] + ToSpawn(t)' + Cardinality(Due(t)')
                           = NumPrompts * reservations[t]
      BY <1>2 DEF GroupsAccounted, Due
    <3>1. /\ pushes[t] + ToSpawn(t) + Cardinality(Due(t)) = NumPrompts * reservations[t]
          /\ pushes[t] \in Nat /\ Cardinality(Due(t)) \in Nat /\ ToSpawn(t) \in Int
      BY DueIsFinite DEF GroupInv, GroupsAccounted, Due
    <3> HIDE DEF ToSpawn
    <3> QED BY <2>4, <2>5, <3>1
  <2> QED BY <1>2, <1>3, <1>4, <2>6 DEF GroupInv, OffIsIdle, DeadFailed, PromptFromZero
<1>6. CASE StartThread
  <2> DEFINE f == [w \in workers |-> IF w.pc = "created" THEN [w EXCEPT !.pc = "rollout"]
                                                         ELSE w]
  <2>1. f \in [workers -> WorkerRecord]
    BY <1>1 DEF WorkerRecord, WorkerPC
  <2>2. \A w \in workers : SameWorker(f[w], w) /\ (f[w].pc \in Pending <=> w.pc \in Pending)
    BY <1>1 DEF WorkerRecord, SameWorker, Pending
  <2>3. workers' = {f[w] : w \in workers}
    BY <1>6 DEF StartThread
  <2> HIDE DEF f
  <2>4. \A t \in Target : Cardinality(Due(t)') = Cardinality(Due(t))
    BY <2>1, <2>2, <2>3, SameWorkersDue
  <2>5. \A t \in Target : ToSpawn(t)' = ToSpawn(t)
    BY <1>1, <1>6 DEF ToSpawn, StartThread, LoopRecord
  <2>6. GroupsAccounted'
    BY <1>2, <2>4, <2>5, GroupsFrame DEF GroupInv
  <2> QED BY <1>2, <1>3, <1>4, <2>6 DEF GroupInv, OffIsIdle, DeadFailed, PromptFromZero
<1>7. CASE EndBatch
  <2> DEFINE f == [w \in workers |-> IF w.pc = "created" THEN [w EXCEPT !.tracked = FALSE]
                                                         ELSE w]
  <2>1. f \in [workers -> WorkerRecord]
    BY <1>1 DEF WorkerRecord
  <2>2. \A w \in workers : SameWorker(f[w], w) /\ (f[w].pc \in Pending <=> w.pc \in Pending)
    BY <1>1 DEF WorkerRecord, SameWorker
  <2>3. workers' = {f[w] : w \in workers}
    BY <1>7 DEF EndBatch, FinishedThreadsRemoved
  <2> HIDE DEF f
  <2>4. \A t \in Target : Cardinality(Due(t)') = Cardinality(Due(t))
    BY <2>1, <2>2, <2>3, SameWorkersDue
  <2>5. \A t \in Target : ToSpawn(t)' = ToSpawn(t)
    BY <1>1, <1>7 DEF ToSpawn, EndBatch, LoopAt, LoopRecord
  <2>6. GroupsAccounted'
    BY <1>2, <2>4, <2>5, GroupsFrame DEF GroupInv
  <2> QED BY <1>2, <1>3, <1>4, <2>6 DEF GroupInv, OffIsIdle, DeadFailed, PromptFromZero
<1> QED BY <1>5, <1>6, <1>7

\* A worker that pushes turns one pending group into an accepted one.
LEMMA GroupsInWorkers ==
    ASSUME TypeInv, PermitInv, GroupInv, Collector, NEW w \in workers,
           WorkerSteps(w) \/ RolloutFails(w)
    PROVE  GroupInv'
<1>1. /\ workers \subseteq WorkerRecord /\ pushes \in [Target -> Nat]
      /\ failures \in Nat /\ loop \in LoopRecord
  BY DEF TypeInv, TypeOK, BufferTypeOK, CollectorTypeOK
<1>2. UNCHANGED <<mailbox, phase, loop, reservations>> /\ loop.pc # "off"
  BY DEF WorkerSteps, RolloutFails, PushGroup, PushFull, PushAbandoned, ReleaseFirst,
         EmergencyCleanup, DetachAndRelease, workerUnchanged, collectorVars, mainVars,
         Collector, trainerVars, GroupInv, OffIsIdle
<1>3. StartedOnce'
  BY <1>2, StartFrame DEF GroupInv
<1>4. \A t \in Target : ToSpawn(t)' = ToSpawn(t)
  BY <1>2 DEF ToSpawn
<1>5. failures' \in Nat /\ failures <= failures' /\ (failures' = failures => ~RolloutFails(w))
  BY <1>1 DEF WorkerSteps, RolloutFails, PushGroup, PushFull, PushAbandoned, ReleaseFirst,
              EmergencyCleanup, DetachAndRelease, collectorVars
<1>6. GroupsAccounted'
  <2>1. CASE failures' # 0
    BY <2>1 DEF GroupsAccounted
  <2>2. CASE PushGroup(w)
    <3>1. /\ w.pc = "rollout" /\ w.target \in Target /\ w.pc \in Pending
          /\ pushes' = [pushes EXCEPT ![w.target] = @ + 1] /\ UNCHANGED failures
          /\ \E pc \in {"releaseFirst", "cleanup"} : Moves(w, pc)
      BY <1>1, <2>2 DEF PushGroup, Push, WorkerRecord, Pending
    <3>2. \A t \in Target : Due(t)' = Due(t) \ {w}
      BY <1>1, <3>1 DEF Due, Unpushed, Moves, WorkerRecord
    <3>3. \A t \in Target : w \in Due(t) <=> t = w.target
      BY <3>1 DEF Due, Unpushed
    <3>4. \A t \in Target :
             /\ Cardinality(Due(t)') = Cardinality(Due(t)) - IF t = w.target THEN 1 ELSE 0
             /\ pushes'[t] = pushes[t] + IF t = w.target THEN 1 ELSE 0
      <4> SUFFICES ASSUME NEW t \in Target
                   PROVE  /\ Cardinality(Due(t)') = Cardinality(Due(t))
                                                       - IF t = w.target THEN 1 ELSE 0
                          /\ pushes'[t] = pushes[t] + IF t = w.target THEN 1 ELSE 0
        OBVIOUS
      <4>1. IsFiniteSet(Due(t)) /\ Cardinality(Due(t)) \in Nat /\ pushes[t] \in Nat
        BY DueIsFinite
      <4>2. Cardinality(Due(t) \ {w})
               = IF w \in Due(t) THEN Cardinality(Due(t)) - 1 ELSE Cardinality(Due(t))
        BY <4>1, FS_RemoveElement
      <4>3. pushes'[t] = pushes[t] + IF t = w.target THEN 1 ELSE 0
        BY <1>1, <3>1, <4>1
      <4>4. Due(t)' = Due(t) \ {w} /\ (w \in Due(t) <=> t = w.target)
        BY <3>2, <3>3
      <4>5. Cardinality(Due(t)') = Cardinality(Due(t) \ {w})
        BY <4>4
      <4> QED BY <4>1, <4>2, <4>3, <4>4, <4>5
    <3> QED
      <4> SUFFICES ASSUME failures = 0, NEW t \in Target
                   PROVE  pushes'[t] + ToSpawn(t)' + Cardinality(Due(t)')
                             = NumPrompts * reservations[t]
        BY <1>2, <3>1 DEF GroupsAccounted, Due
      <4>1. /\ pushes[t] + ToSpawn(t) + Cardinality(Due(t)) = NumPrompts * reservations[t]
            /\ pushes[t] \in Nat /\ Cardinality(Due(t)) \in Nat /\ ToSpawn(t) \in Int
        BY DueIsFinite DEF GroupInv, GroupsAccounted, Due
      <4> HIDE DEF ToSpawn
      <4> QED BY <1>4, <3>4, <4>1
  <2>3. ASSUME failures' = 0, UNCHANGED pushes,
               \A t \in Target : Due(t)' = Due(t)
        PROVE  GroupsAccounted'
    <3>1. failures = 0
      BY <1>1, <1>5, <2>3
    <3> QED BY <1>2, <1>4, <2>3, <3>1, GroupsFrame DEF GroupInv
  <2>4. CASE PushFull(w)
    <3>1. UNCHANGED <<workers, pushes>>
      BY <2>4 DEF PushFull, collectorVars, bufferVars
    <3> QED BY <2>1, <2>3, <3>1 DEF Due, Unpushed
  <2>5. CASE PushAbandoned(w)
    <3>1. loop.pc = "dead"
      BY <1>2, <2>5 DEF PushAbandoned, Running
    <3> QED BY <1>1, <1>5, <2>1, <3>1 DEF GroupInv, DeadFailed
  <2>6. CASE ReleaseFirst(w) \/ EmergencyCleanup(w) \/ DetachAndRelease(w)
    <3>1. UNCHANGED pushes /\ w.pc \notin Pending
          /\ (workers' = workers \ {w}
                \/ \E pc \in {"cleanup", "detach"} : Moves(w, pc))
      BY <2>6 DEF ReleaseFirst, EmergencyCleanup, DetachAndRelease, bufferVars, Pending
    <3>2. \A t \in Target : Due(t)' = Due(t)
      BY <1>1, <3>1 DEF Due, Unpushed, Moves, WorkerRecord, Pending
    <3> QED BY <2>1, <2>3, <3>1, <3>2
  <2>7. CASE RolloutFails(w)
    BY <1>1, <2>1, <2>7 DEF RolloutFails
  <2> QED BY <2>2, <2>4, <2>5, <2>6, <2>7 DEF WorkerSteps
<1>7. DeadFailed'
  BY <1>1, <1>2, <1>5 DEF GroupInv, DeadFailed
<1> QED BY <1>2, <1>3, <1>6, <1>7 DEF GroupInv, OffIsIdle, PromptFromZero

\* The inductive strengthening of GroupsAccounted.
LEMMA GroupInvariant == Spec => []GroupInv
<1>1. Init => GroupInv
  <2> SUFFICES ASSUME Init PROVE GroupInv
    OBVIOUS
  <2>1. StartedOnce /\ OffIsIdle /\ DeadFailed /\ PromptFromZero
    BY DEF Init, CollectorInit, LoopAt, StartedOnce, StartCalls, OffIsIdle, DeadFailed,
           PromptFromZero
  <2>2. \A t \in Target : Due(t) = {} /\ ToSpawn(t) = 0 /\ pushes[t] = 0 /\ reservations[t] = 0
    BY DEF Init, BufferInit, CollectorInit, LoopAt, Due, Unpushed, ToSpawn
  <2>3. GroupsAccounted
    <3> SUFFICES ASSUME NEW t \in Target
                 PROVE  pushes[t] + ToSpawn(t) + Cardinality(Due(t))
                           = NumPrompts * reservations[t]
      BY DEF GroupsAccounted, Due
    <3>1. Cardinality(Due(t)) = 0 /\ ToSpawn(t) = 0 /\ pushes[t] = 0 /\ reservations[t] = 0
      BY <2>2, FS_EmptySet
    <3>2. NumPrompts * 0 = 0
      OBVIOUS
    <3> HIDE DEF Due, ToSpawn
    <3> QED BY <3>1, <3>2
  <2> QED BY <2>1, <2>3 DEF GroupInv
<1>2. TypeInv /\ PermitInv /\ GroupInv /\ [Next]_vars => GroupInv'
  <2> SUFFICES ASSUME TypeInv, PermitInv, GroupInv, [Next]_vars PROVE GroupInv'
    OBVIOUS
  <2>1. CASE Trainer
    BY <2>1, GroupsInTrainer
  <2>2. CASE Collector /\ DataloaderFails
    <3>1. /\ UNCHANGED <<mailbox, phase>> /\ loop.pc = "fetch" /\ failures' = failures + 1
          /\ loop' = LoopAt("dead") /\ failures \in Nat
      BY <2>2 DEF DataloaderFails, mainVars, Collector, trainerVars, TypeInv, TypeOK,
                  CollectorTypeOK
    <3>2. StartedOnce'
      BY <3>1, StartFrame DEF GroupInv
    <3> QED BY <3>1, <3>2 DEF GroupInv, OffIsIdle, DeadFailed, PromptFromZero,
                              GroupsAccounted, LoopAt
  <2>3. CASE Collector /\ CollectionLoop
    BY <2>3, GroupsInLoop, GroupsAtReserve, GroupsAtSpawn DEF CollectionLoop
  <2>4. CASE Collector
    BY <2>2, <2>3, <2>4, GroupsInCalls, GroupsInWorkers DEF Collector, CollectorNext
  <2>5. CASE UNCHANGED vars
    <3>1. UNCHANGED <<mailbox, phase, loop, workers, failures, reservations, pushes>>
      BY <2>5 DEF vars, bufferVars, collectorVars, trainerVars
    <3> QED BY <3>1, StartFrame
        DEF GroupInv, OffIsIdle, DeadFailed, PromptFromZero, GroupsAccounted, ToSpawn,
            Unpushed
  <2>6. CASE TrainerRaises
    <3>1. /\ UNCHANGED <<mailbox, loop, workers>> /\ phase' = "raised"
          /\ failures' = failures + 1 /\ failures \in Nat
      BY <2>6 DEF TrainerRaises, mainVars, TypeInv, TypeOK, CollectorTypeOK
    <3>2. StartedOnce'
      BY <3>1, StartFrame DEF GroupInv
    <3> QED BY <3>1, <3>2
        DEF GroupInv, OffIsIdle, DeadFailed, PromptFromZero, GroupsAccounted
  <2> QED BY <2>1, <2>4, <2>5, <2>6 DEF Next, Terminated
<1> QED BY <1>1, <1>2, TypeInvariant, PermitInvariant, PTL DEF Spec

\* While nothing failed, every reservation of a target accounts for exactly
\* num_prompts_per_step groups, each to be spawned, being generated or accepted.
THEOREM GroupsAreAccounted == Spec => []GroupsAccounted
<1>1. GroupInv => GroupsAccounted
  BY DEF GroupInv
<1> QED BY <1>1, GroupInvariant, PTL

-----------------------------------------------------------------------------
(* Versions.  The invariant says what is in the mailbox while the          *)
(* collector lags.                                                         *)

\* The calls that are not answered.
Queued == {mailbox[i] : i \in 1..Len(mailbox)}
IsSet(c) == c.method = "set_weight_version"

\* Only the last published version is ever on its way.
SetsArePublished == \A c \in Queued : IsSet(c) => c.version = weightVersion

\* A collector that lags will be told.
LagIsQueued == current = weightVersion \/ \E c \in Queued : IsSet(c)

\* The call the main thread is inside of is the first of the mailbox.
InsideHead ==
    /\ mainPc = "wake" => IsSet(Head(mailbox)) /\ current = weightVersion
    /\ mainPc = "pending" => ~IsSet(Head(mailbox))

\* When the weights are replaced every call has been answered.
RefitIsAnswered == phase = "refit" => mailbox = << >>

VersionsBounded ==
    /\ current <= weightVersion /\ weightVersion <= current + 1
    /\ loop.version <= weightVersion
    /\ \A w \in workers : w.version <= weightVersion

VersionInv == SetsArePublished /\ LagIsQueued /\ InsideHead /\ RefitIsAnswered
                 /\ VersionsBounded

\* Sending adds the new calls to the queued ones and leaves the first alone.
LEMMA SendQueues ==
    ASSUME mailbox \in Seq(Call), NEW calls \in Seq(Call), Send(calls)
    PROVE  /\ Queued' = Queued \cup {calls[i] : i \in 1..Len(calls)}
           /\ mailbox # << >> => Head(mailbox') = Head(mailbox)
<1>1. /\ mailbox' \in Seq(Call) /\ Len(mailbox') = Len(mailbox) + Len(calls)
      /\ \A i \in 1..(Len(mailbox) + Len(calls)) :
            mailbox'[i] = IF i <= Len(mailbox) THEN mailbox[i] ELSE calls[i - Len(mailbox)]
  BY ConcatProperties DEF Send
<1>2. Len(mailbox) \in Nat /\ Len(calls) \in Nat
  BY LenProperties
<1>3. Queued' \subseteq Queued \cup {calls[i] : i \in 1..Len(calls)}
  BY <1>1, <1>2 DEF Queued
<1>4. Queued \subseteq Queued'
  BY <1>1, <1>2 DEF Queued
<1>5. ASSUME NEW i \in 1..Len(calls) PROVE calls[i] \in Queued'
  <2>1. i + Len(mailbox) \in 1..(Len(mailbox) + Len(calls)) /\ ~(i + Len(mailbox) <= Len(mailbox))
    BY <1>2
  <2>2. mailbox'[i + Len(mailbox)] = calls[i]
    BY <1>1, <1>2, <2>1
  <2> QED BY <1>1, <2>1, <2>2 DEF Queued
<1>6. mailbox # << >> => Head(mailbox') = Head(mailbox)
  <2> SUFFICES ASSUME mailbox # << >> PROVE Head(mailbox') = Head(mailbox)
    OBVIOUS
  <2>1. Len(mailbox) >= 1
    BY <1>2, EmptySeq
  <2>2. mailbox' # << >> /\ mailbox'[1] = mailbox[1]
    BY <1>1, <1>2, <2>1
  <2> QED BY <1>1, <2>2, HeadTailProperties
<1> QED BY <1>3, <1>4, <1>5, <1>6

\* Answering takes the first call away.
LEMMA ReturnUnqueues ==
    ASSUME mailbox \in Seq(Call), mailbox # << >>, Return
    PROVE  /\ Queued' \subseteq Queued /\ Queued \subseteq Queued' \cup {Head(mailbox)}
           /\ Head(mailbox) \in Queued
<1>1. /\ mailbox' = Tail(mailbox) /\ mailbox' \in Seq(Call) /\ Head(mailbox) = mailbox[1]
      /\ Len(mailbox') = Len(mailbox) - 1 /\ Len(mailbox) \in Nat \ {0}
      /\ \A i \in 1..Len(mailbox') : mailbox'[i] = mailbox[i + 1]
  BY HeadTailProperties, EmptySeq DEF Return
<1>2. Queued' \subseteq Queued /\ Head(mailbox) \in Queued
  BY <1>1 DEF Queued
<1>3. ASSUME NEW i \in 1..Len(mailbox), i # 1 PROVE mailbox[i] \in Queued'
  <2>1. i - 1 \in 1..Len(mailbox')
    BY <1>1, <1>3
  <2>2. mailbox'[i - 1] = mailbox[i]
    BY <1>1, <2>1
  <2> QED BY <2>1, <2>2 DEF Queued
<1> QED BY <1>1, <1>2, <1>3 DEF Queued

\* What a type-correct state says of the versions.
LEMMA VersionTypes ==
    ASSUME TypeInv
    PROVE  /\ current \in Int /\ weightVersion \in Int /\ loop.version \in Int
           /\ current \in Version /\ mailbox \in Seq(Call) /\ loop \in LoopRecord
           /\ workers \subseteq WorkerRecord /\ \A w \in workers : w.version \in Int
           /\ mainPc # "idle" => mailbox # << >>
BY DEF TypeInv, TypeOK, CollectorTypeOK, BusyOnACall, Version, LoopRecord, WorkerRecord

\* A step that exchanges no call with the collector keeps the invariant if the
\* versions of the loop and of its workers stay published.
LEMMA VersionFrame ==
    ASSUME VersionInv, UNCHANGED <<mainVars, weightVersion>>,
           phase' = "refit" => phase = "refit" \/ mailbox = << >>,
           loop'.version <= weightVersion, \A w \in workers' : w.version <= weightVersion
    PROVE  VersionInv'
BY DEF VersionInv, SetsArePublished, LagIsQueued, InsideHead, RefitIsAnswered,
       VersionsBounded, Queued, IsSet, mainVars

\* The loop labels a group with a version it has read.
LEMMA VersionsInLoop ==
    ASSUME TypeInv, VersionInv, Collector, CollectionLoop \/ DataloaderFails
    PROVE  VersionInv'
<1>1. /\ loop \in LoopRecord /\ weightVersion \in Int /\ StartStep <= weightVersion
      /\ current <= weightVersion /\ loop.version <= weightVersion
      /\ \A w \in workers : w.version <= weightVersion
  BY VersionTypes DEF TypeInv, TypeOK, Version, VersionInv, VersionsBounded
<1>2. UNCHANGED <<mainVars, weightVersion, phase>>
  BY DEF Collector, trainerVars, CollectionLoop, DataloaderFails, AwaitManualPause,
         AwaitRefitPause, ReadVersion, ReadLast, CheckLimit, WarnOncePerVersion, NoteWarning,
         ClearLimitEvent, AwaitLimitCleared, BeginBatch, ReadLastForTarget, ReserveTarget,
         DropBatch, NextPrompt, AwaitPromptRefitPause, RereadVersion, AcquireAndTrack,
         StartThread, EndBatch, loopUnchanged
<1> USE DEF LoopRecord
<1>3. CASE DataloaderFails \/ CheckLimit \/ DropBatch
  BY <1>1, <1>2, <1>3, VersionFrame
  DEF DataloaderFails, CheckLimit, DropBatch, LoopAt, loopUnchanged
<1>4. CASE AwaitManualPause \/ AwaitRefitPause \/ ClearLimitEvent \/ AwaitLimitCleared
           \/ AwaitPromptRefitPause \/ NextPrompt \/ WarnOncePerVersion \/ NoteWarning
  BY <1>1, <1>2, <1>4, VersionFrame
  DEF AwaitManualPause, AwaitRefitPause, ClearLimitEvent, AwaitLimitCleared,
      AwaitPromptRefitPause, NextPrompt, WarnOncePerVersion, NoteWarning, Goto, loopUnchanged
<1>5. CASE ReadVersion \/ BeginBatch \/ RereadVersion
  BY <1>1, <1>2, <1>5, VersionFrame DEF ReadVersion, BeginBatch, RereadVersion, loopUnchanged
<1>6. CASE ReadLast \/ ReadLastForTarget \/ ReserveTarget
  BY <1>1, <1>2, <1>6, VersionFrame
  DEF ReadLast, ReadLastForTarget, ReserveTarget, loopUnchanged
<1>7. CASE AcquireAndTrack
  <2>1. loop'.version = loop.version
    BY <1>1, <1>7 DEF AcquireAndTrack, Goto
  <2>2. \A w \in workers' : w.version <= weightVersion
    BY <1>1, <1>7 DEF AcquireAndTrack
  <2> QED BY <1>1, <1>2, <2>1, <2>2, VersionFrame
<1>8. CASE StartThread
  <2>1. loop'.version = loop.version
    BY <1>1, <1>8 DEF StartThread
  <2>2. \A w \in workers' : w.version <= weightVersion
    BY <1>1, <1>8, VersionTypes DEF StartThread, WorkerRecord
  <2> QED BY <1>1, <1>2, <2>1, <2>2, VersionFrame
<1>9. CASE EndBatch
  <2>1. loop'.version <= weightVersion
    BY <1>1, <1>9 DEF EndBatch, LoopAt
  <2>2. \A w \in workers' : w.version <= weightVersion
    BY <1>1, <1>9, VersionTypes DEF EndBatch, FinishedThreadsRemoved, WorkerRecord
  <2> QED BY <1>1, <1>2, <2>1, <2>2, VersionFrame
<1> QED BY <1>3, <1>4, <1>5, <1>6, <1>7, <1>8, <1>9 DEF CollectionLoop

\* A worker keeps the version it was given.
LEMMA VersionsInWorkers ==
    ASSUME TypeInv, VersionInv, Collector, NEW w \in workers,
           WorkerSteps(w) \/ RolloutFails(w)
    PROVE  VersionInv'
<1>1. UNCHANGED <<mainVars, weightVersion, phase, loop>>
  BY DEF Collector, trainerVars, WorkerSteps, RolloutFails, PushGroup,
         PushFull, PushAbandoned, ReleaseFirst, EmergencyCleanup, DetachAndRelease,
         workerUnchanged, collectorVars, mainVars
<1>2. \/ \E pc \in WorkerPC : Moves(w, pc)
      \/ workers' \subseteq workers
  BY DEF WorkerSteps, RolloutFails, PushGroup, PushFull, PushAbandoned,
         ReleaseFirst, EmergencyCleanup, DetachAndRelease, collectorVars, WorkerPC
<1>3. \A v \in workers' : v.version <= weightVersion
  BY <1>2, VersionTypes DEF Moves, WorkerRecord, VersionInv, VersionsBounded
<1> QED BY <1>1, <1>3, VersionFrame DEF VersionInv, VersionsBounded

\* The main thread takes over the published version and no other.
LEMMA VersionsInCalls ==
    ASSUME TypeInv, VersionInv, Collector, MainThread
    PROVE  VersionInv'
<1>1. /\ mailbox \in Seq(Call) /\ current \in Int /\ weightVersion \in Int
      /\ mainPc # "idle" => mailbox # << >>
  BY VersionTypes
<1>2. UNCHANGED <<weightVersion, phase>>
  BY DEF Collector, trainerVars
<1>3. mailbox # << >> /\ phase # "refit"
  BY <1>1 DEF MainThread, StartCollection, SetWeightVersion, WakeLoop, Pause, Resume,
              PrepareForRefit, ResumeAfterRefit, WaitForPendingGenerations, PollPending,
              Called, VersionInv, RefitIsAnswered
<1>4. RefitIsAnswered'
  BY <1>2, <1>3 DEF RefitIsAnswered
<1>5. /\ loop'.version <= weightVersion
      /\ \A w \in workers' : w.version <= weightVersion
  BY VersionTypes
  DEF MainThread, StartCollection, SetWeightVersion, WakeLoop, Pause, Resume,
      PrepareForRefit, ResumeAfterRefit, WaitForPendingGenerations, PollPending,
      FinishedThreadsRemoved, Goto, WorkerRecord, LoopRecord, VersionInv, VersionsBounded
<1>6. CASE SetWeightVersion
  <2>1. Head(mailbox) \in Queued /\ IsSet(Head(mailbox))
    BY <1>1, <1>3, <1>6, HeadTailProperties, EmptySeq
    DEF SetWeightVersion, Called, IsSet, Queued
  <2>2. current' = weightVersion /\ mainPc' = "wake" /\ UNCHANGED mailbox
    BY <1>6, <2>1 DEF SetWeightVersion, VersionInv, SetsArePublished
  <2> QED BY <1>1, <1>2, <1>4, <1>5, <2>1, <2>2
      DEF VersionInv, SetsArePublished, LagIsQueued, InsideHead, VersionsBounded, Queued,
          IsSet
<1>7. ASSUME Return, UNCHANGED current,
             ~IsSet(Head(mailbox)) \/ current = weightVersion
      PROVE  VersionInv'
  <2>1. mainPc' = "idle"
    BY <1>7 DEF Return
  <2>2. SetsArePublished' /\ LagIsQueued'
    BY <1>1, <1>2, <1>3, <1>7, ReturnUnqueues DEF VersionInv, SetsArePublished, LagIsQueued
  <2>3. InsideHead'
    BY <2>1 DEF InsideHead
  <2>4. VersionsBounded'
    BY <1>2, <1>5, <1>7 DEF VersionInv, VersionsBounded
  <2> QED BY <1>4, <2>2, <2>3, <2>4 DEF VersionInv
<1>8. ASSUME UNCHANGED <<mailbox, current>>, mainPc' = "pending", ~IsSet(Head(mailbox))
      PROVE  VersionInv'
  BY <1>1, <1>2, <1>4, <1>5, <1>8
  DEF VersionInv, SetsArePublished, LagIsQueued, InsideHead, VersionsBounded, Queued, IsSet
<1>9. CASE WakeLoop
  BY <1>7, <1>9 DEF WakeLoop, VersionInv, InsideHead
<1>10. CASE StartCollection \/ Pause \/ Resume \/ ResumeAfterRefit
  BY <1>7, <1>10 DEF StartCollection, Pause, Resume, ResumeAfterRefit, Called, IsSet
<1>11. CASE PrepareForRefit \/ WaitForPendingGenerations
  BY <1>7, <1>8, <1>11 DEF PrepareForRefit, WaitForPendingGenerations, Called, IsSet
<1>12. CASE PollPending
  BY <1>7, <1>8, <1>12 DEF PollPending, VersionInv, InsideHead
<1> QED BY <1>6, <1>9, <1>10, <1>11, <1>12 DEF MainThread

\* Sending calls that announce no version keeps the invariant.
LEMMA VersionsSendPlain ==
    ASSUME TypeInv, VersionInv, NEW calls \in Seq(Call), Send(calls),
           \A i \in 1..Len(calls) : IsSet(calls[i]) => calls[i].version = weightVersion,
           UNCHANGED <<current, mainPc, loop, workers, weightVersion>>,
           phase' # "refit"
    PROVE  VersionInv'
<1>1. /\ mailbox \in Seq(Call)
      /\ mainPc # "idle" => mailbox # << >>
  BY VersionTypes
<1>2. /\ Queued' = Queued \cup {calls[i] : i \in 1..Len(calls)}
      /\ mailbox # << >> => Head(mailbox') = Head(mailbox)
  BY <1>1, SendQueues
<1>3. SetsArePublished' /\ LagIsQueued'
  BY <1>2 DEF VersionInv, SetsArePublished, LagIsQueued
<1>4. InsideHead'
  BY <1>1, <1>2 DEF VersionInv, InsideHead
<1>5. RefitIsAnswered' /\ VersionsBounded'
  BY DEF VersionInv, RefitIsAnswered, VersionsBounded
<1> QED BY <1>3, <1>4, <1>5 DEF VersionInv

\* The trainer publishes a version only when the collector knows the last one.
LEMMA VersionsInTrainer ==
    ASSUME TypeInv, VersionInv, Trainer
    PROVE  VersionInv'
<1>1. /\ weightVersion \in Version /\ mailbox \in Seq(Call) /\ StartStep \in Version
      /\ \A m \in Method, v \in Version : CallOf(m, v) \in Call
  BY Ranges, CallsAreCalls DEF TypeInv, TypeOK, CollectorTypeOK
<1>2. ASSUME NEW m \in Method, m # "set_weight_version", SendPlain(m),
             UNCHANGED <<current, mainPc, loop, workers, weightVersion>>, phase' # "refit"
      PROVE  VersionInv'
  <2> DEFINE calls == <<CallOf(m, StartStep)>>
  <2>1. calls \in Seq(Call) /\ Send(calls)
    BY <1>1, <1>2 DEF SendPlain
  <2>2. \A i \in 1..Len(calls) : ~IsSet(calls[i])
    BY <1>2 DEF IsSet, CallOf
  <2> HIDE DEF calls
  <2> QED BY <1>2, <2>1, <2>2, VersionsSendPlain
<1>3. CASE StartUp
  <2> DEFINE calls == <<CallOf("start_collection", StartStep),
                        CallOf("set_weight_version", weightVersion)>>
  <2>1. calls \in Seq(Call) /\ Send(calls)
    BY <1>1, <1>3 DEF StartUp, Method
  <2>2. \A i \in 1..Len(calls) : IsSet(calls[i]) => calls[i].version = weightVersion
    BY DEF IsSet, CallOf
  <2> HIDE DEF calls
  <2>3. UNCHANGED <<current, mainPc, loop, workers, weightVersion>> /\ phase' # "refit"
    BY <1>3 DEF StartUp, actorsUnchanged
  <2> QED BY <2>1, <2>2, <2>3, VersionsSendPlain
<1>4. CASE InitialValidation \/ Train \/ EndValidation \/ EndCheckpoint
  BY <1>2, <1>4
  DEF InitialValidation, Train, EndValidation, EndCheckpoint, actorsUnchanged, Method
<1>5. ASSUME UNCHANGED <<mainVars, weightVersion, loop, workers>>,
             phase' = "refit" => phase = "refit" \/ mailbox = << >>
      PROVE  VersionInv'
  BY <1>5, VersionFrame DEF VersionInv, VersionsBounded
<1>6. CASE InitialRefit \/ BeginValidation
  BY <1>2, <1>5, <1>6
  DEF InitialRefit, BeginValidation, actorsUnchanged, mainVars, Method
<1>7. CASE FillBuffer \/ BufferNotFilled \/ SampleBatch \/ SampleNone \/ SampleRaises
           \/ RefitPrepared \/ Quiesced \/ Advance
  BY <1>5, <1>7
  DEF FillBuffer, BufferNotFilled, SampleBatch, SampleNone, SampleRaises, RefitPrepared,
      Quiesced, Advance, Answered, actorsUnchanged, mainVars, vars, collectorVars,
      trainerVars
<1>8. CASE Refit
  <2> DEFINE set == CallOf("set_weight_version", weightVersion + 1)
             resume == CallOf("resume_after_refit", StartStep)
  <2>1. mailbox = << >> /\ current = weightVersion
    BY <1>8 DEF Refit, VersionInv, RefitIsAnswered, LagIsQueued, Queued
  <2>2. weightVersion + 1 \in Version
    BY <1>1, <1>8 DEF Refit, TypeInv, StepsInPhase, Version
  <2>3. <<set, resume>> \in Seq(Call)
    BY <1>1, <2>2 DEF Method
  <2>4. Queued' = {set, resume}
    <3>1. Queued' = Queued \cup {<<set, resume>>[i] : i \in 1..Len(<<set, resume>>)}
      BY <1>1, <1>8, <2>3, SendQueues DEF Refit
    <3>2. Queued = {}
      BY <2>1 DEF Queued
    <3> HIDE DEF set, resume
    <3>3. {<<set, resume>>[i] : i \in 1..Len(<<set, resume>>)} = {set, resume}
      OBVIOUS
    <3> QED BY <3>1, <3>2, <3>3
  <2>5. IsSet(set) /\ set.version = weightVersion + 1 /\ ~IsSet(resume)
    BY DEF IsSet, CallOf
  <2> HIDE DEF set, resume
  <2>6. weightVersion' = weightVersion + 1 /\ phase' # "refit"
        /\ UNCHANGED <<current, mainPc, loop, workers>>
    BY <1>8 DEF Refit, actorsUnchanged
  <2>7. SetsArePublished' /\ LagIsQueued'
    BY <2>4, <2>5, <2>6 DEF SetsArePublished, LagIsQueued
  <2>8. InsideHead' /\ RefitIsAnswered'
    BY <2>1, <2>6, VersionTypes DEF InsideHead, RefitIsAnswered
  <2>9. VersionsBounded'
    BY <2>1, <2>6, VersionTypes DEF VersionInv, VersionsBounded
  <2> QED BY <2>7, <2>8, <2>9 DEF VersionInv
<1>9. CASE BeginCheckpoint
  <2>1. CASE UNCHANGED mailbox
    BY <1>5, <1>9, <2>1 DEF BeginCheckpoint, actorsUnchanged, mainVars
  <2>2. CASE Send(<<CallOf("pause", StartStep),
                    CallOf("wait_for_pending_generations", StartStep)>>)
    <3> DEFINE calls == <<CallOf("pause", StartStep),
                          CallOf("wait_for_pending_generations", StartStep)>>
    <3>1. calls \in Seq(Call) /\ Send(calls)
      BY <1>1, <2>2 DEF Method
    <3>2. \A i \in 1..Len(calls) : ~IsSet(calls[i])
      BY DEF IsSet, CallOf
    <3> HIDE DEF calls
    <3>3. UNCHANGED <<current, mainPc, loop, workers, weightVersion>> /\ phase' # "refit"
      BY <1>9 DEF BeginCheckpoint, actorsUnchanged
    <3> QED BY <3>1, <3>2, <3>3, VersionsSendPlain
  <2> QED BY <1>9, <2>1, <2>2 DEF BeginCheckpoint
<1> QED BY <1>3, <1>4, <1>6, <1>7, <1>8, <1>9 DEF Trainer

\* The inductive strengthening of LabelsPublished.
LEMMA VersionInvariant == Spec => []VersionInv
<1>1. Init => VersionInv
  BY DEF Init, CollectorInit, LoopAt, VersionInv, SetsArePublished, LagIsQueued, InsideHead,
         RefitIsAnswered, VersionsBounded, Queued
<1>2. TypeInv /\ VersionInv /\ [Next]_vars => VersionInv'
  <2> SUFFICES ASSUME TypeInv, VersionInv, [Next]_vars PROVE VersionInv'
    OBVIOUS
  <2>1. CASE Trainer
    BY <2>1, VersionsInTrainer
  <2>2. CASE Collector
    BY <2>2, VersionsInCalls, VersionsInLoop, VersionsInWorkers DEF Collector, CollectorNext
  <2>3. CASE UNCHANGED vars
    BY <2>3, VersionFrame
    DEF vars, collectorVars, trainerVars, mainVars, VersionInv, VersionsBounded
  <2>4. CASE TrainerRaises
    BY <2>4, VersionFrame DEF TrainerRaises, mainVars, VersionInv, VersionsBounded
  <2> QED BY <2>1, <2>2, <2>3, <2>4 DEF Next, Terminated
<1> QED BY <1>1, <1>2, TypeInvariant, PTL DEF Spec

\* No rollout is ever labelled with weights that were not published; the collector
\* lags by at most one version, and not at all while the weights are replaced.
THEOREM LabelsArePublished == Spec => []LabelsPublished
<1>1. VersionInv => LabelsPublished
  BY DEF VersionInv, VersionsBounded, RefitIsAnswered, LagIsQueued, Queued, LabelsPublished
<1> QED BY <1>1, VersionInvariant, PTL

-----------------------------------------------------------------------------
(* At most one rollout starts while the weights are replaced. *)

Tracked == {w \in workers : w.tracked}

\* The loop has passed its check of the refit pause and creates a worker next.
PastTheCheck == loop.pc \in {"rereadVersion", "acquire"}

\* What the trainer waits for before a refit is the last call it made.
PrepareIsLast ==
    phase = "prepareRefit" /\ mailbox # << >>
        => mailbox[Len(mailbox)].method = "prepare_for_refit"

\* While the main thread waits in prepare_for_refit the loop is held at its check.
HeldInPrepare ==
    mainPc = "pending" /\ Head(mailbox).method = "prepare_for_refit" => ~refitCleared

\* prepare_for_refit has returned and the weights are not replaced yet.
Quiet == phase = "refit" \/ (phase = "prepareRefit" /\ mailbox = << >>)

\* Then the loop stays held, and either one worker is tracked or the loop may
\* still create one.
OneMayStart ==
    /\ ~refitCleared
    /\ \A v, w \in Tracked : v = w
    /\ PastTheCheck => Tracked = {}

StragglerInv ==
    PrepareIsLast /\ HeldInPrepare /\ (~InFlightUpdates /\ Quiet => OneMayStart)

\* The trainer's steps by what they do to the wait for prepare_for_refit.
LEMMA TrainerWaits ==
    ASSUME TypeInv, Trainer
    PROVE  /\ UNCHANGED <<mainPc, refitCleared, workers, loop>>
           /\ mailbox # << >> => Head(mailbox') = Head(mailbox)
           /\ Train \/ RefitPrepared \/ phase' \notin {"prepareRefit", "refit"}
<1>1. UNCHANGED <<mainPc, refitCleared, workers, loop>>
  BY DEF Trainer, StartUp, InitialRefit, InitialValidation, FillBuffer, BufferNotFilled,
         SampleBatch, SampleNone, SampleRaises, Train, RefitPrepared, Refit, BeginValidation,
         EndValidation, BeginCheckpoint, Quiesced, EndCheckpoint, Advance, actorsUnchanged,
         vars, collectorVars, pauseVars
<1>2. Train \/ RefitPrepared \/ phase' \notin {"prepareRefit", "refit"}
  BY DEF Trainer, StartUp, InitialRefit, InitialValidation, FillBuffer, BufferNotFilled,
         SampleBatch, SampleNone, SampleRaises, Refit, BeginValidation, EndValidation,
         BeginCheckpoint, Quiesced, EndCheckpoint, Advance, vars, trainerVars
<1>3. /\ mailbox \in Seq(Call) /\ StartStep \in Version /\ weightVersion \in Version
      /\ \A m \in Method, v \in Version : CallOf(m, v) \in Call
  BY Ranges, CallsAreCalls DEF TypeInv, TypeOK, CollectorTypeOK
<1>4. ASSUME NEW m \in Method, SendPlain(m)
      PROVE  mailbox # << >> => Head(mailbox') = Head(mailbox)
  <2>1. <<CallOf(m, StartStep)>> \in Seq(Call)
    BY <1>3
  <2> QED BY <1>3, <1>4, <2>1, SendQueues DEF SendPlain
<1>5. ASSUME NEW m \in Method, NEW n \in Method, NEW v \in Version, NEW u \in Version,
             Send(<<CallOf(m, v), CallOf(n, u)>>)
      PROVE  mailbox # << >> => Head(mailbox') = Head(mailbox)
  <2>1. <<CallOf(m, v), CallOf(n, u)>> \in Seq(Call)
    BY <1>3
  <2> QED BY <1>3, <1>5, <2>1, SendQueues
<1>6. mailbox # << >> => Head(mailbox') = Head(mailbox)
  <2>1. CASE InitialRefit \/ InitialValidation \/ Train \/ BeginValidation \/ EndValidation
             \/ EndCheckpoint
    BY <1>4, <2>1
    DEF InitialRefit, InitialValidation, Train, BeginValidation, EndValidation,
        EndCheckpoint, Method
  <2>2. CASE StartUp \/ BeginCheckpoint
    BY <1>3, <1>5, <2>2 DEF StartUp, BeginCheckpoint, Method
  <2>3. CASE Refit
    <3>1. weightVersion + 1 \in Version
      BY <1>3, <2>3 DEF Refit, TypeInv, StepsInPhase, Version
    <3> QED BY <1>3, <1>5, <2>3, <3>1 DEF Refit, Method
  <2>4. CASE FillBuffer \/ BufferNotFilled \/ SampleBatch \/ SampleNone \/ SampleRaises
             \/ RefitPrepared \/ Quiesced \/ Advance
    BY <2>4
    DEF FillBuffer, BufferNotFilled, SampleBatch, SampleNone, SampleRaises, RefitPrepared,
        Quiesced, Advance, vars, collectorVars
  <2> QED BY <2>1, <2>2, <2>3, <2>4 DEF Trainer
<1> QED BY <1>1, <1>2, <1>6

\* The trainer asks for prepare_for_refit last.
LEMMA StragglerInTrainer ==
    ASSUME TypeInv, VersionInv, StragglerInv, Trainer
    PROVE  StragglerInv'
<1>1. mailbox \in Seq(Call) /\ (mainPc # "idle" => mailbox # << >>)
  BY VersionTypes
<1>2. HeldInPrepare'
  BY <1>1, TrainerWaits DEF StragglerInv, HeldInPrepare
<1>3. CASE Train
  <2> DEFINE c == CallOf("prepare_for_refit", StartStep)
  <2>1. c \in Call /\ c.method = "prepare_for_refit" /\ mailbox' = mailbox \o <<c>>
    BY <1>3, Ranges, CallsAreCalls DEF Train, SendPlain, Send, Method, CallOf
  <2> HIDE DEF c
  <2>2. <<c>> \in Seq(Call) /\ Len(<<c>>) = 1 /\ <<c>>[1] = c
    BY <2>1
  <2>3. Len(mailbox') = Len(mailbox) + 1 /\ mailbox'[Len(mailbox) + 1] = c
        /\ Len(mailbox) \in Nat
    BY <1>1, <2>1, <2>2, ConcatProperties, LenProperties
  <2>4. PrepareIsLast' /\ mailbox' # << >>
    BY <2>1, <2>3 DEF PrepareIsLast
  <2>5. ~Quiet'
    BY <1>3, <2>4 DEF Train, Quiet
  <2> QED BY <1>2, <2>4, <2>5 DEF StragglerInv
<1>4. CASE RefitPrepared
  <2>1. Quiet /\ UNCHANGED <<refitCleared, workers, loop, mailbox>> /\ phase' = "refit"
    BY <1>4 DEF RefitPrepared, Answered, Quiet, actorsUnchanged, pauseVars
  <2>2. ~InFlightUpdates => OneMayStart'
    BY <2>1 DEF StragglerInv, OneMayStart, PastTheCheck, Tracked
  <2> QED BY <1>2, <2>1, <2>2 DEF StragglerInv, PrepareIsLast
<1>5. CASE phase' \notin {"prepareRefit", "refit"}
  BY <1>2, <1>5 DEF StragglerInv, PrepareIsLast, Quiet
<1> QED BY <1>3, <1>4, <1>5, TrainerWaits

\* The main thread answers prepare_for_refit when no worker is tracked.
LEMMA StragglerInCalls ==
    ASSUME TypeInv, VersionInv, StragglerInv, Collector, MainThread
    PROVE  StragglerInv'
<1>1. /\ mailbox \in Seq(Call) /\ mailbox # << >> /\ phase # "refit" /\ UNCHANGED phase
  BY VersionTypes
  DEF MainThread, StartCollection, SetWeightVersion, WakeLoop, Pause, Resume,
      PrepareForRefit, ResumeAfterRefit, WaitForPendingGenerations, PollPending,
      Called, VersionInv, RefitIsAnswered, Collector, trainerVars
<1>2. CASE UNCHANGED mailbox
  <2>1. HeldInPrepare'
    BY <1>2 DEF StragglerInv, HeldInPrepare, MainThread, StartCollection, SetWeightVersion,
                WakeLoop, Pause, Resume, PrepareForRefit, ResumeAfterRefit,
                WaitForPendingGenerations, PollPending, Called, Return, pauseVars
  <2> QED BY <1>1, <1>2, <2>1 DEF StragglerInv, PrepareIsLast, Quiet
<1>3. CASE Return
  <2>1. /\ mailbox' = Tail(mailbox) /\ mailbox' \in Seq(Call) /\ Head(mailbox) = mailbox[1]
        /\ Len(mailbox') = Len(mailbox) - 1 /\ Len(mailbox) \in Nat \ {0}
        /\ \A i \in 1..Len(mailbox') : mailbox'[i] = mailbox[i + 1]
    BY <1>1, <1>3, HeadTailProperties, EmptySeq DEF Return
  <2>2. HeldInPrepare'
    BY <1>3 DEF Return, HeldInPrepare
  <2>3. PrepareIsLast'
    <3> SUFFICES ASSUME phase' = "prepareRefit", mailbox' # << >>
                 PROVE  mailbox'[Len(mailbox')].method = "prepare_for_refit"
      BY DEF PrepareIsLast
    <3>1. Len(mailbox') \in 1..Len(mailbox')
      BY <2>1, EmptySeq, LenProperties
    <3>2. mailbox'[Len(mailbox')] = mailbox[Len(mailbox)]
      BY <2>1, <3>1
    <3> QED BY <1>1, <3>2 DEF StragglerInv, PrepareIsLast
  <2>4. ASSUME ~InFlightUpdates, Quiet' PROVE OneMayStart'
    <3>1. phase = "prepareRefit" /\ mailbox' = << >>
      BY <1>1, <2>4 DEF Quiet
    <3>2. Len(mailbox) = 1
      <4>1. Len(mailbox') = 0
        BY <3>1
      <4> QED BY <2>1, <4>1
    <3>3. Head(mailbox).method = "prepare_for_refit"
      BY <1>1, <2>1, <3>1, <3>2 DEF StragglerInv, PrepareIsLast
    <3>4. PollPending
      BY <1>1, <1>3, <2>4, <3>3
      DEF MainThread, StartCollection, SetWeightVersion, WakeLoop, Pause, Resume,
          PrepareForRefit, ResumeAfterRefit, WaitForPendingGenerations, Called, Return,
          VersionInv, InsideHead, IsSet
    <3>5. ~refitCleared' /\ Tracked' = {}
      BY <1>1, <1>3, <2>1, <3>1, <3>3, <3>4
      DEF PollPending, Return, StragglerInv, HeldInPrepare, Tracked, pauseVars
    <3> QED BY <3>5 DEF OneMayStart
  <2> QED BY <2>2, <2>3, <2>4 DEF StragglerInv
<1> QED BY <1>2, <1>3
    DEF MainThread, StartCollection, SetWeightVersion, WakeLoop, Pause, Resume,
        PrepareForRefit, ResumeAfterRefit, WaitForPendingGenerations, PollPending

\* A step that exchanges no call and keeps one worker at most keeps the invariant.
LEMMA StragglerFrame ==
    ASSUME StragglerInv, UNCHANGED <<mainPc, mailbox, phase, refitCleared>>,
           OneMayStart => OneMayStart'
    PROVE  StragglerInv'
BY DEF StragglerInv, PrepareIsLast, HeldInPrepare, Quiet

\* The loop creates no worker without having passed its check.
LEMMA StragglerInLoop ==
    ASSUME TypeInv, StragglerInv, Collector, CollectionLoop \/ DataloaderFails
    PROVE  StragglerInv'
<1>1. loop \in LoopRecord /\ workers \subseteq WorkerRecord
  BY VersionTypes
<1>2. UNCHANGED <<mainPc, mailbox, phase, refitCleared>>
  BY DEF Collector, trainerVars, CollectionLoop, DataloaderFails, AwaitManualPause,
         AwaitRefitPause, ReadVersion, ReadLast, CheckLimit, WarnOncePerVersion, NoteWarning,
         ClearLimitEvent, AwaitLimitCleared, BeginBatch, ReadLastForTarget, ReserveTarget,
         DropBatch, NextPrompt, AwaitPromptRefitPause, RereadVersion, AcquireAndTrack,
         StartThread, EndBatch, loopUnchanged, mainVars, pauseVars
<1>3. ASSUME OneMayStart PROVE OneMayStart'
  <2>1. ~refitCleared'
    BY <1>2, <1>3 DEF OneMayStart
  <2>2. ASSUME UNCHANGED workers, loop'.pc \notin {"rereadVersion", "acquire"}
        PROVE  OneMayStart'
    BY <1>3, <2>1, <2>2 DEF OneMayStart, PastTheCheck, Tracked
  <2> USE DEF LoopRecord
  <2>3. CASE DataloaderFails \/ CheckLimit \/ DropBatch
    BY <2>2, <2>3 DEF DataloaderFails, CheckLimit, DropBatch, LoopAt, loopUnchanged
  <2>4. CASE AwaitManualPause \/ AwaitRefitPause \/ ClearLimitEvent \/ AwaitLimitCleared
             \/ WarnOncePerVersion \/ NoteWarning
    BY <1>1, <2>2, <2>4
    DEF AwaitManualPause, AwaitRefitPause, ClearLimitEvent, AwaitLimitCleared,
        WarnOncePerVersion, NoteWarning, Goto, loopUnchanged
  <2>5. CASE ReadVersion \/ BeginBatch \/ ReadLast \/ ReadLastForTarget \/ ReserveTarget
    BY <1>1, <2>2, <2>5
    DEF ReadVersion, BeginBatch, ReadLast, ReadLastForTarget, ReserveTarget, loopUnchanged
  <2>6. CASE NextPrompt \/ AwaitPromptRefitPause
    BY <1>1, <1>3, <2>2, <2>6
    DEF NextPrompt, AwaitPromptRefitPause, Goto, loopUnchanged, OneMayStart
  <2>7. CASE RereadVersion
    BY <1>1, <1>3, <2>1, <2>7
    DEF RereadVersion, loopUnchanged, OneMayStart, PastTheCheck, Tracked
  <2>8. CASE AcquireAndTrack
    <3>1. PastTheCheck /\ ~PastTheCheck'
      BY <1>1, <2>8 DEF AcquireAndTrack, Goto, PastTheCheck
    <3>2. \A v, w \in Tracked' : v = w
      BY <1>3, <2>8, <3>1 DEF AcquireAndTrack, OneMayStart, Tracked
    <3> QED BY <2>1, <3>1, <3>2 DEF OneMayStart
  <2>9. CASE StartThread
    <3>1. ~PastTheCheck'
      BY <1>1, <2>9 DEF StartThread, PastTheCheck
    <3>2. \A v \in Tracked' : \E w \in Tracked :
             v = IF w.pc = "created" THEN [w EXCEPT !.pc = "rollout"] ELSE w
      BY <1>1, <2>9 DEF StartThread, Tracked, WorkerRecord
    <3>3. \A v, w \in Tracked' : v = w
      BY <1>3, <3>2 DEF OneMayStart
    <3> QED BY <2>1, <3>1, <3>3 DEF OneMayStart
  <2>10. CASE EndBatch
    <3>1. ~PastTheCheck'
      BY <2>10 DEF EndBatch, LoopAt, PastTheCheck
    <3>2. Tracked' \subseteq Tracked
      BY <1>1, <2>10 DEF EndBatch, FinishedThreadsRemoved, Tracked, WorkerRecord
    <3> QED BY <1>3, <2>1, <3>1, <3>2 DEF OneMayStart
  <2> QED BY <2>3, <2>4, <2>5, <2>6, <2>7, <2>8, <2>9, <2>10 DEF CollectionLoop
<1> QED BY <1>2, <1>3, StragglerFrame

\* A worker is tracked until it is over, and makes no other.
LEMMA StragglerInWorkers ==
    ASSUME TypeInv, StragglerInv, Collector, NEW w \in workers,
           WorkerSteps(w) \/ RolloutFails(w)
    PROVE  StragglerInv'
<1>1. workers \subseteq WorkerRecord
  BY VersionTypes
<1>2. UNCHANGED <<mainPc, mailbox, phase, refitCleared, loop>>
  BY DEF Collector, trainerVars, WorkerSteps, RolloutFails, PushGroup,
         PushFull, PushAbandoned, ReleaseFirst, EmergencyCleanup, DetachAndRelease,
         workerUnchanged, collectorVars, mainVars, pauseVars
<1>3. \/ \E pc \in WorkerPC : Moves(w, pc)
      \/ workers' \subseteq workers
  BY DEF WorkerSteps, RolloutFails, PushGroup, PushFull, PushAbandoned,
         ReleaseFirst, EmergencyCleanup, DetachAndRelease, collectorVars, WorkerPC
<1>4. ASSUME OneMayStart PROVE OneMayStart'
  <2>1. PastTheCheck' <=> PastTheCheck
    BY <1>2 DEF PastTheCheck
  <2>2. \A u, v \in Tracked' : u = v
    BY <1>1, <1>3, <1>4 DEF OneMayStart, Moves, Tracked, WorkerRecord
  <2>3. Tracked = {} => Tracked' = {}
    BY <1>1, <1>3 DEF Moves, Tracked, WorkerRecord
  <2> QED BY <1>2, <1>4, <2>1, <2>2, <2>3 DEF OneMayStart
<1> QED BY <1>2, <1>4, StragglerFrame

\* Without in-flight updates one tracked rollout at most overlaps a refit, on every
\* path by which the loop can have passed its check of the pause.
THEOREM OneStragglerAtMost == Spec => []OneStraggler
<1>1. Init => StragglerInv
  BY DEF Init, CollectorInit, StragglerInv, PrepareIsLast, HeldInPrepare, Quiet
<1>2. TypeInv /\ VersionInv /\ StragglerInv /\ [Next]_vars => StragglerInv'
  <2> SUFFICES ASSUME TypeInv, VersionInv, StragglerInv, [Next]_vars PROVE StragglerInv'
    OBVIOUS
  <2>1. CASE Trainer
    BY <2>1, StragglerInTrainer
  <2>2. CASE Collector
    BY <2>2, StragglerInCalls, StragglerInLoop, StragglerInWorkers DEF Collector, CollectorNext
  <2>3. CASE UNCHANGED vars
    BY <2>3, StragglerFrame
    DEF vars, collectorVars, trainerVars, OneMayStart, PastTheCheck, Tracked
  <2>4. CASE TrainerRaises
    BY <2>4
    DEF TrainerRaises, mainVars, StragglerInv, PrepareIsLast, HeldInPrepare, Quiet, pauseVars
  <2> QED BY <2>1, <2>2, <2>3, <2>4 DEF Next, Terminated
<1>3. TypeInv /\ StragglerInv => OneStraggler
  <2> SUFFICES ASSUME TypeInv, StragglerInv, ~InFlightUpdates, phase = "refit"
               PROVE  Cardinality(Tracked) <= 1
    BY DEF OneStraggler, Tracked
  <2>1. \A v, w \in Tracked : v = w
    BY DEF StragglerInv, Quiet, OneMayStart
  <2>2. CASE Tracked = {}
    BY <2>2, FS_EmptySet
  <2>3. ASSUME NEW w \in Tracked PROVE Cardinality(Tracked) <= 1
    <3>1. Tracked = {w}
      BY <2>1
    <3>2. Cardinality({w}) = 1
      BY FS_Singleton, Zenon
    <3> HIDE DEF Tracked
    <3> QED BY <3>1, <3>2
  <2> QED BY <2>2, <2>3
<1> QED BY <1>1, <1>2, <1>3, TypeInvariant, VersionInvariant, PTL DEF Spec
=============================================================================
