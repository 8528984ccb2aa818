------------------------- MODULE TrajectoryCollector -------------------------
(***************************************************************************)
(* The AsyncTrajectoryCollector actor of nemo_rl/algorithms/async_utils.py *)
(* with the ReplayBuffer it pushes to.  Three kinds of threads share the   *)
(* actor's fields:                                                         *)
(*   - the actor's main thread, which runs the remote calls in its mailbox *)
(*     one at a time and in order;                                         *)
(*   - the collection thread (_collection_loop and _process_batch);        *)
(*   - one worker thread per prompt group (_run_prompt_group_worker).      *)
(* A step reads or writes one shared object: a field, a threading.Event,   *)
(* what one lock section covers, or one remote call to the buffer.         *)
(***************************************************************************)
EXTENDS ReplayBuffer, Sequences, FiniteSetsExt

CONSTANTS
    InFlightUpdates,   \* async_grpo.in_flight_weight_updates (the engine is async)
    MaxFailures        \* bound on the rollouts, dataloader passes and trainer steps that raise

ASSUME InFlightAssumption == InFlightUpdates \in BOOLEAN
ASSUME FailuresAssumption == MaxFailures \in Nat

VARIABLES
    current,           \* current_weight_version
    manualCleared,     \* threading.Event _manual_pause_cleared
    refitCleared,      \* threading.Event _refit_pause_cleared
    limitCleared,      \* threading.Event _generation_limit_cleared
    lastLimitWarning,  \* _last_limit_warning_version, -1 for None
    generating,        \* _generating_targets, guarded by _generation_check_lock
    sema,              \* permits of _inflight_sema
    workers,           \* worker threads not yet over; "tracked" when in _inflight_threads
    loop,              \* the collection thread: where it is and its locals
    mailbox,           \* remote calls not yet answered, in order
    mainPc,            \* where the main thread is inside the first call
    reservations,      \* history: how often each target was reserved
    failures           \* history: how many exceptions were raised so far

pauseVars == <<manualCleared, refitCleared, limitCleared>>
mainVars == <<mailbox, mainPc, current>>
collectorVars == <<current, manualCleared, refitCleared, limitCleared,
                   lastLimitWarning, generating, sema, workers, loop,
                   mailbox, mainPc, reservations, failures>>

MaxInflight == NumPrompts * MaxAge

LoopPC == {"off", "fetch", "refitPause", "readVersion", "readLast", "checkLimit",
           "warn", "note", "clear", "limitPause", "beginBatch", "readLastForTarget",
           "reserve", "nextPrompt", "promptRefitPause", "rereadVersion",
           "acquire", "start", "dead"}
WorkerPC == {"created", "rollout", "releaseFirst", "cleanup", "detach"}
MainPC == {"idle", "wake", "pending"}
Method == {"start_collection", "set_weight_version", "pause", "resume",
           "prepare_for_refit", "resume_after_refit",
           "wait_for_pending_generations"}

\* self.running is true from start_collection until _collection_loop is over;
\* nothing else resets it.
Running == loop.pc \notin {"off", "dead"}

\* The loop with a batch in hand and no locals that are still read.
LoopAt(pc) == [pc |-> pc, version |-> StartStep, last |-> -1,
               target |-> StartStep, prompt |-> 0]
Goto(pc) == loop' = [loop EXCEPT !.pc = pc]

CollectorInit ==
    /\ current = StartStep
    /\ manualCleared = TRUE /\ refitCleared = TRUE /\ limitCleared = TRUE
    /\ lastLimitWarning = -1
    /\ generating = {}
    /\ sema = MaxInflight
    /\ workers = {}
    /\ loop = LoopAt("off")
    /\ mailbox = << >> /\ mainPc = "idle"
    /\ reservations = [t \in Target |-> 0]
    /\ failures = 0

\* Variant: the range of targets is one too long.
CalculateTargetWeightsTooFar(version) ==
    {t \in version..(version + MaxAge + 1) :
        t \in Target /\ (version = StartStep \/ t > version)}

\* _calculate_target_weights; initial_weight_version is start_step.
CalculateTargetWeights(version) ==
    IF version = StartStep THEN version..(version + MaxAge)
                           ELSE (version + 1)..(version + MaxAge)

\* The targets that still need generation, for what the loop has read of the
\* weight version and of the buffer.
NeedGeneration(version, last) ==
    {t \in CalculateTargetWeights(version) : t > last /\ t \notin generating}

-----------------------------------------------------------------------------
(* The actor's main thread. *)

Called(method) ==
    /\ mainPc = "idle" /\ mailbox # << >> /\ Head(mailbox).method = method

Return == mailbox' = Tail(mailbox) /\ mainPc' = "idle"

StartCollection ==
    /\ Called("start_collection") /\ Return
    /\ Goto("fetch")
    /\ UNCHANGED <<current, pauseVars, lastLimitWarning, generating, sema,
                   workers, reservations, failures, bufferVars>>

\* set_weight_version stores the version first and only then looks at the event.
SetWeightVersion ==
    /\ Called("set_weight_version")
    /\ current' = Head(mailbox).version
    /\ mainPc' = "wake"
    /\ UNCHANGED <<mailbox, pauseVars, lastLimitWarning, generating, sema,
                   workers, loop, reservations, failures, bufferVars>>

WakeLoop ==
    /\ mainPc = "wake" /\ Return
    /\ limitCleared' = TRUE
    /\ UNCHANGED <<current, manualCleared, refitCleared, lastLimitWarning,
                   generating, sema, workers, loop, reservations, failures,
                   bufferVars>>

Pause ==
    /\ Called("pause") /\ Return
    /\ manualCleared' = FALSE
    /\ UNCHANGED <<current, refitCleared, limitCleared, lastLimitWarning,
                   generating, sema, workers, loop, reservations, failures,
                   bufferVars>>

Resume ==
    /\ Called("resume") /\ Return
    /\ manualCleared' = TRUE
    /\ UNCHANGED <<current, refitCleared, limitCleared, lastLimitWarning,
                   generating, sema, workers, loop, reservations, failures,
                   bufferVars>>

PrepareForRefit ==
    /\ Called("prepare_for_refit")
    /\ refitCleared' = FALSE
    /\ IF InFlightUpdates THEN Return
                          ELSE mainPc' = "pending" /\ UNCHANGED mailbox
    /\ UNCHANGED <<current, manualCleared, limitCleared, lastLimitWarning,
                   generating, sema, workers, loop, reservations, failures,
                   bufferVars>>

\* Variant: the refit pause is never lifted.
ResumeWithoutClearing ==
    /\ Called("resume_after_refit") /\ Return
    /\ UNCHANGED <<current, pauseVars, lastLimitWarning, generating, sema, workers,
                   loop, reservations, failures, bufferVars>>

ResumeAfterRefit ==
    /\ Called("resume_after_refit") /\ Return
    /\ refitCleared' = TRUE
    /\ UNCHANGED <<current, manualCleared, limitCleared, lastLimitWarning,
                   generating, sema, workers, loop, reservations, failures,
                   bufferVars>>

WaitForPendingGenerations ==
    /\ Called("wait_for_pending_generations")
    /\ mainPc' = "pending"
    /\ UNCHANGED <<mailbox, current, pauseVars, lastLimitWarning, generating,
                   sema, workers, loop, reservations, failures, bufferVars>>

\* _inflight_threads without the threads that are not alive.  A thread is not
\* alive before start(), and a thread that is over has left the set by itself.
FinishedThreadsRemoved ==
    {IF w.pc = "created" THEN [w EXCEPT !.tracked = FALSE] ELSE w : w \in workers}

\* One turn of the polling loop of wait_for_pending_generations.
PollPending ==
    /\ mainPc = "pending"
    /\ workers' = FinishedThreadsRemoved
    /\ IF \E w \in workers' : w.tracked THEN UNCHANGED <<mailbox, mainPc>> ELSE Return
    /\ UNCHANGED <<current, pauseVars, lastLimitWarning, generating, sema, loop,
                   reservations, failures, bufferVars>>

MainThread ==
    \/ StartCollection \/ SetWeightVersion \/ WakeLoop \/ Pause \/ Resume
    \/ PrepareForRefit \/ ResumeAfterRefit \/ WaitForPendingGenerations
    \/ PollPending

-----------------------------------------------------------------------------
(* The collection thread: _collection_loop up to _process_batch. *)

loopUnchanged == <<mainVars, sema, workers, failures, bufferVars>>

\* An exception from the dataloader ends the loop: running becomes False.
DataloaderFails ==
    /\ loop.pc = "fetch" /\ failures < MaxFailures
    /\ loop' = LoopAt("dead")
    /\ failures' = failures + 1
    /\ UNCHANGED <<mainVars, pauseVars, lastLimitWarning, generating, sema,
                   workers, reservations, bufferVars>>

\* The next batch is in hand; wait for a manual pause to be over.
AwaitManualPause ==
    /\ loop.pc = "fetch" /\ manualCleared
    /\ Goto("refitPause")
    /\ UNCHANGED <<loopUnchanged, pauseVars, lastLimitWarning, generating, reservations>>

AwaitRefitPause ==
    /\ loop.pc = "refitPause" /\ refitCleared
    /\ Goto("readVersion")
    /\ UNCHANGED <<loopUnchanged, pauseVars, lastLimitWarning, generating, reservations>>

\* _should_pause_for_generation_limits: read the version, then ask the buffer
\* for the last target, then check under the lock.
ReadVersion ==
    /\ loop.pc = "readVersion"
    /\ loop' = [loop EXCEPT !.pc = "readLast", !.version = current]
    /\ UNCHANGED <<loopUnchanged, pauseVars, lastLimitWarning, generating, reservations>>

ReadLast ==
    /\ loop.pc = "readLast"
    /\ loop' = [loop EXCEPT !.pc = "checkLimit", !.last = lastTarget]
    /\ UNCHANGED <<loopUnchanged, pauseVars, lastLimitWarning, generating, reservations>>

CheckLimit ==
    /\ loop.pc = "checkLimit"
    /\ loop' = LoopAt(IF NeedGeneration(loop.version, loop.last) # {}
                      THEN "beginBatch" ELSE "warn")
    /\ UNCHANGED <<loopUnchanged, pauseVars, lastLimitWarning, generating, reservations>>

\* Only the first time for a version: the version is read here and once more
\* when it is noted, then the event is cleared.
WarnOncePerVersion ==
    /\ loop.pc = "warn"
    /\ Goto(IF lastLimitWarning # current THEN "note" ELSE "limitPause")
    /\ UNCHANGED <<loopUnchanged, pauseVars, lastLimitWarning, generating, reservations>>

NoteWarning ==
    /\ loop.pc = "note"
    /\ lastLimitWarning' = current
    /\ Goto("clear")
    /\ UNCHANGED <<loopUnchanged, pauseVars, generating, reservations>>

ClearLimitEvent ==
    /\ loop.pc = "clear"
    /\ limitCleared' = FALSE
    /\ Goto("limitPause")
    /\ UNCHANGED <<loopUnchanged, manualCleared, refitCleared, lastLimitWarning,
                   generating, reservations>>

AwaitLimitCleared ==
    /\ loop.pc = "limitPause" /\ limitCleared
    /\ Goto("beginBatch")
    /\ UNCHANGED <<loopUnchanged, pauseVars, lastLimitWarning, generating, reservations>>

(* _process_batch *)

BeginBatch ==
    /\ loop.pc = "beginBatch"
    /\ loop' = [loop EXCEPT !.pc = "readLastForTarget", !.version = current]
    /\ UNCHANGED <<loopUnchanged, pauseVars, lastLimitWarning, generating, reservations>>

ReadLastForTarget ==
    /\ loop.pc = "readLastForTarget"
    /\ loop' = [loop EXCEPT !.pc = "reserve", !.last = lastTarget]
    /\ UNCHANGED <<loopUnchanged, pauseVars, lastLimitWarning, generating, reservations>>

\* The locked half of _get_next_target_for_generation.
ReserveTarget ==
    /\ loop.pc = "reserve"
    /\ NeedGeneration(loop.version, loop.last) # {}
    /\ LET target == Min(NeedGeneration(loop.version, loop.last))
       IN  /\ generating' = generating \cup {target}
           /\ reservations' = [reservations EXCEPT ![target] = @ + 1]
           /\ loop' = [loop EXCEPT !.pc = "nextPrompt", !.target = target, !.last = -1]
    /\ UNCHANGED <<loopUnchanged, pauseVars, lastLimitWarning>>

\* No target needs generation: the batch in hand is dropped.
DropBatch ==
    /\ loop.pc = "reserve"
    /\ NeedGeneration(loop.version, loop.last) = {}
    /\ loop' = LoopAt("fetch")
    /\ UNCHANGED <<loopUnchanged, pauseVars, lastLimitWarning, generating, reservations>>

\* Variant: no check of the refit pause between two prompts.
NextPromptUnchecked ==
    /\ loop.pc = "nextPrompt" /\ loop.prompt < NumPrompts
    /\ Goto("acquire")
    /\ UNCHANGED <<loopUnchanged, pauseVars, lastLimitWarning, generating, reservations>>

NextPrompt ==
    /\ loop.pc = "nextPrompt" /\ loop.prompt < NumPrompts
    /\ Goto(IF refitCleared THEN "acquire" ELSE "promptRefitPause")
    /\ UNCHANGED <<loopUnchanged, pauseVars, lastLimitWarning, generating, reservations>>

AwaitPromptRefitPause ==
    /\ loop.pc = "promptRefitPause" /\ refitCleared
    /\ Goto("rereadVersion")
    /\ UNCHANGED <<loopUnchanged, pauseVars, lastLimitWarning, generating, reservations>>

RereadVersion ==
    /\ loop.pc = "rereadVersion"
    /\ loop' = [loop EXCEPT !.pc = "acquire", !.version = current]
    /\ UNCHANGED <<loopUnchanged, pauseVars, lastLimitWarning, generating, reservations>>

\* Variant: a thread is created without a permit.
TrackWithoutPermit ==
    /\ loop.pc = "acquire"
    /\ sema' = sema - 1
    /\ workers' = workers \cup
           {[target |-> loop.target, round |-> reservations[loop.target],
             prompt |-> loop.prompt, version |-> loop.version,
             pc |-> "created", tracked |-> TRUE]}
    /\ Goto("start")
    /\ UNCHANGED <<mainVars, failures, bufferVars, pauseVars, lastLimitWarning,
                   generating, reservations>>

\* _inflight_sema.acquire(), then the thread is created and tracked.  Nothing
\* another thread does between the two can tell the difference: an acquire only
\* makes other acquires wait, and this is the only thread that acquires.
AcquireAndTrack ==
    /\ loop.pc = "acquire" /\ sema > 0
    /\ sema' = sema - 1
    /\ workers' = workers \cup
           {[target |-> loop.target, round |-> reservations[loop.target],
             prompt |-> loop.prompt, version |-> loop.version,
             pc |-> "created", tracked |-> TRUE]}
    /\ Goto("start")
    /\ UNCHANGED <<mainVars, failures, bufferVars, pauseVars, lastLimitWarning,
                   generating, reservations>>

StartThread ==
    /\ loop.pc = "start"
    /\ workers' = {IF w.pc = "created" THEN [w EXCEPT !.pc = "rollout"] ELSE w :
                      w \in workers}
    /\ loop' = [loop EXCEPT !.pc = "nextPrompt", !.prompt = @ + 1]
    /\ UNCHANGED <<mainVars, sema, failures, bufferVars, pauseVars,
                   lastLimitWarning, generating, reservations>>

\* _cleanup_finished_threads, then the next batch.
EndBatch ==
    /\ loop.pc = "nextPrompt" /\ loop.prompt = NumPrompts
    /\ workers' = FinishedThreadsRemoved
    /\ loop' = LoopAt("fetch")
    /\ UNCHANGED <<mainVars, sema, failures, bufferVars, pauseVars,
                   lastLimitWarning, generating, reservations>>

CollectionLoop ==
    \/ AwaitManualPause \/ AwaitRefitPause \/ ReadVersion \/ ReadLast
    \/ CheckLimit \/ WarnOncePerVersion \/ NoteWarning \/ ClearLimitEvent
    \/ AwaitLimitCleared
    \/ BeginBatch \/ ReadLastForTarget \/ ReserveTarget \/ DropBatch
    \/ NextPrompt \/ AwaitPromptRefitPause \/ RereadVersion
    \/ AcquireAndTrack \/ StartThread \/ EndBatch

-----------------------------------------------------------------------------
(* A worker thread: _run_prompt_group_worker. *)

workerUnchanged == <<mainVars, pauseVars, lastLimitWarning, loop, reservations>>

Moves(w, pc) == workers' = (workers \ {w}) \cup {[w EXCEPT !.pc = pc]}

\* The rollout (or the push) raises: nothing is pushed.
RolloutFails(w) ==
    /\ w.pc = "rollout" /\ failures < MaxFailures
    /\ failures' = failures + 1
    /\ Moves(w, "cleanup")
    /\ UNCHANGED <<workerUnchanged, generating, sema, bufferVars>>

\* The rollout has returned and push_with_wait_signal answers "success".  Whether
\* a rollout that was not pushed yet is over makes no difference to anyone.
PushGroup(w) ==
    /\ w.pc = "rollout" /\ Running
    /\ Push(w.version, w.target, w.prompt)
    /\ Moves(w, IF w.prompt = 0 THEN "releaseFirst" ELSE "cleanup")
    /\ UNCHANGED <<workerUnchanged, generating, sema, failures>>

\* Variant: a worker gives up on a full buffer.
PushFullGivesUp(w) ==
    /\ w.pc = "rollout" /\ Running /\ Full
    /\ Moves(w, "cleanup")
    /\ UNCHANGED <<workerUnchanged, generating, sema, failures, bufferVars>>

\* The buffer is full: back off and push again.
PushFull(w) ==
    /\ w.pc = "rollout" /\ Running /\ Full
    /\ UNCHANGED <<collectorVars, bufferVars>>

\* while self.running is false: the group is lost.
PushAbandoned(w) ==
    /\ w.pc = "rollout" /\ ~Running
    /\ Moves(w, "cleanup")
    /\ UNCHANGED <<workerUnchanged, generating, sema, failures, bufferVars>>

\* The first prompt group is buffered: its worker releases the reservation.
ReleaseFirst(w) ==
    /\ w.pc = "releaseFirst" /\ Moves(w, "cleanup")
    /\ generating' = generating \ {w.target}
    /\ UNCHANGED <<workerUnchanged, sema, failures, bufferVars>>

\* finally: the reservation is released by whichever worker gets here first.
EmergencyCleanup(w) ==
    /\ w.pc = "cleanup" /\ Moves(w, "detach")
    /\ generating' = generating \ {w.target}
    /\ UNCHANGED <<workerUnchanged, sema, failures, bufferVars>>

\* Variant: the permit is not given back.
DetachWithoutRelease(w) ==
    /\ w.pc = "detach"
    /\ workers' = workers \ {w}
    /\ UNCHANGED <<workerUnchanged, generating, sema, failures, bufferVars>>

\* Variant: wait_for_pending_generations keeps _threads_lock while it sleeps.
DetachNeedsLock(w) ==
    /\ w.pc = "detach" /\ mainPc # "pending"
    /\ workers' = workers \ {w}
    /\ sema' = sema + 1
    /\ UNCHANGED <<workerUnchanged, generating, failures, bufferVars>>

\* The thread leaves _inflight_threads, then releases its permit: one step,
\* because a permit released late only keeps the loop waiting longer.
DetachAndRelease(w) ==
    /\ w.pc = "detach"
    /\ workers' = workers \ {w}
    /\ sema' = sema + 1
    /\ UNCHANGED <<workerUnchanged, generating, failures, bufferVars>>

\* What a worker does by itself; RolloutFails is the environment's choice.
WorkerSteps(w) ==
    \/ PushGroup(w) \/ PushFull(w) \/ PushAbandoned(w)
    \/ ReleaseFirst(w) \/ EmergencyCleanup(w) \/ DetachAndRelease(w)

Worker(target, prompt) ==
    \E w \in workers : w.target = target /\ w.prompt = prompt /\ WorkerSteps(w)

CollectorNext ==
    \/ MainThread
    \/ CollectionLoop
    \/ DataloaderFails
    \/ \E w \in workers : WorkerSteps(w) \/ RolloutFails(w)

WorkerRecord == [target : Target, round : Nat, prompt : Prompt,
                 version : Version, pc : WorkerPC, tracked : BOOLEAN]
LoopRecord == [pc : LoopPC, version : Version, last : Target \cup {-1},
               target : Target, prompt : 0..NumPrompts]
Call == [method : Method, version : Version]

CollectorTypeOK ==
    /\ current \in Version
    /\ manualCleared \in BOOLEAN /\ refitCleared \in BOOLEAN /\ limitCleared \in BOOLEAN
    /\ lastLimitWarning \in Version \cup {-1}
    /\ generating \subseteq Target
    /\ sema \in Nat
    /\ workers \subseteq WorkerRecord /\ IsFiniteSet(workers)
    /\ loop \in LoopRecord
    /\ mailbox \in Seq(Call) /\ mainPc \in MainPC
    /\ reservations \in [Target -> Nat]
    /\ failures \in 0..MaxFailures
=============================================================================
