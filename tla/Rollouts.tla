------------------------------- MODULE Rollouts -------------------------------
(***************************************************************************)
(* The multi-turn rollouts of nemo_rl/experience/rollouts.py: the samples  *)
(* of a batch alternate between a response of the engine and the feedback  *)
(* of their environment.                                                   *)
(*                                                                         *)
(* run_multi_turn_rollout moves the whole batch turn by turn.  It sends    *)
(* the samples still active to the data-parallel engines in shards and to  *)
(* the environments by task, and has to put what comes back to the right   *)
(* samples.                                                                *)
(*                                                                         *)
(* run_async_multi_turn_rollout runs one coroutine per sample on one event *)
(* loop.  Each asks an asynchronous engine (_async_generate_base of        *)
(* vllm_generation.py): a reader task moves what the worker streams into a *)
(* queue, the coroutine waits on the queue with a timeout.  The            *)
(* environment is asked with ray.get, which holds up the event loop.       *)
(***************************************************************************)
EXTENDS WorkerGroup

CONSTANTS
    SyncBatch,      \* samples of a batch, synchronous rollout
    AsyncBatch,     \* the same, asynchronous rollout
    NumShards,      \* data-parallel size of the engine
    EngineTensor,   \* tensor-parallel size of the engine
    MaxTurns,       \* max_rollout_turns
    MaxSeqLen,      \* max_seq_len, and max_model_len of the engine
    MaxNewTokens,   \* max_new_tokens
    GraderObservations, GameObservations, \* the lengths of observations, in tokens
    PromptLength,   \* the length of every prompt
    MaxErrors       \* bound on the failures of engines and environments

ASSUME RolloutConstants ==
    /\ {SyncBatch, AsyncBatch, NumShards, EngineTensor, MaxTurns, MaxSeqLen, MaxNewTokens,
            PromptLength} \subseteq Nat \ {0}
    /\ PromptLength < MaxSeqLen /\ MaxErrors \in Nat
    /\ GraderObservations \cup GameObservations \subseteq Nat

VARIABLES
    asyncEngine,  \* vllm_cfg.async_engine; never changes
    rollout,      \* "running", "done", "failed", "handed": to the trainer
    rows,         \* the samples of the batch
    stage,        \* sync: what the loop waits for
    active,       \* sync: active_indices
    waitingFor,   \* sync: the workers or tasks that have not answered
    answers,      \* sync: what each worker or task answered
    pc,           \* async: where each coroutine is
    stream,       \* async: what each sample's worker, reader and coroutine share
    errors        \* how many engines or environments have failed

syncVars == <<stage, active, waitingFor, answers>>
asyncVars == <<pc, stream>>
rolloutVars == <<asyncEngine, rollout, rows, syncVars, asyncVars, errors>>

Sample == 1..(IF asyncEngine THEN AsyncBatch ELSE SyncBatch)

\* Two environments take turns over the batch: a grader, which ends every episode
\* (math_environment.py), and a game (games/sliding_puzzle.py).
Grader == 1
Game == 2
Task == {Grader, Game}
TaskOf(i) == IF i % 2 = 1 THEN Grader ELSE Game

\* A sample of the batch.
NewRow == [log |-> << >>,      \* message_log, after the prompt
           turn |-> 0, rewards |-> << >>,
           truncated |-> FALSE,
           stops |-> << >>,    \* the feedback that stop_strings and
           info |-> << >>]     \* extra_env_info are from

Length(row) == FoldLeft(LAMBDA sum, message : sum + message.tokens, PromptLength, row.log)

\* What an engine makes of a sample: it is cut short only at the length limit.
Remaining(row) ==
    IF MaxSeqLen - Length(row) < MaxNewTokens THEN MaxSeqLen - Length(row) ELSE MaxNewTokens
Response(i) ==
    {r \in [role : {"assistant"}, of : {<<i, rows[i].turn>>},
            tokens : 1..Remaining(rows[i]), cut : BOOLEAN] :
        r.cut => r.tokens = Remaining(rows[i])}

\* The feedback of an environment.  The game returns no metadata after a response
\* it cannot parse, and none when it is over.
Feedback(i) ==
    IF TaskOf(i) = Grader
    THEN [of : {<<i, rows[i].turn>>}, tokens : GraderObservations,
          terminated : {TRUE}, metadata : {TRUE}]
    ELSE {f \in [of : {<<i, rows[i].turn>>}, tokens : GameObservations,
                 terminated : BOOLEAN, metadata : BOOLEAN] : f.terminated => ~f.metadata}

Message(response) ==
    [role |-> response.role, of |-> response.of, tokens |-> response.tokens]
Respond(row, response) == [row EXCEPT !.log = Append(@, Message(response))]

\* Variant: the observation is appended as it is.
ObservationAsIs(row, f) == f.tokens

\* The observation is cut to what is left of max_seq_len.
Observation(row, f) ==
    IF Length(row) + f.tokens >= MaxSeqLen THEN MaxSeqLen - Length(row) ELSE f.tokens
Overflows(row, f) == Length(row) + f.tokens >= MaxSeqLen

\* Reward and observation of a turn; what is kept for the next turn differs.
Observe(row, f) ==
    [row EXCEPT !.log = Append(@, [role |-> "environment", of |-> f.of,
                                   tokens |-> Observation(row, f)]),
                !.rewards = Append(@, f.of),
                !.truncated = @ \/ Overflows(row, f)]

-----------------------------------------------------------------------------
(* run_multi_turn_rollout *)

\* Of the workers of an engine only the first is called.
EngineLayout == <<Axis("data_parallel", NumShards), Axis("pipeline_parallel", 1),
                  Axis("tensor_parallel", EngineTensor)>>
Engines == Called(EngineLayout, {"data_parallel"}, {})

\* shard_by_batch_size(allow_uneven_shards=True): the last shards may be empty.
ShardOf(s) ==
    LET size == (Len(active) + NumShards - 1) \div NumShards
        end == IF s * size < Len(active) THEN s * size ELSE Len(active)
    IN  SubSeq(active, (s - 1) * size + 1, end)

GroupOf(task) == Those(active, LAMBDA i : TaskOf(i) = task)

StartTurn ==
    /\ stage = "turn" /\ \E i \in ToSet(active) : rows[i].turn < MaxTurns
    /\ rows' = [i \in Sample |-> IF i \in ToSet(active) THEN [rows[i] EXCEPT !.turn = @ + 1]
                                 ELSE rows[i]]
    /\ stage' = "generate"
    /\ waitingFor' = Engines
    /\ UNCHANGED <<active, answers, rollout>>

EndRollout ==
    /\ stage = "turn" /\ \A i \in ToSet(active) : rows[i].turn = MaxTurns
    /\ rollout' = "done" /\ stage' = "end" /\ active' = << >>
    /\ UNCHANGED <<rows, waitingFor, answers>>

\* A source answers for its samples, in their order.
AnswerFrom(source, samples, From(_)) ==
    /\ source \in waitingFor
    /\ \E choices \in {[k \in DOMAIN samples |-> From(samples[k])]} :
       \E a \in [DOMAIN samples -> UNION ToSet(choices)] :
           /\ \A k \in DOMAIN samples : a[k] \in choices[k]
           /\ answers' = [x \in DOMAIN answers \cup {source} |->
                             IF x = source THEN a ELSE answers[x]]
    /\ waitingFor' = waitingFor \ {source}
    /\ UNCHANGED <<stage, active, rollout, rows>>

GenerateShard(w) ==
    LET s == Coordinate(EngineLayout, w, "data_parallel") + 1
    IN  stage = "generate" /\ AnswerFrom(w, ShardOf(s), Response)
StepEnvironment(task) == stage = "step" /\ AnswerFrom(task, GroupOf(task), Feedback)

Collected == Gathered(EngineLayout, Returning(EngineLayout, Engines, {}), answers)

\* generate_responses.  A truncated response is recorded; the sample goes on.
CollectResponses ==
    /\ stage = "generate" /\ waitingFor = {}
    /\ \E collected \in {Collected} :
           rows' = [i \in Sample |->
               LET k == SelectInSeq(active, LAMBDA j : j = i)
               IN  IF k = 0 THEN rows[i]
                   ELSE [Respond(rows[i], collected[k]) EXCEPT
                            !.truncated = @ \/ collected[k].cut]]
    /\ stage' = "step"
    /\ waitingFor' = {TaskOf(i) : i \in ToSet(active)}
    /\ answers' = << >>
    /\ UNCHANGED <<active, rollout>>

\* The groups in the order in which their tasks first occur in the batch.
GroupsInOrder ==
    LET first == TaskOf(Head(active))
        other == CHOOSE task \in Task : task # first
    IN  IF other \in DOMAIN answers THEN <<first, other>> ELSE <<first>>
GroupAnswers == FlattenSeq([g \in DOMAIN GroupsInOrder |-> answers[GroupsInOrder[g]]])
GroupPlaces == FlattenSeq([g \in DOMAIN GroupsInOrder |-> GroupOf(GroupsInOrder[g])])

\* Variant: the groups' results stay in the order of the groups.
FeedbackGrouped == GroupAnswers

\* calculate_rewards: sorted by the sample's place in the batch.
FeedbackInOrder ==
    [k \in DOMAIN active |->
        GroupAnswers[SelectInSeq(GroupPlaces, LAMBDA i : i = active[k])]]

\* The observation goes to every active sample, stop strings and metadata only to
\* those that go on.
TakeTurn ==
    /\ stage = "step" /\ waitingFor = {}
    /\ \E feedback \in {FeedbackInOrder} :
           LET Done(k) == feedback[k].terminated \/ Overflows(rows[active[k]], feedback[k])
               Moved(k) ==
                   LET row == Observe(rows[active[k]], feedback[k])
                   IN  IF Done(k) THEN row
                       ELSE [row EXCEPT !.stops = feedback[k].of,
                                        !.info = IF feedback[k].metadata THEN feedback[k].of
                                                 ELSE @]
           IN  /\ rows' = [i \in Sample |->
                      LET k == SelectInSeq(active, LAMBDA j : j = i)
                      IN  IF k = 0 THEN rows[i] ELSE Moved(k)]
               /\ \E going \in {Those([k \in DOMAIN active |-> k], LAMBDA k : ~Done(k))} :
                      active' = [n \in DOMAIN going |-> active[going[n]]]
    /\ stage' = "turn"
    /\ answers' = << >>
    /\ UNCHANGED <<waitingFor, rollout>>

\* An engine or an environment raises, or a worker dies: so does the rollout.
SourceFails ==
    /\ stage \in {"generate", "step"} /\ waitingFor # {} /\ errors < MaxErrors
    /\ errors' = errors + 1
    /\ rollout' = "failed"
    /\ UNCHANGED <<rows, syncVars>>

SyncStep ==
    \/ StartTurn \/ CollectResponses \/ TakeTurn \/ EndRollout
    \/ \E w \in Engines : GenerateShard(w)
    \/ \E task \in Task : StepEnvironment(task)

SyncRollout ==
    /\ ~asyncEngine /\ rollout = "running"
    /\ (SyncStep /\ UNCHANGED errors) \/ SourceFails
    /\ UNCHANGED <<asyncEngine, asyncVars>>

-----------------------------------------------------------------------------
(* run_async_multi_turn_rollout *)

NoStream == [worker |-> "idle", output |-> << >>, queue |-> << >>, finished |-> FALSE,
             collected |-> FALSE]
Asked == [NoStream EXCEPT !.worker = "running"]

\* The worker streams one result: generate_async takes single samples only.
WorkerAnswers(i) ==
    /\ stream[i].worker = "running"
    /\ \E response \in Response(i) :
           stream' = [stream EXCEPT ![i].worker = "answered", ![i].output = <<response>>]
    /\ UNCHANGED <<rollout, rows, pc, errors>>

WorkerFails(i) ==
    /\ stream[i].worker = "running" /\ errors < MaxErrors
    /\ stream' = [stream EXCEPT ![i].worker = "failed"]
    /\ errors' = errors + 1
    /\ UNCHANGED <<rollout, rows, pc>>

\* ray.get in a coroutine: nothing else runs on the event loop.
Blocked == \E i \in Sample : pc[i] = "step"

\* consume_worker_generator: the result, then the end of the stream.
ReaderPuts(i) ==
    /\ ~Blocked /\ stream[i].worker = "answered"
    /\ stream' = [stream EXCEPT ![i].worker = "drained", ![i].queue = Append(@, "sample")]
    /\ UNCHANGED <<rollout, rows, pc, errors>>

\* Variant: the stream is over with the worker's answer.
ReaderEndsEarly(i) ==
    /\ ~Blocked /\ stream[i].worker \in {"answered", "drained", "failed"}
    /\ stream' = [stream EXCEPT
            ![i].worker = "idle", ![i].finished = TRUE,
            ![i].queue = Append(@, IF stream[i].worker = "failed" THEN "error" ELSE "worker_done")]
    /\ UNCHANGED <<rollout, rows, pc, errors>>

ReaderEnds(i) ==
    /\ ~Blocked /\ stream[i].worker \in {"drained", "failed"}
    /\ stream' = [stream EXCEPT
            ![i].worker = "idle", ![i].finished = TRUE,
            ![i].queue = @ \o (IF stream[i].worker = "failed" THEN <<"error">> ELSE << >>)
                           \o <<"worker_done">>]
    /\ UNCHANGED <<rollout, rows, pc, errors>>

\* generate_responses_async, and in the same breath the environment is asked.
UseResponse(i) ==
    LET response == stream[i].output[1]
    IN  /\ rows' = [rows EXCEPT ![i] = [Respond(@, response) EXCEPT !.truncated = response.cut]]
        /\ pc' = [pc EXCEPT ![i] = "step"]
        /\ stream' = [stream EXCEPT ![i] = NoStream]

\* An exception: the sample gets a dummy response and ends.
GiveUp(i) ==
    /\ rows' = [rows EXCEPT
            ![i].log = Append(@, [role |-> "dummy", of |-> <<i, rows[i].turn>>, tokens |-> 1]),
            ![i].truncated = TRUE]
    /\ pc' = [pc EXCEPT ![i] = "done"]
    /\ stream' = [stream EXCEPT ![i] = NoStream]

\* The next message of the queue.  The loop ends when the flag is set, whatever is
\* left in the queue.
Receive(i) ==
    /\ ~Blocked /\ pc[i] = "wait" /\ stream[i].queue # << >>
    /\ LET message == Head(stream[i].queue)
           collected == stream[i].collected \/ message = "sample"
       IN  \/ message = "error" /\ GiveUp(i)
           \/ /\ message # "error" /\ ~stream[i].finished
              /\ stream' = [stream EXCEPT ![i].queue = Tail(@), ![i].collected = collected]
              /\ UNCHANGED <<rows, pc>>
           \/ /\ message # "error" /\ stream[i].finished
              /\ IF collected THEN UseResponse(i) ELSE GiveUp(i)
    /\ UNCHANGED <<rollout, errors>>

\* Variant: after the timeout the coroutine waits again.
TimeOutWaitsAgain(i) ==
    /\ ~Blocked /\ pc[i] = "wait"
    /\ UNCHANGED <<rollout, rows, pc, stream, errors>>

\* NRL_VLLM_ASYNC_TIMEOUT_SECONDS, also when the message is already in the queue.
TimeOut(i) ==
    /\ ~Blocked /\ pc[i] = "wait" /\ GiveUp(i)
    /\ UNCHANGED <<rollout, errors>>

\* The rest of the turn, up to the question to the engine that opens the next one.
TakeSampleTurn(i) ==
    /\ pc[i] = "step"
    /\ \E f \in Feedback(i) :
           LET row == Observe(rows[i], f)
               ends == f.terminated \/ row.truncated
               kept == [row EXCEPT !.info = IF f.metadata THEN f.of ELSE @,
                                   !.stops = IF ends THEN @ ELSE f.of]
           IN  IF ends \/ row.turn = MaxTurns
               THEN /\ rows' = [rows EXCEPT ![i] = kept]
                    /\ pc' = [pc EXCEPT ![i] = "done"]
                    /\ UNCHANGED stream
               ELSE /\ rows' = [rows EXCEPT ![i] = [kept EXCEPT !.turn = @ + 1]]
                    /\ pc' = [pc EXCEPT ![i] = "wait"]
                    /\ stream' = [stream EXCEPT ![i] = Asked]
    /\ UNCHANGED <<rollout, errors>>

\* An environment raises: asyncio.gather does, and with it the rollout.
EnvironmentFails(i) ==
    /\ pc[i] = "step" /\ errors < MaxErrors
    /\ errors' = errors + 1
    /\ rollout' = "failed"
    /\ UNCHANGED <<rows, pc, stream>>

Gather ==
    /\ \A i \in Sample : pc[i] = "done"
    /\ rollout' = "done"
    /\ UNCHANGED <<rows, pc, stream, errors>>

Coroutine(i) == ReaderPuts(i) \/ ReaderEnds(i) \/ Receive(i) \/ TimeOut(i) \/ TakeSampleTurn(i)
AsyncStep == Gather \/ \E i \in Sample : Coroutine(i)
AsyncWorld == \E i \in Sample : WorkerAnswers(i) \/ WorkerFails(i) \/ EnvironmentFails(i)

AsyncRollout(A) ==
    /\ asyncEngine /\ rollout = "running" /\ A
    /\ UNCHANGED <<asyncEngine, syncVars>>

-----------------------------------------------------------------------------
RolloutInit ==
    /\ asyncEngine \in BOOLEAN
    /\ rollout = "running" /\ errors = 0
    /\ stage = "turn" /\ waitingFor = {} /\ answers = << >>
    /\ active = IF asyncEngine THEN << >> ELSE [i \in Sample |-> i]
    \* every coroutine runs up to its first question
    /\ rows = [i \in Sample |-> IF asyncEngine THEN [NewRow EXCEPT !.turn = 1] ELSE NewRow]
    /\ pc = [i \in Sample |-> IF asyncEngine THEN "wait" ELSE "done"]
    /\ stream = [i \in Sample |-> IF asyncEngine THEN Asked ELSE NoStream]

RolloutNext == SyncRollout \/ AsyncRollout(AsyncStep) \/ AsyncRollout(AsyncWorld)
=============================================================================
