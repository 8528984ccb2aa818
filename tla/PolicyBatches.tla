---------------------------- MODULE PolicyBatches ----------------------------
(***************************************************************************)
(* What Policy (nemo_rl/models/policy/lm_policy.py) and its workers do     *)
(* with the rows of a step: log probabilities of the policy and of the     *)
(* reference model, top-k logits of a teacher, training, and the same      *)
(* without gradients for validation.                                       *)
(*                                                                         *)
(* Every call shards the rows over the data-parallel ranks and cuts each   *)
(* shard into microbatches (shard_by_batch_size of BatchedDataDict).  The  *)
(* workers of the DTensor backends (dtensor_policy_worker.py and           *)
(* dtensor_policy_worker_v2.py) run forward passes that are collective     *)
(* over all of them, so all have to run as many.  Those of Megatron        *)
(* (megatron_policy_worker.py) meet only at the optimizer step, but only   *)
(* their last pipeline stage has results.                                  *)
(***************************************************************************)
EXTENDS WorkerGroup, Packing

CONSTANTS
    Backends,       \* kinds of workers to look at
    Batching,       \* how microbatches are made, to look at
    PipelineSizes, ContextSizes, \* pp_size and cp_size to look at
    GlobalBatches,  \* the values of train_global_batch_size to look at
    Shards,         \* data-parallel size
    TensorSize,     \* tp_size
    LogprobTokens, TrainTokens, \* logprob_mb_tokens and train_mb_tokens
    MicroBatchSize, \* train_micro_batch_size, logprob_batch_size and val_micro_batch_size
    RoundMultiple   \* sequence_length_round of dynamic batching

Packers == {"concatenative", "first_fit_decreasing", "first_fit_shuffle",
            "modified_first_fit_decreasing"}

ASSUME PolicyConstants ==
    /\ Backends \subseteq {"dtensor", "dtensor_v2", "megatron"}
    /\ Batching \subseteq Packers \cup {"fixed", "dynamic"}
    /\ PipelineSizes \cup ContextSizes \cup GlobalBatches
           \cup {Shards, TensorSize, LogprobTokens, TrainTokens, MicroBatchSize, RoundMultiple}
           \subseteq Nat \ {0}

VARIABLES
    algorithm,  \* whose step this is
    todo,       \* the calls it still makes
    policy,     \* the configuration of the Policy it calls
    lengths,    \* input_lengths of the rows
    valid,      \* how many rows count (sample_mask); the others are padding
    evalMode,   \* eval_mode of train: no gradients
    call,       \* what the workers run, or "none" or "error"
    plan,       \* per shard, its global batches, each a sequence of microbatches
    globalBatch,\* gb_idx
    microBatch, \* per shard, how many passes over this global batch have been run
    finished,   \* the shards whose workers have returned
    weights,    \* per shard, the model whose weights its workers hold
    results,    \* per worker, what it has results of: <<model, row>> each
    outputs,    \* what each call has returned, in the order of the rows
    gradients,  \* how often each row has entered the gradients
    steps       \* history: the gradients of each optimizer step

policyVars == <<algorithm, todo, policy, lengths, valid, evalMode, call, plan, globalBatch,
                microBatch, finished, weights, results, outputs, gradients, steps>>

Shard == 1..Shards
Row == DOMAIN lengths
Chunk(g, size) == [k \in 1..size |-> (g - 1) * size + k]
NumChunks(size) == Len(lengths) \div size

\* Preferences come as pairs of rows, chosen and rejected, and pairs are counted.
Preferences(name) == name \in {"dpo", "rm"}
RowsPerMicroBatch(name) == IF Preferences(name) THEN 2 * MicroBatchSize ELSE MicroBatchSize
MicroBatchRows == RowsPerMicroBatch(algorithm)

-----------------------------------------------------------------------------
(* The configurations that Policy and its workers accept. *)

Supported(c) ==
    /\ c.batching = "dynamic" => c.pipeline = 1
    /\ c.backend # "megatron" =>
           c.pipeline = 1 /\ (c.context > 1 => c.batching \notin Packers)
    /\ c.backend = "megatron" /\ c.context > 1 => c.batching \in Packers

\* DPO refuses whatever reorders rows; reward models have neither packing nor Megatron.
Admitted(c, name) ==
    /\ name = "dpo" => c.batching = "fixed"
    /\ name = "rm" => c.batching \notin Packers /\ c.backend # "megatron"

Configurations(name) ==
    {c \in [backend : Backends, batching : Batching, pipeline : PipelineSizes,
            context : ContextSizes] : Supported(c) /\ Admitted(c, name)}

\* sequence_length_pad_multiple
PadMultiple == IF policy.context > 1 THEN policy.context * 2 * TensorSize ELSE TensorSize

Layout == <<Axis("pipeline_parallel", policy.pipeline), Axis("data_parallel", Shards),
            Axis("context_parallel", policy.context), Axis("tensor_parallel", TensorSize)>>
ModelAxes == {"context_parallel", "tensor_parallel", "pipeline_parallel"}
CalledWorkers == Called(Layout, {"data_parallel"}, ModelAxes)
ReturningWorkers == Returning(Layout, CalledWorkers, ModelAxes)
ShardOfWorker(w) == Coordinate(Layout, w, "data_parallel") + 1
LastStage(w) == Coordinate(Layout, w, "pipeline_parallel") = policy.pipeline - 1

-----------------------------------------------------------------------------
(* shard_by_batch_size: the microbatches of a chunk, for each shard. *)

FixedCut(chunk) ==
    LET size == Len(chunk) \div Shards
        Start(s, m) == (s - 1) * size + (m - 1) * MicroBatchRows
    IN  [s \in Shard |-> [m \in 1..(size \div MicroBatchRows) |->
            SubSeq(chunk, Start(s, m) + 1, Start(s, m) + MicroBatchRows)]]

\* The width of the padded batch is the length of its longest row.
Width == CHOOSE w \in {lengths[i] : i \in Row} : \A i \in Row : lengths[i] <= w

\* Variant: each shard is cut by its own lengths.
DynamicCutAlone(chunk, tokens) ==
    LET rows == Stride(lengths, ToSet(chunk), Shards)
        CutsOf(s) == DynamicCuts(tokens, lengths, <<rows[s]>>, RoundMultiple, Width)
    IN  [s \in Shard |-> [m \in DOMAIN CutsOf(s) |->
            SubSeq(rows[s], CutsOf(s)[m].first, CutsOf(s)[m].last)]]

\* All shards are cut alike, by the longest row any of them has at a place.
DynamicCut(chunk, tokens) ==
    LET rows == Stride(lengths, ToSet(chunk), Shards)
        cuts == DynamicCuts(tokens, lengths, rows, RoundMultiple, Width)
    IN  [s \in Shard |-> [m \in DOMAIN cuts |-> SubSeq(rows[s], cuts[m].first, cuts[m].last)]]

PaddedLengths(chunk) == [k \in DOMAIN chunk |-> RoundUp(lengths[chunk[k]], PadMultiple)]

\* first_fit_shuffle takes the rows of each chunk in a random order.
Orders(size) ==
    [1..NumChunks(size) -> IF policy.batching = "first_fit_shuffle" THEN SetToSeqs(1..size)
                           ELSE {[k \in 1..size |-> k]}]

Bins(chunk, order, tokens) ==
    LET padded == PaddedLengths(chunk)
    IN  CASE policy.batching = "concatenative" -> Concatenative(tokens, padded)
          [] policy.batching = "first_fit_decreasing" ->
                 FirstFitDecreasing(tokens, padded)
          [] policy.batching = "first_fit_shuffle" -> FirstFit(tokens, padded, order)
          [] policy.batching = "modified_first_fit_decreasing" ->
                 ModifiedFirstFitDecreasing(tokens, padded)

\* The bins are dealt out to the shards in turn.
Deal(chunk, bins) ==
    LET RowsOf(bin) == [k \in DOMAIN bin |-> chunk[bin[k]]]
    IN  [s \in Shard |-> [m \in 1..((Len(bins) + Shards - s) \div Shards) |->
            RowsOf(bins[s + (m - 1) * Shards])]]

\* An assertion or a ValueError of the sharding or of the packer.
Refused(size, tokens, order) ==
    \/ Len(lengths) % size # 0 \/ size % Shards # 0
    \/ policy.batching = "fixed" /\ (size \div Shards) % MicroBatchRows # 0
    \/ policy.batching = "dynamic" /\ Width > tokens
    \/ /\ policy.batching \in Packers
       /\ \E g \in 1..NumChunks(size) :
              LET chunk == Chunk(g, size)
              IN  \/ \E k \in DOMAIN chunk : PaddedLengths(chunk)[k] > tokens
                  \/ CannotAdjust(Bins(chunk, order[g], tokens), Shards)

Cut(chunk, order, tokens) ==
    CASE policy.batching = "fixed" -> FixedCut(chunk)
      [] policy.batching = "dynamic" -> DynamicCut(chunk, tokens)
      [] OTHER -> Deal(chunk,
             AdjustBinCount(Bins(chunk, order, tokens), Shards))

\* Per shard, its part of the chunks one after the other.
Plan(size, tokens, order) ==
    LET cuts == [g \in 1..NumChunks(size) |-> Cut(Chunk(g, size), order[g], tokens)]
    IN  [s \in Shard |-> [g \in DOMAIN cuts |-> cuts[g][s]]]

-----------------------------------------------------------------------------
(* The calls. *)

NoConfiguration ==
    [backend |-> "none", batching |-> "fixed", pipeline |-> 1, context |-> 1]

PolicyInit ==
    /\ algorithm = "none" /\ todo = << >> /\ policy = NoConfiguration
    /\ lengths = << >> /\ valid = 0 /\ evalMode = FALSE /\ call = "none"
    /\ plan = << >> /\ globalBatch = 0 /\ microBatch = << >> /\ finished = {}
    /\ weights = [s \in Shard |-> "policy"]
    /\ results = << >> /\ outputs = << >> /\ gradients = << >> /\ steps = << >>

\* The calls a step makes.  GRPO may do without the reference model.
StepCalls(name) ==
    CASE name = "grpo" -> {<<"get_logprobs", "train">>,
                           <<"get_logprobs", "get_reference_policy_logprobs", "train">>}
      [] name = "distillation" -> {<<"get_topk_logits", "train">>}
      [] name = "dpo" -> {<<"get_reference_policy_logprobs", "train">>}
      [] OTHER -> {<<"train">>}

\* The rows of an optimizer step.  The loops over a dataset take batches of
\* train_global_batch_size.
TrainBatchSizes ==
    IF algorithm \in {"grpo", "distillation"}
    THEN {size \in GlobalBatches : Len(lengths) % size = 0}
    ELSE {Len(lengths)}
BatchSizes(name) == IF name = "train" THEN TrainBatchSizes ELSE {Len(lengths)}
Tokens(name) == IF name = "train" THEN TrainTokens ELSE LogprobTokens

NoGradients == [i \in Row |-> 0]

\* use_reference_model: the workers swap the reference weights in.
WeightsFor(name) ==
    [s \in Shard |-> IF name = "get_reference_policy_logprobs" THEN "reference"
                     ELSE weights[s]]

\* The Policy that is called, as the program was started; the teacher and the student
\* of distillation are two.
TurnTo ==
    /\ call = "none" /\ todo # << >> /\ policy = NoConfiguration
    /\ policy' \in Configurations(algorithm)
    /\ UNCHANGED <<algorithm, todo, lengths, valid, evalMode, call, plan, globalBatch,
                   microBatch, finished, weights, results, outputs, gradients, steps>>

\* The next call shards the rows and goes out to the workers.
Start ==
    /\ call = "none" /\ todo # << >> /\ policy # NoConfiguration
    /\ \E size \in BatchSizes(Head(todo)) : \E order \in Orders(size) :
           IF Refused(size, Tokens(Head(todo)), order)
           THEN call' = "error" /\ plan' = << >> /\ globalBatch' = 0 /\ results' = << >>
           ELSE /\ call' = Head(todo) /\ plan' = Plan(size, Tokens(Head(todo)), order)
                /\ globalBatch' = 1
                /\ results' = [w \in CalledWorkers |-> << >>]
    /\ todo' = Tail(todo)
    /\ microBatch' = [s \in Shard |-> 0]
    /\ finished' = {}
    /\ weights' = WeightsFor(call')
    /\ gradients' = IF call' = "train" THEN NoGradients ELSE gradients
    /\ UNCHANGED <<algorithm, policy, lengths, valid, evalMode, outputs, steps>>

-----------------------------------------------------------------------------
(* The workers. *)

Mine(s) == plan[s][globalBatch]

\* How many passes a shard runs.  With sequence packing the DTensor workers take the
\* most any shard has and repeat microbatches whose results do not count.
Passes(s) ==
    IF policy.batching \notin Packers \/ policy.backend = "megatron" THEN Len(Mine(s))
    ELSE CHOOSE n \in {Len(Mine(t)) : t \in Shard} : \A t \in Shard : Len(Mine(t)) <= n

\* The rows of the next pass.
NextRows(s) == IF microBatch[s] < Len(Mine(s)) THEN Mine(s)[microBatch[s] + 1] ELSE << >>

\* A forward pass of shards that run it together; the last stage has its results.
Pass(group, Kept(_)) ==
    /\ \A s \in group : s \notin finished /\ microBatch[s] < Passes(s)
    /\ results' = [w \in DOMAIN results |->
           LET s == ShardOfWorker(w)
           IN  IF s \in group /\ LastStage(w)
               THEN results[w] \o [k \in DOMAIN Kept(NextRows(s)) |->
                                       <<weights[s], Kept(NextRows(s))[k]>>]
               ELSE results[w]]
    /\ microBatch' = [s \in Shard |-> IF s \in group THEN microBatch[s] + 1 ELSE microBatch[s]]
    /\ UNCHANGED <<algorithm, todo, policy, lengths, valid, evalMode, call, plan, globalBatch,
                   finished, weights, outputs, steps>>

\* log probabilities or top-k logits
InferencePass(group) ==
    /\ Pass(group, LAMBDA rows : rows)
    /\ UNCHANGED gradients

\* The loss masks padding out, of the gradients and of the metrics.
Counting(rows) == Those(rows, LAMBDA i : i <= valid)
TrainPass(group) ==
    /\ Pass(group, Counting)
    /\ gradients' = [i \in Row |-> gradients[i] +
           IF evalMode THEN 0
           ELSE Cardinality({at \in group \X Row :
                    LET counted == Counting(NextRows(at[1]))
                    IN  at[2] \in DOMAIN counted /\ counted[at[2]] = i})]

LogprobCalls == {"get_logprobs", "get_reference_policy_logprobs"}

DTensorTrain == policy.backend = "dtensor" /\ call = "train" /\ TrainPass(Shard)
DTensorLogprobs ==
    policy.backend = "dtensor" /\ call \in LogprobCalls /\ InferencePass(Shard)
DTensorTopk == policy.backend = "dtensor" /\ call = "get_topk_logits" /\ InferencePass(Shard)

AutomodelTrain == policy.backend = "dtensor_v2" /\ call = "train" /\ TrainPass(Shard)
AutomodelLogprobs ==
    policy.backend = "dtensor_v2" /\ call \in LogprobCalls /\ InferencePass(Shard)
AutomodelTopk ==
    policy.backend = "dtensor_v2" /\ call = "get_topk_logits" /\ InferencePass(Shard)

\* Every shard of Megatron workers by itself.
MegatronTrain(s) == policy.backend = "megatron" /\ call = "train" /\ TrainPass({s})
MegatronLogprobs(s) ==
    policy.backend = "megatron" /\ call \in LogprobCalls /\ InferencePass({s})
MegatronTopk(s) ==
    policy.backend = "megatron" /\ call = "get_topk_logits" /\ InferencePass({s})

ForwardPass ==
    \/ DTensorTrain \/ DTensorLogprobs \/ DTensorTopk
    \/ AutomodelTrain \/ AutomodelLogprobs \/ AutomodelTopk
    \/ \E s \in Shard : MegatronTrain(s) \/ MegatronLogprobs(s) \/ MegatronTopk(s)

\* broadcast_tensors_from_last_stage, broadcast_loss_metrics_from_last_stage
FromLastStage(shards) ==
    LET Others == {"data_parallel", "context_parallel", "tensor_parallel"}
        Source(w) == CHOOSE v \in DOMAIN results :
            /\ LastStage(v)
            /\ \A name \in Others : Coordinate(Layout, v, name) = Coordinate(Layout, w, name)
    IN  [w \in DOMAIN results |->
            IF ShardOfWorker(w) \in shards THEN results[Source(w)] ELSE results[w]]

\* Variant: the workers of the last shard do not swap back.
FinishShardAsIs(s) ==
    /\ call \notin {"none", "error", "train"} /\ s \notin finished
    /\ microBatch[s] = Passes(s)
    /\ results' = FromLastStage({s})
    /\ weights' = [weights EXCEPT ![s] = IF s = Shards THEN @ ELSE "policy"]
    /\ finished' = finished \cup {s}
    /\ UNCHANGED <<algorithm, todo, policy, lengths, valid, evalMode, call, plan, globalBatch,
                   microBatch, outputs, gradients, steps>>

\* The workers of a shard return; those that held the reference model swap back.
FinishShard(s) ==
    /\ call \notin {"none", "error", "train"} /\ s \notin finished
    /\ microBatch[s] = Passes(s)
    /\ results' = FromLastStage({s})
    /\ weights' = [weights EXCEPT ![s] = "policy"]
    /\ finished' = finished \cup {s}
    /\ UNCHANGED <<algorithm, todo, policy, lengths, valid, evalMode, call, plan, globalBatch,
                   microBatch, outputs, gradients, steps>>

\* The gradient norm is collective, then the optimizer steps; zero_grad opens the
\* next global batch.
EndGlobalBatch ==
    /\ call = "train" /\ \A s \in Shard : s \notin finished /\ microBatch[s] = Passes(s)
    /\ steps' = IF evalMode THEN steps ELSE Append(steps, gradients)
    /\ gradients' = NoGradients
    /\ results' = FromLastStage(Shard)
    /\ IF globalBatch < Len(plan[1])
       THEN /\ globalBatch' = globalBatch + 1 /\ microBatch' = [s \in Shard |-> 0]
            /\ UNCHANGED finished
       ELSE /\ finished' = Shard
            /\ UNCHANGED <<globalBatch, microBatch>>
    /\ UNCHANGED <<algorithm, todo, policy, lengths, valid, evalMode, call, plan, weights,
                   outputs>>

-----------------------------------------------------------------------------
\* reorder_data by the rows' places, which the sharding returned.
Reordered(collected) ==
    LET places == FlattenSeq([s \in Shard |-> FlattenSeq(plan[s][1])])
    IN  IF policy.batching = "fixed" THEN collected
        ELSE [i \in Row |-> collected[SelectInSeq(places, LAMBDA j : j = i)]]

\* What the driver makes of the results; train returns metrics, in no order.
Return ==
    /\ call \notin {"none", "error"} /\ finished = Shard
    /\ \E collected \in {Gathered(Layout, ReturningWorkers, results)} :
           outputs' = [name \in DOMAIN outputs \cup {call} |->
               IF name # call THEN outputs[name]
               ELSE IF call = "train" THEN collected ELSE Reordered(collected)]
    /\ policy' = IF call = "get_topk_logits" THEN NoConfiguration ELSE policy
    /\ call' = "none" /\ plan' = << >> /\ globalBatch' = 0 /\ microBatch' = << >>
    /\ finished' = {} /\ results' = << >>
    /\ UNCHANGED <<algorithm, todo, lengths, valid, evalMode, weights, gradients, steps>>

PolicyStep == ForwardPass \/ (\E s \in Shard : FinishShard(s)) \/ EndGlobalBatch \/ Return
PolicyNext == TurnTo \/ Start \/ PolicyStep
=============================================================================
