# Verification of NeMo RL's training core

TLA+ models, TLC runs and TLAPS proofs for the parts of NeMo RL (`src/nemo_rl`)
whose correctness depends on the order in which threads, actors and processes
act, or on code that moves rows and memory around by hand: asynchronous GRPO,
the synchronous training loops with kills and relaunches, checkpointing, the launch
of a job on a Ray cluster, the three ways weights get into an inference engine,
and the way of a batch through rollouts, sharding and microbatches.

    cd tla
    tlc -workers 2 -config grpo_groups.cfg AsyncGRPOProperties.tla
    tlapm AsyncGRPO_proofs.tla

`PROJECT.json` lists the components, the runs, the source lines of every
definition, the mutants that show that each property depends on the code, the
hazards and the theorems.

## 1. The system

| component (source) | state it keeps | operations | hard behaviour | what makes it correct |
|---|---|---|---|---|
| **Replay buffer** (`algorithms/async_utils.py`, Ray actor) | trajectories, generation version and target of each, last target | `push_with_wait_signal`, `sample`, `size`, `get_last_target_weight_already_generated` | producers and consumer interleave; bounded; `sample` raises on old groups | a step takes one batch made for it; nothing lost or used twice; capacity is enough |
| **Trajectory collector** (same file, Ray actor) | weight version, three events, reserved targets, semaphore, set of worker threads | remote calls on the main thread; `_collection_loop`; one thread per prompt group | three kinds of threads on shared fields; events set and cleared by different threads; failing rollouts | permits conserved, groups accounted for, no sleep without a wake-up, quiet refits |
| **Async GRPO trainer** (`algorithms/grpo.py`, `async_grpo_train`) | step, weight version | fill, sample, train, refit, validate, checkpoint, stop | calls that are waited for and calls that are not; exceptions and early stops | groups within the age window; labels never newer than the weights; progress |
| **Checkpoint manager** (`utils/checkpoint.py`, with the save path of the loops and `setup`) | directories `step_N`, `tmp_step_N` | init, finalize, remove old, latest | kills inside a save or an `rmtree`; two notions of "latest" | what a launch resumes from is whole and is the newest; the best one survives |
| **Weight streaming** (`models/policy/utils.py`, `models/generation/vllm/vllm_backend.py`) | two shared GPU buffers, ZMQ REQ/REP | pack, send group, load, acknowledge, complete | two processes and two GPU streams overlap; timeouts on both sides | no torn tensor; success means complete; both sides end |
| **Packed broadcast** (`utils/packed_tensor.py`, `vllm_worker_async.py`) | ring of buffers and CUDA streams on every rank | pack, broadcast, unpack, copy | every rank cuts the list by itself; broadcasts are only launched | same cuts, same order; bounded memory; success means launched everywhere it is asked |
| **Synchronous loops** (`grpo_train` with dynamic sampling, `distillation_train`, `sft_train`, `dpo_train`, `rm_train`) | step, epoch, position of the dataloader, batch cache, staleness flag, where policy, teacher and engine keep their memory | one step after another, validate, save, resume | batches that span generations; roll-over of epochs; resumption; memory moved by hand | fresh weights; one owner of the GPUs; each batch once; full steps; the end is saved |
| **Rollouts** (`experience/rollouts.py`) **and vLLM generation** (`vllm_generation.py`) | conversations, active samples; a queue, a flag and a reader task per sample | a turn: respond, grade, observe | shards and tasks answer in any order over a shrinking batch; coroutines, timeouts, failing engines | a sample keeps its own history, in bounds, and ends |
| **Batched data, sequence packing, policy** (`batched_data_dict.py`, `packing/algorithms.py`, `lm_policy.py`, the DTensor and Megatron workers) | rows per shard, microbatches, gradients, weights swapped in | shard, pack, reorder, logprobs, reference logprobs, top-k logits, train | collective passes; uneven sizes; orders to restore; results on one stage only | equal work on all ranks; every row once; own logprobs of the right model |
| **Worker groups** (`worker_groups.py`, `named_sharding.py`) | the coordinates of each worker | call all, call with shards, gather results | replicas: who is called, with what, and whose result is taken | one result per shard, in order |
| **Launch** (`setup` of the algorithms, `virtual_cluster.py`, constructors of `Policy`, `VllmGeneration`, `SGLangGeneration`) | placement groups of each cluster, workers on their GPUs, ranks of the NCCL group | divide the cluster, ask Ray for bundles, tie bundles to engines, number ranks | groups made by whoever comes first and shared; two threads; nodes that join late; Ray's free choice | no GPU twice, none of another cluster; engines whole and on one node; ranks without gap |
| **HTTP streaming** (`models/policy/utils.py`, `sglang_generation.py`) | which GPU belongs to which server, handles of each tensor | match, gather, post | collective over ranks of different servers; a request may fail | every server gets every tensor from each of its GPUs |
| Timers | iteration times | | average against deadline | not modelled (section 7) |
| Losses, models, datasets, graders, logging, set-up | -- | -- | numeric or I/O | not modelled, except what orders, pads and masks rows |

How they interact:

    async_grpo_train --remote calls--> AsyncTrajectoryCollector --one thread per group--> rollouts
          |   ^                              |  reads last target              |
          |   +------ sample ---- ReplayBuffer <-------- push -----------------+
          |-- refit --> policy workers ==ZMQ + shared GPU buffers, or NCCL==> vLLM workers
          |                          (====gathered handles over HTTP====> SGLang servers)
          +-- save ---> CheckpointManager --directories--> setup() of the next launch

The trainer calls the collector with `.remote()`; only `prepare_for_refit` and
`wait_for_pending_generations` are waited for. The collector's main thread
answers calls one at a time and in order while its loop and its workers run.

    grpo_train --batch--> rollouts <==shards==> vLLM engines      (one step)
          |                  ^----- by task --> environments
          |--rows--> Policy --shards, microbatches--> data-parallel workers
          |--wake / sleep / offload / refit--> engine and policy share the GPUs
          +--save--> CheckpointManager

## 2. Modules

| module | models | uses |
|---|---|---|
| `ReplayBuffer` | the buffer actor; one atomic step per method (its lock) | |
| `TrajectoryCollector` | the collector: main thread, loop, workers | `ReplayBuffer` |
| `AsyncGRPO` | the trainer, and the composition of all three | `TrajectoryCollector` |
| `AsyncGRPOProperties` | what the composition promises, and what comments and guide claim | `AsyncGRPO`, `AsyncTraining` |
| `AsyncTraining` | the abstract promise: a pool of labelled groups, steps that take exactly one batch | |
| `CheckpointManager` | the manager and the job around it, killed and launched again | |
| `DurableTraining` | the abstract promise: a counter of steps and a durable copy that a relaunch goes back to | |
| `SyncTraining` | the loops of `grpo_train`, `distillation_train` and the supervised algorithms, killed and launched again | |
| `WeightStreaming` | one sender and one receiver, their GPU streams, buffers and sockets | |
| `PackedBroadcast` | the ranks of one NCCL group, their CUDA streams and buffers | |
| `HttpStreaming` | the policy workers and the SGLang servers on their GPUs | |
| `Launch` | `setup()`: the division of the cluster, placement groups, workers and their ranks; Ray | `WorkerGroup` |
| `Refit` | a job from `setup()` to the end of its first refit (`refit_policy_generation`): the layout decides which of the three transfers the trainer starts | `Launch`, `WeightStreaming`, `PackedBroadcast`, `HttpStreaming` |
| `WorkerGroup` | who of a worker group is called and whose result is taken: functions of its axes | |
| `Rollouts` | synchronous and asynchronous multi-turn rollouts with engines and environments | `WorkerGroup` |
| `Packing` | the packers, the bin count, the cuts of dynamic batching: functions of the lengths | |
| `PolicyBatches` | the calls of `Policy`, sharded, run by three kinds of workers and gathered, for six algorithms | `Packing`, `WorkerGroup` |
| `Experience` | the middle of a step: rollouts or a dataset make rows, the policy uses them up | `Rollouts`, `PolicyBatches` |
| `Counting` | facts that several proofs use: about finite sets, folds, and sequences that are flattened or filtered | |
| `*_proofs` | the theorems about the module of that name, `AsyncTraining_proofs` those about `AsyncGRPO` seen as `AsyncTraining`, `PolicyBatches_proofs` those about `Packing` and the cuts of `PolicyBatches`, `Refit_proofs` also those about `WeightStreaming`; see section 6 | |

### Asynchronous GRPO

**State.** A buffered group is a record: the step it was made for (`target`), the
version of the weights (`version`), its prompt, and its arrival number among the
groups of its target. The three parallel lists of the class become one set:
`sample` filters by target before it takes a prefix, so order is visible only
among groups of one target. `loop` is the collection thread (program counter
and the locals that are still read), `workers` the threads that are not over,
`mailbox` the remote calls not yet answered, `phase` the place in
`async_grpo_train`.

**Steps.** A step reads or writes one shared object: a field, an event, one lock
section, one remote call. Reading the weight version, asking the buffer for
the last target and the locked check of the reservations are therefore three
steps (`ReadVersion`, `ReadLast`, `CheckLimit`, and once more in
`BeginBatch`, `ReadLastForTarget`, `ReserveTarget`): this is where state goes
stale. `set_weight_version` is two (`SetWeightVersion`, `WakeLoop`), since the
loop can act between the store and the look at the event. The loop reads the version
again when it notes the warning (`WarnOncePerVersion`, `NoteWarning`,
`ClearLimitEvent`). Four sequences are one
step, each because no other thread can tell the difference:
  - `acquire()` and the creation and tracking of the thread: only the loop
    acquires, and a thread that was not started is not seen as alive;
  - leaving `_inflight_threads` and releasing the permit: a permit released later
    only makes the loop wait longer;
  - the end of a rollout and its successful push (`PushGroup`): nobody looks at a
    group between the two;
  - the look at the event and the `set()` in `WakeLoop`: if the event was set the look
    is the last access, and if it was not, nobody else sets it in between.

`event.wait()` is a guard. A call is "answered" when the mailbox is empty,
because Ray answers the calls of one caller to one actor in order.

**Failures.** A rollout, a dataloader pass or a trainer step may raise; at most
`MaxFailures` do. A rollout that raises pushes nothing and its worker frees the
reservation (`EmergencyCleanup`). A dataloader pass that raises ends the loop, and
workers that find it ended drop their group (`PushAbandoned`). A trainer step that
raises ends the run, except the initial validation, whose exception is caught and
training goes on. The ValueError of `sample` ends it too (`SampleRaises`).

**Left out.** Losses, advantages and metrics; `clear()` (never called by the loop);
`invalidate_kv_cache`; an exhausted dataloader without an exception, which ends the
loop just like `DataloaderFails`. `check_save()` is a free choice (`MayTimeOut`).

### Checkpoints

A `step_N` directory is whole, stripped (some file is missing, but
`training_info.json` is there), blank (`training_info.json` is gone, something is
left) or not there: what `rmtree`, `_load_checkpoint_history` and
`get_latest_checkpoint_path` can tell apart. A save is four steps (stage, write,
rename, select) and a removal goes directory by directory, file by file, so a
kill can fall anywhere. `Kill` leaves the disk alone; `Restart` takes what
`setup()` reads, and needs every file to be there. `higher_is_better = False`
mirrors the order of the metric; `metric_name = None` is `MaxMetric = 0`.
Assumptions: `keep_top_k` is set; a rename is atomic; one job writes the directory.

### Weight streaming

`sender.pc` and `receiver.pc` follow the two loops. A non-blocking copy only
enters a queue (`copies`, `loads`); the GPU stream of its process (`CopyIn`,
`CopyOut`, external) runs it later, in order; `synchronize()` is the guard
"queue empty". `memory` records which tensor each 512-byte unit was last filled
from; `packedAt` is a history variable for the proof. `SenderRaises` and
`ReceiverRaises` are the exceptions of either side, `SenderTimesOut` and
`ReceiverTimesOut` the `RCVTIMEO` of the sockets, possible while the peer is only
slow (an early timeout) and certain when it is gone. The receiver swallows
exceptions and returns False, the sender raises: `UpdateSuccess` is what
`refit_policy_generation` takes for success. A refit that fails raises
`RuntimeError` and ends training, so the socket is not used again after a
failure. Sizes are what `calculate_aligned_size` makes of them; a tensor larger
than a buffer is refused by an assertion and belongs to `SenderRaises`.

### Packed broadcast, and the refit

Rank 0 of `PackedBroadcast` is the first training worker, the source; the other
training workers run the same producer, the engine ranks the consumer. A turn of a
rank (`Produce`, `Consume`) synchronizes the stream of its next buffer, collects
tensors up to the target and launches the broadcast; `Unpack` launches the copy
into the model. What was launched runs later: `Land` is NCCL (the k-th broadcasts
of all ranks together, and only if their sizes agree), `CopyToModel` the
stream of an engine rank. A packed tensor is cut behind the first tensor that
takes it past the target; producer and consumer have a definition each, as the
code has a loop each. A slice of a packed tensor is an interval of bytes, so a
disagreement would show in which tensors a parameter got its bytes from.

`Refit` takes the layout of `Launch`, which decides the path, runs that transfer,
and takes success or failure from what the training workers and the first rank of
each engine return, as `refit_policy_generation` does. The workers go on when
the trainer has given up. The sizes of tensors are chosen when the refit starts and
the layout is then forgotten (`Forget`): the IPC path is one pair of processes on
any layout, and the NCCL path is explored on the layouts that have as many trainers
and engines as `PackedBroadcast` (`Explored`). The HTTP path runs on every layout.

In `HttpStreaming` a worker looks for its server before the first collective, so that
this is part of the start; `GatherUuids` and `GatherHandlers` are the
`all_gather_object`s of all policy workers, `Post` and `PostFails` the request of
the first worker of a server. A worker that raises leaves the others in the next
gather, while the trainer's `ray.get` raises.

### The launch

`config` is one configuration that the assertions of `setup()` accept (`Accepted`):
`grpo` or `distillation`, vLLM or SGLang, colocated or not, nodes and GPUs, the share of
the engines, a reward model or none, the size of an engine and of the policy.
`clusters` are the `RayVirtualCluster`s: a cluster asks for its placement groups when
its first worker group is constructed, in the form this one needs (`Unified`), and
keeps them for the next. `todo` lists per thread what is constructed in which order:
without colocation engine and policy are constructed by two threads, the reward model
always by its own environment's. `Placements` are all sets and orders of GPUs that Ray's
PACK or SPREAD allows; nodes join at any time (`Join`) or never. A shortage is an
exception at the count, which is tried again (`RetryLater`), or a timeout of the
wait, which is not (`GiveUp`). `workers` are the GPUs of each tied group:
`TiedGroups` slices the bundles of a vLLM cluster into engines, `Servers` does so for
SGLang, whose servers count GPUs from the index of their first bundle. `Ranks` is what
everybody joins the NCCL group as. Not part of it: CPUs, ports, environments, and the
judge of `grpo.setup`, which takes GPUs like the reward model.

### Synchronous training

`config` is one combination of the switches of the master configuration that the
loops branch on; it is chosen at the start among those that `setup()` accepts. `phase`
is the place in the loop. A training step is a sequence of actions wherever memory
or weights move, because a kill may fall between them and an invariant must hold
between them. `policy`, `teacher` and `engine` record where the calls
`prepare_for_training`, `prepare_for_lp_inference`, `offload_before_refit`,
`offload_after_refit`, `prepare_for_generation` and `finish_generation` leave memory.
`version` and `loaded` are histories of the weights; `trained` is the history of
the batches behind each step. Rewards are 0 or 1 and matter only with dynamic
sampling, where `NonZeroStd` is what the standard deviation (of all, or of the others
with the leave-one-out baseline) comes to. A save is one step here: that a killed save
leaves the previous checkpoint is the promise of `CheckpointManager`, stated by
`DurableTraining`, which both modules are shown to implement. A dataloader yields
`NumBatches` batches and its saved position is where a launch goes on.
`distillation_train` differs from `grpo_train` in the teacher and in how it wakes the
engine; the supervised loops in their head, in validation and in the counters they
save (one module for the three, which agree in all of that).

### Rollouts and the policy

The synchronous rollout (`StartTurn`, `GenerateShard`, `CollectResponses`,
`StepEnvironment`, `TakeTurn`) sends the active samples to the engines in shards and
to the environments by task; the sources answer in any order, `Collected` and
`FeedbackInOrder` put the answers back. A message records which sample and turn it
was made for (`of`), so that a mix-up is visible. The asynchronous rollout is
one coroutine per sample. The reader task (`ReaderPuts`, `ReaderEnds`), the queue, the
flag `finished` and the timeout are those of `_async_generate_base`; since
coroutines only switch at an `await`, the code between two of them is one action.
`ray.get` on an environment is not an `await`: `Blocked` keeps all others still. Two
environments stand for all: one that grades and ends, one that plays on, may answer
without metadata and may end.

`Flatten` turns message logs into rows, `Collate` takes them from a dataset (for
`sft`, `dpo` and `rm`; the last batch of a validation is padded by `PadLastBatch`, its
copies do not count); from there on only lengths matter. `StepCalls` lists what a step
asks of `Policy`: GRPO log probabilities and, with a KL term, those of the reference
model; distillation the teacher's top-k logits and then a student of its own
configuration; DPO reference logprobs; all of them training. `Start` shards the rows
(`Plan`: fixed microbatches, dynamic batching, or one of four packers) and hands each
called worker its part. A forward pass (`ForwardPass`, one definition per backend and
call) is collective over all shards with DTensor, v1 and v2, and runs shard by shard
with Megatron, where only the last pipeline stage has results until `FinishShard`
and `EndGlobalBatch` broadcast them. With sequence packing the DTensor workers run as
many passes as the longest shard needs, on microbatches that do not count.
`FinishShard` also puts the policy's weights back after a reference pass.
`EndGlobalBatch` is the optimizer step, which all ranks meet at. `Return` gathers the
results of the workers that `WorkerGroup` says return one, and restores the order of
the rows. The shuffle of `first_fit_shuffle` is any order. `Refused` collects the
assertions and `ValueError`s of sharding and packing: they end in `call = "error"`,
which `EqualWork` excludes for every batch and configuration that are admitted.

### Definitions called "Variant"

Definitions under a comment "Variant: ..." are not part of a model. Each is a
definition as a plausible bug would make it (a dropped guard, an off-by-one, a
missing reset); `mutants` in `PROJECT.json` pairs it with the property that fails
when the variant takes the definition's place.

## 3. Runs

| run | question | bounds |
|---|---|---|
| `grpo_groups` | does every group reach the buffer, and its step, exactly once? do permits leak? can rollouts overlap a refit? | 2 prompts, age 1, 2 steps, 1 failure anywhere |
| `grpo_window` | are labels honest, groups in their age window, and the buffer large enough? | 1 prompt, age 2, resumed at step 1, up to step 3 |
| `grpo_pauses` | do validation, checkpoint, timeout and failure leave the promise to the trainer intact? (refinement of `AsyncTraining`) | 1 prompt, age 1, 2 steps, in-flight updates, validation at every step, at start and at end, checkpoint at every step, 1 failure |
| `grpo_progress` | is a reserved step trained; does `prepare_for_refit` return? | 1 prompt, age 1, 3 steps, fairness |
| `checkpoints` | does a job killed anywhere resume from its last save, keep its best one, and finish? | 6 steps, save every 2, keep 2, 2 metric values or none, 2 restarts |
| `training` | do the loops keep weights fresh, memory apart, batches unique, steps full; do they end and save their end, whenever killed? (refinement of `DurableTraining`) | all three algorithms and all valid switches, 3 batches of 2 prompts by 2 generations, 2 epochs, up to 5 steps, bound of 1 or 3 generated batches, validation and save every 2, 1 relaunch |
| `weights` | from `setup()` to the first refit: does a layout share or lose a GPU, misnumber a rank, fail without cause? over IPC, NCCL and HTTP: are weights intact, is success complete, does a refit end? | 1 to 3 nodes of 2 or 3 GPUs, at most 6 in all, engines of 1 to 4 GPUs, policies of 2, 2 tries for resources; IPC: 5 tensors of sizes 1 to 3, two buffers of 3 units, 2 failures; NCCL: 4 tensors of 1 or 2 bytes, target 1, 2 buffers, 2 training ranks, an engine of 2 ranks, 1 exception; HTTP: 2 tensors on all layouts, 1 failing request |
| `experience` | does a row keep its own responses, feedback and logprobs; do all ranks work equally; do rollouts end? | 4 samples (2 asynchronous), 2 tasks, 2 turns, observations of 0 to 2 tokens, context of 5, 1 failure; dataset rows of 2 or 5 tokens, validation batches of 1 to 4; 3 backends, 2 data-parallel ranks, pipeline and context parallel 1 or 2, 6 kinds of batching, microbatches of 8 and 9 tokens, global batches of 2 and 4 |
| `claim_stall`, `claim_sleep`, `claim_quiet_refit`, `claim_groups` | four claims of comments, guide and configuration; TLC refutes each (section 5) | as small as shows it |

Why these bounds suffice to meet the hard cases. Two prompts make a batch that
can be half done: one sibling fails, has released or is first while the other
still generates. One failure already splits a batch, ends the loop or the
trainer. Age 1 makes the limit event, the reservations and the refit meet at every
step; age 2 gives more than one open target and versions of more than one step
in the buffer at once. Two steps hold one complete refit between two samples;
three are needed for a target that is neither the first nor at the end. Six steps
with a save at every second (or earlier, by timeout) fill the top-2 list and
overflow it, with a restart before and after. Five tensors in buffers of three
units give groups of one, two and three tensors and use each buffer twice, the
least at which a buffer is filled again. Four tensors of one or two bytes against a
target of one give packed tensors of one and of two tensors, a last one that is full
and one that is not, and two to four broadcasts on two buffers; two ranks in an
engine are needed for one whose result is dropped. Engines of one to four GPUs on
nodes of two or three fill a node, divide it, leave GPUs over, or span two nodes; three
nodes leave two for one of the clusters, or one each for policy, engine and reward
model. Two tensors are two rounds of gathers on up to three servers. Three batches in two epochs with a
step bound of five let training end inside an epoch, by its limit and by its epochs
(`unlimited`); two groups to a step and three batches fill the cache over one, two
and three batches. Four samples on two engines give shards of two, of one and of
none as samples end, and two tasks interleave in the batch. A context of five
tokens is reached by a response, by an observation, or not at all. Rows of one to
five tokens in microbatches of eight and nine (one for inference, one for training)
give bins with one to three rows, odd numbers of bins, and lengths in all four classes
of the modified first fit. Two pipeline stages are the least with a stage that has no
results, a context-parallel size of two the least with a replica to leave out and with
rows padded to a multiple. A validation batch of three is padded by one row, one of
two pairs by none or two.

The actors are gone when the trainer is over; the state machine of asynchronous
GRPO then stutters (`Terminated`), and TLC's deadlock check is on in all its runs.
`checkpoints`, `training` and `weights` really end, so it is off there, and
`EventuallyDone`, `TrainingEnds` and `RefitReturns` say that they end in the right
place. In `experience` the check is on and does the work of a liveness property for
the policy: a shard that waited for others in a collective pass would be a deadlock.

### Properties

  - `PermitsConserved`: no path of the worker's `finally` leaks or doubles a permit.
  - `GroupsAccounted`: without failures each reservation is worth exactly one
    batch: spawned, generated or accepted.
  - `BufferAccounted`, `BatchIsOnePerPrompt`: the buffer loses and duplicates
    nothing, and a step trains on each prompt of one dataloader batch once.
  - `OneStraggler`: at most one tracked rollout runs during a refit. (None would be
    what the docstring promises: `claim_quiet_refit`.)
  - `WithinAgeWindow`, `NeverFull`: in an undisturbed history (no failure, no
    target reserved twice) `sample` never raises, and push never answers "full": all
    groups of the steps reserved and not yet trained fit into the buffer, and while one
    of them is still generated a place is free.
  - `LabelsPublished`: a label is never newer than the weights.
  - `ImplementsAsyncTraining`: whatever fails, the refinement of `AsyncTraining`.
  - `ReservedStepsTrain`, `PrepareReturns`: progress.
  - `Resumable`, `BestSurvives`, `FinalizeIsFresh`, `RemovalKeepsTopK`,
    `EventuallyDone`, `ImplementsDurableTraining`: checkpoints. The last one says what
    a loop may rely on, and `SyncTraining` has it to show as well.
  - `FreshWeights`: nothing is generated with weights older than the policy's.
  - `OneResident`, `PlacedForUse`: trainer and engine are never both on the GPUs, and
    everything is back where it is used. (`OneResident` is about `grpo_train`; section 5.)
  - `EveryBatchOnce`, `EndIsSaved`, `TrainingEnds`: kills and relaunches included,
    batches are trained on in order, once, up to the end, which is saved.
  - `SoundSampling` (`FullSteps`, `GenBatchBound`): dynamic sampling gives a step whole, different
    groups with a deviation, and gives up in time.
  - `LaidOut`: whatever the order of threads, nodes and bundles, groups of different
    clusters share no GPU, colocated engines have the policy's, an engine that fits is
    on one node, the ranks of the NCCL group are 0 to `WorldSize` - 1, each once, and a
    refit over HTTP that returned found every server's GPUs under its own policy workers.
  - `IntactWeights` (`NoTornWeight`, `SuccessIsComplete`): the IPC path. `CollectivesMatch`: the NCCL
    path; `RefitTypeOK` bounds its memory. `UpdatedWhenReturned`: all three.
  - `RefitReturns`: `setup()` fails only for a cause (`RefusedForCause`: nodes that have
    not joined, or engines that do not fit), and a refit ends as its failures say.
  - `OwnExperience`: whatever comes back by shard, by task, by stage or by microbatch
    reaches the row it is of, and log probabilities and top-k logits are of the model
    they are asked of. `TrainsThePolicy`: the reference weights, which are copied into
    the trained model, are there during that one call only.
  - `OwnCoroutine`: a coroutine of the asynchronous rollout keeps a history of its own,
    turn by turn, and never takes a finished stream for one that brought no answer.
  - `EqualWork`: nothing admissible is refused, all ranks run as many microbatches,
    none is empty or too large, pairs of preferences stay together, and every row that
    counts enters the gradients of its own global batch, and the metrics, once.
  - `RolloutsEnd`: whatever the engines of asynchronous rollouts do.

## 4. Fairness

  - `AsyncGRPO`: weak fairness of each thread (trainer, main thread, loop, each
    worker): the interpreter runs every thread that can run, sleeps end, and a
    rollout returns or raises. `RolloutFails`, `DataloaderFails` and
    `TrainerRaises` have none: nothing has to fail.
  - `CheckpointManager`: a launched job makes steps, and a job that is down is
    launched again, as a cluster's job script does. A kill has no fairness.
  - `SyncTraining`: the driver makes steps, and a job that is down is launched again
    (within `MaxLaunches`). A kill has no fairness.
  - `Refit`: the threads of `setup()` run on, and every placement group asked for is
    placed or its wait times out (`[]<>Answered`: `pg.ready()` is waited for with a
    timeout). No node has to join. The trainer, all processes and all GPU streams run on, and a ZMQ receive
    whose peer is gone times out (`RCVTIMEO`, 120 s). NCCL has no timeout here:
    after an exception on one rank the others may wait forever, and `RefitReturns`
    promises an end on that path only if nothing raised. Nothing makes an early
    timeout or an exception happen.
  - `Experience`: engines and environments of the synchronous rollout answer or fail,
    since it waits for them without a timeout; of the asynchronous rollout only the
    event loop runs on (`AsyncStep`), its engines may stay silent. The policy needs
    none: the deadlock check covers it, and each of its steps is one further.

## 5. Where code and documentation disagree

  - **`claim_stall`** (`async_utils.py:321`). `sample` says it stalls "until the
    remaining trajectories are generated". Once version v > start is announced, the
    loop only lists targets from v + 1 on. If it has not reserved v by then, nobody
    ever generates for v and the trainer polls forever.
  - **`claim_sleep`** (`async_utils.py:434`). The loop clears the limit event after
    its check, so a `set_weight_version` in between is lost and the loop sleeps
    through a whole version although a target is open.
  - **`claim_quiet_refit`** (`async_utils.py:488`). `prepare_for_refit` "waits for
    all pending generations"; a rollout whose thread the loop was just creating
    starts in the middle of the refit.

  - **`claim_groups`** (`algorithms/utils.py`, used at `grpo.py:913`). Dynamic sampling
    "filters out prompts where all generations have the same reward" and is meant to
    take groups. With the leave-one-out baseline the deviation of a sample is that of
    the others, so a single different sample is dropped alone and the step trains on
    parts of groups.

The first two explain why `ReservedStepsTrain` speaks of reserved steps only, and
the last one why `FullSteps` speaks of the baseline of the whole group.

Seen while modelling, without a run of their own:

  - the guide says groups that are too old are discarded; `sample` raises
    (`async_utils.py:143`) and training ends. `WithinAgeWindow` therefore speaks of
    undisturbed histories;
  - `distillation_train` wakes a colocated engine without moving the trainer away
    (`distillation.py:742`), so `OneResident` is stated for `grpo_train` only;
  - with dynamic sampling a step takes several batches, and `is_last_step`
    (`grpo.py:1856`) is never true at the end of the last epoch: no save, no last
    validation. `EndIsSaved` leaves it out;
  - the bound on generated batches is compared with `<=` (`grpo.py:955`), so one
    batch more is generated than the name says; `GenBatchBound` counts it;
  - the dummy response of a failed sample is "marked as truncated so loss_multiplier
    will be zeroed" (`rollouts.py:761`), but it is zeroed only with `overlong_filtering`;
  - on the NCCL path success may be returned while up to `NumBuffers` packed tensors are
    in flight, and results of ranks other than the first are dropped
    (`vllm_worker_async.py:1064`); `UpdatedWhenReturned` says what is left;
  - the synchronous rollout updates `extra_env_info` only for samples that go on, the
    asynchronous one always;
  - `ray.get` on an environment inside a coroutine (`rollouts.py`) holds up the whole
    event loop, timeouts included;
  - a microbatch of a reward model must hold whole pairs (`rm.py:506`), but nothing in
    `rm.py` refuses dynamic batching, which sorts rows by length (`dpo.py:128` does
    refuse it); `EqualWork` leaves pairs out there;
  - DTensor v1 appends the metrics of a repeated microbatch with the number of valid
    samples of the one before; with equal counts, which `EqualWork` shows, there is
    none. v1 reports losses after, v2 before scaling them by the number of ranks;
  - a save asked for by the timeout is only made when checkpointing is enabled, but
    training stops either way;
  - `SGLangGeneration` only warns when the GPUs are not a multiple of a server's
    (`sglang_generation.py:81`) and says the rest stay unused; the policy uses them, its
    ranks there find no server and the first refit raises (`utils.py:516`).
    `RefitReturns` has this as a cause;
  - a server's first GPU is the index of its bundle (`sglang_worker.py:168`); with a
    reward model on the same node these are other GPUs than Ray gave it. `LaidOut`
    leaves this case out (`Misnumbered`);
  - an engine larger than a node needs a unified placement group, but
    `distillation_train` constructs the teacher first (`distillation.py:392`), which
    makes groups per node, so the engine is refused; with reward-model nodes in the
    cluster SPREAD may give bundles unevenly, which the engine refuses too
    (`vllm_generation.py:290`). `RefusedForCause` lists both;
  - resources are compared with what the cluster has, not with what is free
    (`virtual_cluster.py:302`), so a shortage may also show as the timeout, which is
    not tried again;
  - SGLang without colocation raises in the refit (`grpo.py:1211`), but `setup()` would
    wait for its ranks in the NCCL group before; `Accepted` leaves it out;
  - a refit over HTTP succeeds even if the cache was not flushed (`grpo.py:1189`);
  - `TimeoutChecker.mark_iteration` before `start_iterations` reads an unset local
    (`timer.py:321`).

## 6. Proofs

The theorems hold for every value of the constants that satisfies the named
assumptions of the modules, and for any number of failures, kills and restarts. The
assumptions (`NumPromptsAssumption` to `SwitchesAssumption`, `LoopConstants`,
`CheckpointConstants`, `StreamConstants`, `BroadcastConstants`, `HttpConstants`,
`LaunchConstants`, `RolloutConstants`, `PolicyConstants`, `ExperienceConstants`) say that
sizes, counts and periods are natural numbers, positive where the code divides by them or
starts at one, that `StartStep < MaxNumSteps`, that a prompt is shorter than the context,
and that a row of a dataset, which the processors of `data/processors.py` cut to
`max_seq_length`, is not longer than it. TLC evaluates each of them.

| theorem | argument |
|---|---|
| **`AsyncGRPO_proofs`** | |
| `SelectedIsABatch` | of a finite set of groups with distinct arrival numbers (`ArrivalsDistinct`), exactly n have fewer than n predecessors |
| `TypeCorrect` | `TypeInv` adds to the types that the step stays below the maximum while a step is trained, a worker's prompt is of its batch, and the main thread is busy only on a call |
| `PermitsAreConserved` | `PermitInv`: workers are a set of records, so two that became equal would be counted once. It adds that workers differ in target, round and prompt, that rounds never exceed the reservations, and that the loop's next prompt was not spawned yet |
| `GroupsAreAccounted` | `GroupInv`: as workers are distinct, each action moves one of the counts of a target by one. A group is given up only by a worker that finds the loop over, and the loop, which is started once, is over only after a failure |
| `LabelsArePublished` | `VersionInv`: the collector is at most one version behind, and if it is, the version is queued in the mailbox ahead of any call that a refit waits for |
| `OneStragglerAtMost` | `StragglerInv`: `prepare_for_refit` is the last call in the mailbox; once it is answered the loop is held at its check of the pause, or is past the check with one worker to make and none tracked, or has made that one |
| **`AsyncTraining_proofs`** | |
| `BufferIsAccounted`, `Refinement` | arrivals of a target are distinct and below the number of pushes, so a sample removes exactly one batch; each step of `AsyncGRPO` is a step of `AsyncTraining` or leaves it alone |
| `WindowIsKept` | `WindowInv`: a target is reserved at most the age ahead of the version, no age is lost on the way to the buffer, and an undisturbed history labels no group newer than its step. By the counts of `GroupsAccounted` and `BufferAccounted` a target whose batch was taken has nothing left to spawn, to generate or to sample |
| `EveryPromptOnce` | `PromptInv`: the groups of a target follow its reservations, each with its own prompt, so a batch of as many groups as prompts has each prompt once (an injection between sets of one size) |
| `RoomForAll` | the groups in the buffer map one to one into (open targets) x (prompts), and the place of a group still generated is free there |
| **`SyncTraining_proofs`** | each invariant says what holds in which phase |
| `TypesAreKept` | `TypeInv` adds for which purpose each phase is entered, and how step, epoch and position are related, in memory and in the checkpoint |
| `EngineIsFresh`, `MemoryIsShared`, `EverythingIsPlaced` | `FreshInv`: what is not marked stale is the policy's, and every update comes after a mark. `MemoryInv`: a colocated engine has memory only from its refit to the end of the generation |
| `LastStepIsSaved` | `CountInv`: how steps, epochs and the dataloader's position stand to each other (`CountersFit`, `TrainedFits`), so that the test the code makes for its last step sees it (`LastIsSaved`) |
| `BatchesAreTrainedOnce` | `FrontierInv`: the dataloader is past every batch at hand, cached or trained on, in memory and in the checkpoint a relaunch goes back to; without dynamic sampling `CountInv` says which batch each step had |
| `SamplingIsSound` | `GenBatchInv` for the bound. `GroupsInv`: the filter keeps all rows of a group or none; the k-th kept row is named by how many kept rows precede it, so a cut at a multiple of the group size is a cut between groups |
| `TrainingIsDurable` | the refinement of `DurableTraining`, action by action |
| **`CheckpointManager_proofs`** | |
| `JobIsResumable`, `BestCheckpointSurvives`, `CheckpointsAreFresh`, `CheckpointTypes`, `CheckpointsAreDurable` | `SaveInv`: the newest finalized directory has a `training_info.json`, so the history and the glob agree on what is latest; neither the newest nor the best is ever in the queue of removals; a running job is past the newest. The newest finalized step is the durable counter of `DurableTraining` |
| `RemovalKeepsTheBest` | `QueueIsComplete`: while a removal is under way its queue still holds every finalized directory outside the top k. A directory's rank is the number of better ones, by one integer made of metric and step |
| **`Refit_proofs`** | for any number of nodes, GPUs, ranks, tensors and buffers |
| `WeightsAreIntact`, `StreamTypes` | `StreamInv`: copies go to the sender's buffer only; whatever is on the wire, being loaded or on the receiver's GPU lies whole in the other one, at the offset the receiver computes for itself; the buffers are swapped only when nothing of that is left; a tensor that was sent is loaded or on its way |
| `BroadcastsMatch` | `BroadcastInv`: each packed tensor of a rank follows from the one before, so two ranks agree on all that both have launched; where a tensor is cut does not matter, only that producer and consumer cut by one function of sizes that do not change. Broadcasts in flight are fewer than buffers and take them in turn, so they have different ones |
| `RefitTypes` | `LaunchInv`: two threads of `setup()` never ask for the groups of one cluster, so the tries of a thread are those of its cluster, at most `MaxRetries` |
| `RefitIsIntact` | the invariant of `WeightStreaming`, kept by the composition |
| `ReturnedIsUpdated` | `TransferInv`: the trainer returns only if the ranks it asked are done. A rank that is done has launched every tensor; the first worker of a server has posted every tensor the others are past. Over HTTP these are all servers and all of their GPUs (`HttpFits`, next row) |
| `LayoutIsSound` | `LayoutInv`. Ray packs a group on as few nodes as it can (`PackedFits`); clusters of several nodes take whole ones, so enough free GPUs are enough free nodes (`WholeNodesAreLeft`) and each group covers nodes or, if not unified, lies on one (`PlacesInv`: `Grouped`, `AsunderInv`, `NodesInv`). Sorting, slicing and taking a group node by node keep its GPUs, each once (`Distinct`, `Tied`), so workers sit on the bundles of their cluster (`WorkersInv`), and counting them counts the ranks (`RanksAre`). `HttpFits`: servers are given no more GPUs than the policy has workers, so when each worker has found one, servers and policy have the same GPUs |
| **`PolicyBatches_proofs`** | for every list of lengths, budget, number of shards and configuration |
| `FirstFitPacks`, `ConcatenativePacks`, `FirstFitDecreasingPacks`, `ModifiedFirstFitDecreasingPacks` | each packer is a fold. What it has made so far packs the rows it has gone through (`Packs`: nonempty bins within the capacity, each row in one of them), and one more row, bin or turn keeps that. The phases of the modified packer pass rows on: what one has in bins and what is still on its list are disjoint and make up what it was given (`Taken`) |
| `AdjustedPacks` | while bins are missing there is one with two rows to split, since there are fewer bins than rows |
| `DynamicCutCuts`, `CallCuts` | shards are cut at the same positions, or bins are dealt out in turns and their number is a multiple of the shards: each shard has as many microbatches, none empty, each row in one |
| **`Experience_proofs`** | |
| `PolicyIsTrained` | `WeightsInv`: a shard with the reference weights is still at work in the call that wants them |
| `CoroutinesKeepTheirOwn` | `CoroutineInv`: where a coroutine is says how long its history is (`HistoryTo`) and what may lie between worker, reader and queue (`StreamAt`); a step moves one sample and leaves the others alone. When a stream is finished, the answer is in the queue, was taken, or an error comes first |
| `NoRowOutgrowsTheContext` | `ExperienceInv`: the length of a row is a sum over its messages, and each message is cut to what is left of the context when it is appended (`SyncInv` for the loop over turns, `CoroutinesFit` for coroutines); rows do not change once the policy has them (`IdleInv`) |
| `EveryRowKeepsItsOwn` | rollouts: shards are cut from the list of active samples in order and the engines are asked in the order of their coordinates, so the answers laid end to end are in the order of the list; groups of environments are not, and are put back by the samples' places (`RowsInv`, `AnswersInv`). Calls: `CallInv`. A plan deals the rows of a call out without loss or repetition (`PlanInv`, from `CallCuts`), what a shard has computed so far is of its own rows in its own order and of the model asked for (`ProgressInv`, `InferenceInv`), and every order a call has put rows into is undone by the inverse it kept |
| `WorkIsEqual` | `WorkInv`: each optimizer step takes a whole global batch, and the gradients collected in it are those of the rows its shards have gone through, each once (`TrainInv`); steps already taken and batches still to come make up the rows of the call (`TodoInv`, `StepsTaken`, `TrainOutputs`). It is about calls that are not refused: whether `"error"` is reached depends on how sizes and lengths were chosen, and stays with TLC |

Why the invariants are needed: `PermitsConserved` alone is not inductive because a
step could merge two workers; `OneStraggler` because nothing in it says where the loop
stands when the pause begins; `NoTornWeight` says nothing of what is still to
be copied, `CollectivesMatch` nothing of buffers that are being refilled; `Resumable`
alone lets a removal be under way that empties the newest directory; `FreshWeights`
speaks of the moments of generation, but staleness is decided steps and launches before;
`OwnCoroutine` does not see an answer the reader has yet to move; `OwnExperience` and
`EqualWork` speak of what is handed on and say nothing of a rollout half way through a turn
or of a shard half way through its microbatches; `LaidOut` speaks of workers, but where they
can go is decided by the groups that other clusters have already. Each strengthening was first checked by
TLC as an invariant of the runs above.

Induction over the elements of a sequence is a statement about a set in `Counting` (`UpTo`:
a set of numbers that has 0, and the successor of each of its elements up to n, has all
numbers up to n). From it follow what a fold computes (`Folded`, `FoldedSteps`: there is a
sequence of intermediate results, each made from the one before), what lies where in a
concatenation (`Flattened`, `SideBySide`) and what is left of a filtered sequence (`Kept`).
Lists that are cut into pieces of one size and put together again (`Tied`, `TiedFlattens`,
`TiedPieces`) have each element once if they had before; the layout rests on them.

Only model-checked, and why:

  - everything under fairness (`ReservedStepsTrain`, `PrepareReturns`,
    `EventuallyDone`, `TrainingEnds`, `RefitReturns`, `RolloutsEnd`): out of the
    prover's reach;
  - the conjunct `call # "error"` of `EqualWork`: other sizes than those of the run may
    well be refused.

## 7. Not modelled, and the plan

Not modelled, with the reasons in `PROJECT.json`:

  - tensor arithmetic (losses, advantages, kernels, model parallelism), text processing
    (datasets, graders, prompts), file formats of weights, logging and profiling, process
    and cluster set-up: data or I/O that no property here depends on;
  - SGLang generation beyond placement and weights: requests to an HTTP server, and a
    bounded retry of the cache flush whose result is only printed;
  - `TimeoutChecker`: its answer is a free choice in every loop, which covers all of its
    clocks;
  - the judge of `grpo.setup`, and CPUs, ports and environments of the workers;
  - `run_async_nemo_gym_rollout`: the rollout itself runs on an external server;
  - the position of the dataloader in asynchronous GRPO: it is saved while later
    batches are still in flight (`grpo.py:3097`), so a resumed run skips their
    prompts; nothing in the code promises otherwise;
  - metrics that a save records (`dpo.py:656`): `CheckpointManager` takes a
    checkpoint's metric as given;
  - the workers of one call swap reference weights in at the same step (`Start`), since
    nothing else can run on them in between;
  - a prompt that fills the context exactly (`PromptLength < MaxSeqLen`).

Next, in order of what can go wrong: the dataloader position of a resumed asynchronous
run as a property of its own.
