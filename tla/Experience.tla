----------------------------- MODULE Experience -----------------------------
(***************************************************************************)
(* The middle of a training step: the rows of the step are made, and the   *)
(* policy computes log probabilities of them and trains on them.  In       *)
(* grpo_train, async_grpo_train and distillation_train                     *)
(* (nemo_rl/algorithms) the rows are made by Rollouts, in the loops of     *)
(* sft.py, dpo.py and rm.py by collating a dataset; PolicyBatches uses     *)
(* them up.  What the two halves share is the order and the lengths of the *)
(* rows.                                                                   *)
(***************************************************************************)
EXTENDS Rollouts, PolicyBatches

CONSTANTS
    DatasetLengths  \* lengths of the rows of a dataset

\* The processors of a dataset cut a row that is longer than the context.
ASSUME ExperienceConstants == DatasetLengths \subseteq 1..MaxSeqLen

vars == <<rolloutVars, policyVars>>

\* A step of a loop over a dataset.
NoRollouts ==
    /\ asyncEngine = FALSE /\ rollout = "none" /\ errors = 0
    /\ rows = [i \in Sample |-> NewRow]
    /\ stage = "end" /\ active = << >> /\ waitingFor = {} /\ answers = << >>
    /\ pc = [i \in Sample |-> "done"] /\ stream = [i \in Sample |-> NoStream]

Init == (RolloutInit \/ NoRollouts) /\ PolicyInit

\* The rows of a step of the named algorithm, the first count of them to be counted.
Hand(name, batch, count) ==
    /\ algorithm' = name /\ todo' \in StepCalls(name)
    /\ lengths' = batch /\ valid' = count
    /\ rollout' = "handed"
    /\ rows' = [i \in Sample |-> NewRow]
    /\ stage' = "end" /\ active' = << >> /\ waitingFor' = {} /\ answers' = << >>
    /\ pc' = [i \in Sample |-> "done"] /\ stream' = [i \in Sample |-> NoStream]
    /\ errors' = 0
    /\ UNCHANGED <<asyncEngine, policy, call, plan, globalBatch, microBatch, finished, weights,
                   results, outputs, gradients, steps>>

\* The message logs become the padded rows of train_data.  How the rollouts were
\* made is not looked at again.
Flatten ==
    /\ rollout = "done"
    /\ \E name \in {"grpo", "distillation"} :
           Hand(name, [i \in Sample |-> Length(rows[i])], Cardinality(Sample))
    /\ evalMode' = FALSE

\* maybe_pad_last_batch: copies of the last row, with sample_mask 0.
PadLastBatch(batch, multiple) ==
    batch \o [k \in 1..(RoundUp(Len(batch), multiple) - Len(batch)) |-> Last(batch)]

\* A training batch has its full size; the last one of a validation may be short.
Collate ==
    /\ rollout = "none"
    /\ evalMode' \in BOOLEAN
    /\ \E name \in {"sft", "dpo", "rm"}, size \in 1..SyncBatch :
           /\ size = SyncBatch \/ evalMode'
           /\ Preferences(name) => size % 2 = 0
           /\ \E batch \in [1..size -> DatasetLengths] :
                  Hand(name, PadLastBatch(batch, RowsPerMicroBatch(name) * Shards), size)

MakeRows(A) == A /\ UNCHANGED policyVars
UseRows(A) == A /\ UNCHANGED rolloutVars

\* The step is over.
Finished ==
    /\ \/ rollout = "failed" \/ call = "error"
       \/ rollout = "handed" /\ call = "none" /\ todo = << >>
    /\ UNCHANGED vars

Next ==
    \/ MakeRows(RolloutNext)
    \/ Flatten
    \/ Collate
    \/ UseRows(PolicyNext)
    \/ Finished

Spec == Init /\ [][Next]_vars

\* The synchronous rollout waits for engines and environments without a timeout, so
\* they have to answer or to fail.  The asynchronous one gives up on an engine, not
\* on an environment.
FairSpec ==
    /\ Spec
    /\ WF_vars(MakeRows(SyncRollout))
    /\ WF_vars(MakeRows(AsyncRollout(AsyncStep)))

-----------------------------------------------------------------------------
\* No row ever outgrows the context, whatever engines and environments return; the
\* rest are types.
ExperienceTypeOK ==
    /\ asyncEngine \in BOOLEAN
    /\ rollout \in {"none", "running", "done", "failed", "handed"}
    /\ \A i \in Sample :
           /\ Length(rows[i]) <= MaxSeqLen
           /\ rows[i].turn \in 0..MaxTurns /\ rows[i].truncated \in BOOLEAN
           /\ pc[i] \in {"wait", "step", "done"}
           /\ stream[i].worker \in {"idle", "running", "answered", "failed", "drained"}
    /\ stage \in {"turn", "generate", "step", "end"}
    /\ ToSet(active) \subseteq Sample
    /\ waitingFor \subseteq Engines \cup Task
    /\ errors \in 0..MaxErrors
    /\ algorithm \in {"none", "grpo", "distillation", "sft", "dpo", "rm"}
    /\ policy \in Configurations(algorithm) \cup {NoConfiguration}
    /\ \A i \in Row : lengths[i] \in 1..MaxSeqLen
    /\ valid \in 0..Len(lengths) /\ evalMode \in BOOLEAN
    /\ ToSet(todo) \cup DOMAIN outputs \subseteq LogprobCalls \cup {"get_topk_logits", "train"}
    /\ call \in LogprobCalls \cup {"get_topk_logits", "train", "none", "error"}
    /\ finished \subseteq Shard
    /\ weights \in [Shard -> {"policy", "reference"}]

\* The history of a sample is its own, turn by turn, and ends at a dummy response.
OwnHistory(i) ==
    /\ \A n \in DOMAIN rows[i].log :
           /\ rows[i].log[n].of = <<i, (n + 1) \div 2>>
           /\ n % 2 = 0 <=> rows[i].log[n].role = "environment"
           /\ rows[i].log[n].role = "dummy" => n = Len(rows[i].log) /\ rows[i].truncated
    /\ rows[i].rewards = [t \in 1..(Len(rows[i].log) \div 2) |-> <<i, t>>]
    /\ {rows[i].stops, rows[i].info} \subseteq {<<i, t>> : t \in 1..rows[i].turn} \cup {<< >>}

\* A response that has reached the queue is not passed over when the reader has
\* finished before the coroutine looks.
ResponseKept(i) ==
    pc[i] = "wait" /\ stream[i].finished =>
        stream[i].collected \/ Head(stream[i].queue) \in {"sample", "error"}

\* What a call returns for each row is of that row, and of the model the call is about.
OwnOutputs ==
    \A name \in DOMAIN outputs \ {"train"} : outputs[name] = [i \in Row |->
        <<IF name = "get_reference_policy_logprobs" THEN "reference" ELSE "policy", i>>]

\* Every sample of a synchronous rollout keeps what was generated for it and nothing
\* else: its responses, observations and rewards in the order of its turns.  After any
\* rollout, its row keeps what the calls return for it.  Although results come back by
\* shard, by task, by microbatch or by pipeline stage.
OwnExperience ==
    /\ ~asyncEngine /\ rollout # "handed" => \A i \in Sample : OwnHistory(i)
    /\ OwnOutputs

\* A coroutine, too, gives its sample a history of its own, and never passes over a
\* response that has come, whichever of worker, reader and coroutine is the first.
OwnCoroutine ==
    asyncEngine /\ rollout # "handed" => \A i \in Sample : OwnHistory(i) /\ ResponseKept(i)

\* The reference model is swapped in for its own log probabilities only, on every shard:
\* what trains, and what every other call reads, is the policy.
TrainsThePolicy ==
    \A s \in Shard : weights[s] # "policy" => call = "get_reference_policy_logprobs"

WithinCapacity(rowsOf) ==
    IF policy.batching = "dynamic"
    THEN \A k \in DOMAIN rowsOf : Len(rowsOf) * lengths[rowsOf[k]] <= Tokens(call)
    ELSE policy.batching \in Packers =>
             Load(PaddedLengths([i \in Row |-> i]), rowsOf) <= Tokens(call)

\* A microbatch of preferences holds whole pairs, chosen before rejected.  Dynamic
\* batching sorts rows without regard to pairs.
PairsTogether(rowsOf) ==
    Preferences(algorithm) /\ policy.batching # "dynamic" =>
        /\ Len(rowsOf) % 2 = 0
        /\ \A k \in DOMAIN rowsOf :
               k % 2 = 1 => rowsOf[k] % 2 = 1 /\ rowsOf[k + 1] = rowsOf[k] + 1

Once(rowsOf) == [i \in Row |-> IF i \in rowsOf THEN 1 ELSE 0]
NumSteps == IF plan # << >> THEN Len(plan[1]) ELSE Len(steps)
GlobalBatch(g) == {i \in Row : (i - 1) \div (Len(lengths) \div NumSteps) = g - 1}

\* Nothing is refused; all shards run as many microbatches, none of them empty, too
\* large or without the partner of a row; each optimizer step takes every row of its
\* own global batch once, but no padding; and so do the metrics that come back.
EqualWork ==
    /\ call # "error"
    /\ plan # << >> => \A g \in 1..NumSteps :
           /\ \A s, t \in Shard : Len(plan[s][g]) = Len(plan[t][g])
           /\ \A s \in Shard : \A m \in DOMAIN plan[s][g] :
                  LET rowsOf == plan[s][g][m]
                  IN  rowsOf # << >> /\ WithinCapacity(rowsOf) /\ PairsTogether(rowsOf)
    /\ call \in {"none", "train"} => \A g \in DOMAIN steps :
           steps[g] = Once({i \in GlobalBatch(g) : i <= valid})
    /\ "train" \in DOMAIN outputs =>
           [i \in Row |-> Cardinality({k \in DOMAIN outputs["train"] :
                outputs["train"][k] = <<"policy", i>>})] = Once(1..valid)

\* The rollouts end, whatever the engines of asynchronous rollouts do.
RolloutsEnd == <>(rollout # "running")
=============================================================================
