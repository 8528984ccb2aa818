--------------------------- MODULE PackedBroadcast ---------------------------
(***************************************************************************)
(* A refit of an engine with GPUs of its own (nemo_rl/utils/               *)
(* packed_tensor.py): every training worker runs packed_broadcast_producer *)
(* over its parameters and every rank of every engine runs                 *)
(* packed_broadcast_consumer over what prepare_refit_info told it about    *)
(* them.  All are members of one NCCL group whose rank 0 is the source.    *)
(* Each cuts the list into packed tensors by itself; the k-th broadcast of *)
(* one meets the k-th of all others.  Broadcasts and the copies into the   *)
(* model are only launched by Python, on a ring of CUDA streams; a stream  *)
(* is synchronized before it is used again, and none at the end.           *)
(***************************************************************************)
EXTENDS Integers, Sequences, FiniteSets, Functions

CONSTANTS
    NumTensors,      \* how many tensors a refit sends
    MaxBytes,        \* the largest of them
    Target,          \* get_target_packed_tensor_size(), the same on every GPU
    NumBuffers,      \* get_num_buffers()
    NumTrainers,     \* training workers; the first of them is the source
    NumEngines,      \* engines
    RanksPerEngine,  \* GPUs of one engine
    MaxErrors        \* bound on the exceptions

ASSUME BroadcastConstants ==
    /\ {NumTensors, MaxBytes, NumBuffers, NumTrainers, NumEngines, RanksPerEngine}
         \subseteq Nat \ {0}
    /\ {Target, MaxErrors} \subseteq Nat

VARIABLES
    bytes,     \* the size of each tensor in the policy's dtype, which both sides use
    host,      \* per rank of the group: its Python code
    calls,     \* per rank: the broadcasts it has launched
    landed,    \* how many broadcasts are over
    copied,    \* per engine rank: how many packed tensors are copied into its model
    weights,   \* per engine rank and tensor: which tensors its bytes came from
    errors     \* history: how many exceptions there were

broadcastVars == <<bytes, host, calls, landed, copied, weights, errors>>

Tensor == 1..NumTensors
Trainer == 0..(NumTrainers - 1)
EngineRank == NumTrainers..(NumTrainers + NumEngines * RanksPerEngine - 1)
Rank == Trainer \cup EngineRank
Source == 0

\* The rank of an engine whose result the engine returns (worker_results[0]).
LeadRank == {NumTrainers + e * RanksPerEngine : e \in 0..(NumEngines - 1)}

\* The bytes of tensors first to last together.
Bytes(first, last) == FoldFunctionOnSet(+, 0, bytes, first..last)

\* A packed tensor is cut behind the first tensor that takes it past the target.
Overfull(first, last) == Bytes(first, last) > Target
Cut(first, Full(_, _)) ==
    CHOOSE last \in first..NumTensors :
        /\ last = NumTensors \/ Full(first, last)
        /\ \A l \in first..(last - 1) : ~Full(first, l)

ProducerCut(first) == Cut(first, Overfull)

\* Variant: the consumer also stops at a packed tensor that is exactly full.
ConsumerCutWhenFull(first) == Cut(first, LAMBDA f, l : Bytes(f, l) >= Target)

ConsumerCut(first) == Cut(first, Overfull)

BroadcastInit ==
    /\ bytes \in [Tensor -> 1..MaxBytes]
    /\ host = [r \in Rank |-> [pc |-> "pack", next |-> 1, buffer |-> 0, unpacked |-> 0]]
    /\ calls = [r \in Rank |-> << >>]
    /\ landed = 0
    /\ copied = [r \in EngineRank |-> 0]
    /\ weights = [r \in EngineRank |-> [t \in Tensor |-> {}]]
    /\ errors = 0

\* What rank r launched on a stream in its k-th turn is over.
Over(r, k) == IF r \in Trainer THEN k <= landed ELSE k <= copied[r]
InFlight(r) == {k \in DOMAIN calls[r] : ~Over(r, k)}

NextBuffer(r) == (host[r].buffer + 1) % NumBuffers

\* streams[buffer_idx].synchronize()
Synchronized(r) == \A k \in InFlight(r) : calls[r][k].buffer # NextBuffer(r)

\* The iterator ended before the packed tensor was full: this was the last turn.
EndsWith(first, last) == last = NumTensors /\ ~Overfull(first, last)

\* One turn of the ring: collect tensors and launch the broadcast; a turn that
\* finds no tensor left ends the loop.
Turn(r, LastOf(_), after) ==
    /\ host[r].pc = "pack" /\ Synchronized(r)
    /\ IF host[r].next > NumTensors
       THEN /\ host' = [host EXCEPT ![r].pc = "done"]
            /\ UNCHANGED calls
       ELSE LET first == host[r].next
                last == LastOf(first)
            IN  /\ calls' = [calls EXCEPT ![r] = Append(@,
                        [first |-> first, last |-> last, buffer |-> NextBuffer(r)])]
                /\ host' = [host EXCEPT ![r].next = last + 1, ![r].buffer = NextBuffer(r),
                        ![r].pc = IF after = "pack" /\ EndsWith(first, last)
                                  THEN "done" ELSE after]
    /\ UNCHANGED <<bytes, landed, copied, weights, errors>>

Produce(r) == Turn(r, ProducerCut, "pack")
Consume(r) == Turn(r, ConsumerCut, "unpack")

\* post_unpack_func launches the copies into the model.
Unpack(r) ==
    /\ host[r].pc = "unpack"
    /\ LET call == calls[r][Len(calls[r])]
       IN  host' = [host EXCEPT ![r].unpacked = @ + 1,
                ![r].pc = IF EndsWith(call.first, call.last) THEN "done" ELSE "pack"]
    /\ UNCHANGED <<bytes, calls, landed, copied, weights, errors>>

\* The iterator, the packing or load_weights raises.
Raise(r) ==
    /\ host[r].pc \in {"pack", "unpack"} /\ errors < MaxErrors
    /\ host' = [host EXCEPT ![r].pc = "failed"]
    /\ errors' = errors + 1
    /\ UNCHANGED <<bytes, calls, landed, copied, weights>>

\* NCCL: a broadcast is over when every rank has launched it; one that is
\* launched with different sizes never is.
SizeOf(call) == Bytes(call.first, call.last)
Land ==
    /\ \A r \in Rank : /\ landed < Len(calls[r])
                       /\ SizeOf(calls[r][landed + 1]) = SizeOf(calls[Source][landed + 1])
    /\ landed' = landed + 1
    /\ UNCHANGED <<bytes, host, calls, copied, weights, errors>>

\* Where a tensor lies in a packed tensor (split_with_sizes), and which tensors of
\* the source lie there.
Slice(call, t) == Bytes(call.first, t - 1)..(Bytes(call.first, t) - 1)
ComesFrom(r, k, t) ==
    {u \in calls[Source][k].first..calls[Source][k].last :
        Slice(calls[Source][k], u) \cap Slice(calls[r][k], t) # {}}

\* The stream of an engine rank copies a packed tensor into the model.
CopyToModel(r) ==
    /\ copied[r] < landed /\ copied[r] < host[r].unpacked
    /\ LET k == copied[r] + 1
       IN  weights' = [weights EXCEPT ![r] = [t \in Tensor |->
               IF t \in calls[r][k].first..calls[r][k].last
               THEN @[t] \cup ComesFrom(r, k, t) ELSE @[t]]]
    /\ copied' = [copied EXCEPT ![r] = @ + 1]
    /\ UNCHANGED <<bytes, host, calls, landed, errors>>

Python ==
    \/ \E r \in Trainer : Produce(r)
    \/ \E r \in EngineRank : Consume(r) \/ Unpack(r)
Streams == Land \/ \E r \in EngineRank : CopyToModel(r)

BroadcastNext == Python \/ Streams \/ \E r \in Rank : Raise(r)
-----------------------------------------------------------------------------
Call == [first : Tensor, last : Tensor, buffer : 0..(NumBuffers - 1)]
BroadcastTypeOK ==
    /\ bytes \in [Tensor -> 1..MaxBytes]
    /\ host \in [Rank -> [pc : {"pack", "unpack", "done", "failed"}, next : 1..(NumTensors + 1),
                          buffer : 0..(NumBuffers - 1), unpacked : 0..NumTensors]]
    /\ calls \in [Rank -> Seq(Call)]
    /\ landed \in 0..NumTensors /\ copied \in [EngineRank -> 0..NumTensors]
    /\ weights \in [EngineRank -> [Tensor -> SUBSET Tensor]]
    /\ errors \in 0..MaxErrors
    \* however far the ranks are apart, one packed tensor per buffer
    /\ \A r \in Rank : Cardinality(InFlight(r)) <= NumBuffers

\* All ranks launch the same broadcasts in the same order, although each cuts the
\* list by itself, in two copies of the loop, and is as far as it likes.
CollectivesMatch ==
    \A r, s \in Rank : \A k \in DOMAIN calls[r] \cap DOMAIN calls[s] :
        calls[r][k] = calls[s][k]

\* The copy of every tensor into the model of rank r is launched, and over.
Launched(r) ==
    \A t \in Tensor : \E k \in 1..host[r].unpacked : t \in calls[r][k].first..calls[r][k].last
Loaded(r) == \A t \in Tensor : weights[r][t] = {t}
=============================================================================
