-------------------------------- MODULE Refit --------------------------------
(***************************************************************************)
(* A job from setup() to the end of its first refit                        *)
(* (refit_policy_generation in nemo_rl/algorithms/grpo.py).  Where setup() *)
(* has put policy and engine (Launch) decides how the weights travel:      *)
(* vLLM on the policy's GPUs takes them over CUDA IPC (WeightStreaming),   *)
(* SGLang on them over HTTP (HttpStreaming), vLLM with GPUs of its own     *)
(* over NCCL (PackedBroadcast).  The trainer starts both sides and decides *)
(* from what they return.                                                  *)
(***************************************************************************)
EXTENDS Launch, WeightStreaming, PackedBroadcast, HttpStreaming

VARIABLES
    path,        \* how the weights travel, or "none"
    stage        \* how far the job is

refitVars == <<launchVars, vars, broadcastVars, httpVars, path, stage>>

\* The sizes play no part before the refit.
RefitInit ==
    /\ LaunchInit /\ HttpInit
    /\ Init /\ size = [p \in Param |-> 1]
    /\ BroadcastInit /\ bytes = [t \in Tensor |-> 1]
    /\ path = "none" /\ stage = "launch"

Launching(A) ==
    /\ stage = "launch" /\ A
    /\ UNCHANGED <<vars, broadcastVars, httpVars, path, stage>>

-----------------------------------------------------------------------------
(* The refit. *)

Path == IF ~config.colocated THEN "nccl" ELSE IF config.backend = "vllm" THEN "ipc" ELSE "http"

\* The layout is not looked at again: one value of it.
Forget ==
    /\ config' = << >> /\ joined' = 0 /\ clusters' = << >> /\ todo' = << >>
    /\ outcome' = << >> /\ workers' = << >> /\ launch' = "ready"

\* The NCCL groups of other sizes than PackedBroadcast has are not explored.
Explored ==
    /\ Len(workers["policy"]) = NumTrainers
    /\ Len(workers["engine"]) = NumEngines /\ config.engine = RanksPerEngine

PrepareIPC ==
    /\ size' \in [Param -> 1..BufferSize]
    /\ UNCHANGED <<sender, copies, memory, request, reply, receiver, loads, loaded,
                   packedAt, failures, broadcastVars, httpVars>>
PrepareNCCL ==
    /\ bytes' \in [Tensor -> 1..MaxBytes]
    /\ UNCHANGED <<host, calls, landed, copied, weights, errors, vars, httpVars>>
PrepareHTTP ==
    /\ StartHttp([w \in 0..(Len(workers["policy"]) - 1) |-> workers["policy"][w + 1][1]],
                 workers["engine"])
    /\ UNCHANGED <<vars, broadcastVars>>

\* The policy makes room and the engine allocates its weights; the workers of
\* both sides are started.
Prepare ==
    /\ stage = "launch" /\ launch = "ready"
    /\ path' = Path /\ Forget
    /\ \/ Path = "ipc" /\ stage' = "transfer" /\ PrepareIPC
       \/ Path = "http" /\ stage' = "transfer" /\ PrepareHTTP
       \/ Path = "nccl" /\ Explored /\ stage' = "transfer" /\ PrepareNCCL
       \/ Path = "nccl" /\ ~Explored /\ stage' = "unexplored"
          /\ UNCHANGED <<vars, broadcastVars, httpVars>>

\* The workers run on, also when the trainer has given the refit up.
OverIPC(A) ==
    path = "ipc" /\ A /\ UNCHANGED <<launchVars, broadcastVars, httpVars, path, stage>>
OverNCCL(A) ==
    path = "nccl" /\ stage # "unexplored" /\ A
    /\ UNCHANGED <<launchVars, vars, httpVars, path, stage>>
OverHTTP(A) ==
    path = "http" /\ A /\ UNCHANGED <<launchVars, vars, broadcastVars, path, stage>>

\* ray.get(futures_train): what the training workers came to.
TrainersDone ==
    \/ path = "ipc" /\ sender.pc = "done"
    \/ path = "nccl" /\ \A r \in Trainer : host[r].pc = "done"
    \/ path = "http" /\ AllAt("done")
TrainerFailed ==
    \/ path = "ipc" /\ sender.pc = "failed"
    \/ path = "nccl" /\ \E r \in Trainer : host[r].pc = "failed"
    \/ path = "http" /\ \E r \in PolicyRank : sends[r].pc = "failed"

\* results: a vLLM engine returns what its first rank returned; over HTTP only the
\* policy has anything to return.
ResultsIn ==
    \/ path = "ipc" /\ receiver.pc \in {"done", "failed"}
    \/ path = "nccl" /\ \A r \in LeadRank : host[r].pc \in {"done", "failed"}
    \/ path = "http"

\* Variant: what the engines returned is not looked at.
ResultsUnchecked == ResultsIn

ResultsTrue ==
    \/ path = "ipc" /\ receiver.pc = "done"
    \/ path = "nccl" /\ \A r \in LeadRank : host[r].pc = "done"
    \/ path = "http"

\* Success: the policy leaves the GPU, the engine allocates its KV cache.
Return ==
    /\ stage = "transfer" /\ TrainersDone /\ ResultsIn /\ ResultsTrue
    /\ stage' = "returned"
    /\ UNCHANGED <<launchVars, vars, broadcastVars, httpVars, path>>

\* A training worker raised, or RuntimeError: an engine returned False.
RaiseError ==
    /\ stage = "transfer"
    /\ TrainerFailed \/ (TrainersDone /\ ResultsIn /\ ~ResultsTrue)
    /\ stage' = "raised"
    /\ UNCHANGED <<launchVars, vars, broadcastVars, httpVars, path>>

Trainers == Prepare \/ Return \/ RaiseError

RefitNext ==
    Launching(LaunchNext) \/ Trainers
    \/ OverIPC(Next) \/ OverNCCL(BroadcastNext) \/ OverHTTP(HttpNext)

RefitSpec == RefitInit /\ [][RefitNext]_refitVars

\* Ray places every group asked for, or the wait for it times out.
Answered == \A name \in DOMAIN clusters : clusters[name].state # "requested"

\* The trainer, Ray, all processes and all GPUs run on; a ZMQ socket whose peer is
\* gone times out.  A node need not join.
RefitFairSpec ==
    /\ RefitSpec
    /\ WF_refitVars(Launching(Setup)) /\ []<>Answered
    /\ WF_refitVars(Trainers)
    /\ WF_refitVars(OverIPC(Sender)) /\ WF_refitVars(OverIPC(CopyIn))
    /\ WF_refitVars(OverIPC(Receiver)) /\ WF_refitVars(OverIPC(CopyOut))
    /\ WF_refitVars(OverIPC(TimedOut))
    /\ WF_refitVars(OverNCCL(Python)) /\ WF_refitVars(OverNCCL(Streams))
    /\ WF_refitVars(OverHTTP(HttpStep))

-----------------------------------------------------------------------------
\* All paths keep their types.
RefitTypeOK ==
    /\ stage = "launch" => LaunchTypeOK
    /\ TypeOK /\ BroadcastTypeOK /\ HttpTypeOK
    /\ path \in {"none", "ipc", "nccl", "http"}
    /\ stage \in {"launch", "transfer", "returned", "raised", "unexplored"}

\* Whatever the nodes, the order of the threads and Ray's choice of bundles:
\* setup() puts no two workers of a group on one GPU, keeps clusters apart, gives
\* colocated engines the policy's GPUs and an engine that fits on a node GPUs of one
\* node, and has policy and engines join their NCCL group under all ranks, each once.
\* A refit over HTTP comes to its end only on servers that have GPUs of the policy, and
\* their own, also where setup() misnumbers them.
LaidOut ==
    /\ stage = "launch" /\ ~Misnumbered => SoundLayout
    /\ stage = "returned" /\ path = "http" => OwnServers

\* When the trainer goes on to generate, a colocated vLLM engine has every tensor; the
\* first rank of every other one has at least launched the copy of every tensor.
\* (Not that these copies are over: no stream is synchronized at the end; and not
\* on the other ranks, whose results are dropped.)  Every SGLang server was sent
\* every tensor, in one piece from each of its GPUs.
UpdatedWhenReturned ==
    stage = "returned" =>
        CASE path = "ipc" -> \A p \in Param : loaded[p] = {p}
          [] path = "nccl" -> \A r \in LeadRank : Launched(r)
          [] path = "http" -> \A s \in DOMAIN servers : Updated(s)

\* A job comes to the end of its first refit, unless setup() refuses the
\* configuration or lacks nodes.  The refit succeeds unless something failed or a
\* policy GPU has no server.  A failure of one side of the IPC path ends the other
\* one too (the timeouts of both sockets); one on the NCCL path may leave the other
\* ranks in a broadcast forever.  Without one every rank of every engine gets every
\* tensor from its own bytes.
RefitReturns ==
    <>(\/ stage = "launch" /\ launch = "failed" /\ RefusedForCause
       \/ stage = "unexplored"
       \/ path = "ipc" /\ (stage = "returned" \/ (failures > 0 /\ stage = "raised" /\ Ended))
       \/ path = "nccl" /\ (errors > 0 \/ (stage = "returned" /\ \A r \in EngineRank : Loaded(r)))
       \/ path = "http" /\ (stage = "returned" \/
             (stage = "raised" /\ (postErrors > 0 \/ \E r \in PolicyRank : ServerOf(r) = 0))))
=============================================================================
