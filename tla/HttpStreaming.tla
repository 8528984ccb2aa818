---------------------------- MODULE HttpStreaming ----------------------------
(***************************************************************************)
(* A refit of SGLang servers that share the GPUs of the policy:            *)
(* stream_weights_via_http_impl (nemo_rl/models/policy/utils.py).  Every   *)
(* policy worker looks for the server on its own GPU; for each tensor all  *)
(* workers gather the IPC handles of all, and the first worker of each     *)
(* server posts those of its server's GPUs.  Gathering is collective over  *)
(* all workers, of whichever server they are.                              *)
(***************************************************************************)
EXTENDS Integers, Sequences, FiniteSets, SequencesExt

CONSTANTS
    NumUpdates,     \* tensors of the model
    MaxPostErrors   \* bound on the requests that fail

ASSUME HttpConstants == NumUpdates \in Nat \ {0} /\ MaxPostErrors \in Nat

VARIABLES
    device,     \* per policy worker, its GPU
    servers,    \* sglang_url_to_gpu_uuids: per server, its GPUs
    sends,      \* per policy worker, where it is and with which tensor
    matching,   \* per policy worker, matching_ranks
    received,   \* per server, the tensors it has, with the workers the handles came from
    postErrors  \* history: how many requests failed

httpVars == <<device, servers, sends, matching, received, postErrors>>

PolicyRank == DOMAIN device
At(r, pc, tensor) == [sends EXCEPT ![r] = [pc |-> pc, tensor |-> tensor]]
AllAt(pc) == \A r \in PolicyRank : sends[r].pc = pc

HttpInit ==
    /\ device = << >> /\ servers = << >> /\ sends = << >>
    /\ matching = << >> /\ received = << >> /\ postErrors = 0

\* target_urls, of which the first is taken.
ServersOn(gpu, gpusOfServers) == SelectInSeq(gpusOfServers, LAMBDA gpus : gpu \in ToSet(gpus))
ServerOf(r) == ServersOn(device[r], servers)

\* get_sglang_url_to_gpu_uuids; each worker looks for the server on its GPU.
StartHttp(gpus, gpusOfServers) ==
    /\ device' = gpus /\ servers' = gpusOfServers
    /\ sends' = [r \in DOMAIN gpus |->
           [pc |-> IF ServersOn(gpus[r], gpusOfServers) = 0 THEN "failed" ELSE "uuids",
            tensor |-> 1]]
    /\ matching' = [r \in DOMAIN gpus |-> {}]
    /\ received' = [s \in DOMAIN gpusOfServers |-> {}]
    /\ UNCHANGED postErrors

\* _setup_ipc_gather_group
GatherUuids ==
    /\ PolicyRank # {} /\ AllAt("uuids")
    /\ matching' = [r \in PolicyRank |->
           {q \in PolicyRank : device[q] \in ToSet(servers[ServerOf(r)])}]
    /\ sends' = [r \in PolicyRank |-> [pc |-> "gather", tensor |-> 1]]
    /\ UNCHANGED <<device, servers, received, postErrors>>

\* gather_src
First(r) == \A q \in matching[r] : r <= q
NextTensor(r) ==
    IF sends[r].tensor = NumUpdates THEN [pc |-> "done", tensor |-> NumUpdates]
    ELSE [pc |-> "gather", tensor |-> sends[r].tensor + 1]

\* _gather_ipc_handlers
GatherHandlers ==
    /\ PolicyRank # {} /\ AllAt("gather")
    /\ sends' = [r \in PolicyRank |-> IF First(r) THEN [sends[r] EXCEPT !.pc = "post"]
                                      ELSE NextTensor(r)]
    /\ UNCHANGED <<device, servers, matching, received, postErrors>>

\* _send_tensor_to_sglang
Post(r) ==
    /\ sends[r].pc = "post"
    /\ received' = [received EXCEPT ![ServerOf(r)] = @ \cup {<<sends[r].tensor, matching[r]>>}]
    /\ sends' = [sends EXCEPT ![r] = NextTensor(r)]
    /\ UNCHANGED <<device, servers, matching, postErrors>>

\* The request times out or is refused: RuntimeError.
PostFails(r) ==
    /\ sends[r].pc = "post" /\ postErrors < MaxPostErrors
    /\ sends' = At(r, "failed", sends[r].tensor)
    /\ postErrors' = postErrors + 1
    /\ UNCHANGED <<device, servers, matching, received>>

HttpStep ==
    GatherUuids \/ GatherHandlers \/ \E r \in PolicyRank : Post(r)
HttpNext == HttpStep \/ \E r \in PolicyRank : PostFails(r)

-----------------------------------------------------------------------------
\* Server s has every tensor, with one handle from each of its GPUs.
Updated(s) ==
    \A k \in 1..NumUpdates : \E from \in SUBSET PolicyRank :
        /\ <<k, from>> \in received[s]
        /\ {device[r] : r \in from} = ToSet(servers[s])

\* Workers and servers are numbered; every server has GPUs, all of them GPUs of policy
\* workers, and none of another server.
OwnServers ==
    /\ IsFiniteSet(PolicyRank) /\ PolicyRank \subseteq Int
    /\ Len(servers) \in Nat /\ DOMAIN servers = 1..Len(servers)
    /\ \A s \in DOMAIN servers :
           /\ ToSet(servers[s]) # {}
           /\ ToSet(servers[s]) \subseteq {device[r] : r \in PolicyRank}
           /\ \A t \in DOMAIN servers : s # t => ToSet(servers[s]) \cap ToSet(servers[t]) = {}

HttpTypeOK ==
    /\ sends \in [PolicyRank -> [pc : {"uuids", "gather", "post", "done", "failed"},
                                 tensor : 1..NumUpdates]]
    /\ matching \in [PolicyRank -> SUBSET PolicyRank]
    /\ received \in [DOMAIN servers -> SUBSET ((1..NumUpdates) \X SUBSET PolicyRank)]
    /\ postErrors \in 0..MaxPostErrors
=============================================================================
