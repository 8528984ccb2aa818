-------------------------------- MODULE Launch --------------------------------
(***************************************************************************)
(* How setup() lays a job out on a Ray cluster: the division of nodes and  *)
(* GPUs among policy, engine and reward model (grpo.py, distillation.py in *)
(* nemo_rl/algorithms), the placement groups of RayVirtualCluster          *)
(* (nemo_rl/distributed/virtual_cluster.py), the workers that Policy,      *)
(* VllmGeneration and SGLangGeneration put on them, and the ranks of the   *)
(* NCCL group that joins policy and engine.                                *)
(*                                                                         *)
(* The placement groups of a cluster are made by whoever asks for them     *)
(* first, in the form this one needs, and are then shared; nodes may join  *)
(* late; Ray chooses node and GPU of every bundle.                         *)
(***************************************************************************)
EXTENDS WorkerGroup

CONSTANTS
    NodeCounts, GpuCounts, \* cluster.num_nodes and cluster.gpus_per_node to look at
    MaxWorld,       \* bound on the GPUs of a job
    EngineSizes,    \* tp * pp of vLLM or gpus_per_server of SGLang to look at
    PolicySizes,    \* pp * cp * tp of the policy to look at
    MaxRetries      \* NRL_VIRTUAL_CLUSTER_MAX_RETRIES

ASSUME LaunchConstants ==
    /\ NodeCounts \cup GpuCounts \cup EngineSizes \cup PolicySizes \subseteq Nat \ {0}
    /\ {MaxWorld, MaxRetries} \subseteq Nat \ {0}

VARIABLES
    config,     \* the master configuration
    joined,     \* how many nodes of the Ray cluster are up
    clusters,   \* the RayVirtualClusters
    todo,       \* per thread, what it still has to construct
    outcome,    \* per thread, why it has ended early, or "none"
    workers,    \* per worker group, its tied groups of GPUs
    launch      \* how far setup() is

launchVars == <<config, joined, clusters, todo, outcome, workers, launch>>

-----------------------------------------------------------------------------
(* The division of the cluster. *)

Configuration ==
    [algorithm : {"grpo", "distillation"}, backend : {"vllm", "sglang"},
     colocated : BOOLEAN, nodes : NodeCounts, gpus : GpuCounts,
     inference : 1..MaxWorld,  \* GPUs or, with several nodes, nodes of the engine
     reward : {0, 1},          \* GPUs of a reward model, on one node
     engine : EngineSizes, policy : PolicySizes]

PolicyNodes(c) == IF c.nodes = 1 THEN 1 ELSE c.nodes - c.reward

NewCluster(nodes, gpus, share) ==
    [nodes |-> nodes, gpus |-> gpus,
     share |-> share,          \* max_colocated_worker_groups
     state |-> "none", unified |-> FALSE, spread |-> FALSE,
     groups |-> << >>,         \* per placement group, the GPU of each bundle
     sorted |-> << >>,         \* _sorted_bundle_indices
     attempts |-> 0]

\* On one node, policy, engine and reward model share its GPUs; on several, each has
\* nodes of its own.
TrainCluster(c) ==
    LET rewardHere == IF c.nodes = 1 THEN c.reward ELSE 0
        share == IF c.algorithm = "distillation" THEN 3 ELSE IF c.colocated THEN 2 ELSE 1
    IN  IF c.colocated THEN NewCluster(PolicyNodes(c), c.gpus - rewardHere, share)
        ELSE IF PolicyNodes(c) = 1 THEN NewCluster(1, c.gpus - c.inference - rewardHere, share)
        ELSE NewCluster(PolicyNodes(c) - c.inference, c.gpus, share)
InferenceCluster(c) ==
    LET share == IF c.algorithm = "distillation" THEN 3 ELSE 1
    IN  IF PolicyNodes(c) = 1 THEN NewCluster(1, c.inference, share)
        ELSE NewCluster(c.inference, c.gpus, share)

\* What setup() accepts, and one value of what is not used.  SGLang without colocation
\* is not implemented: its init_collective joins no group.
Accepted(c) ==
    /\ c.nodes * c.gpus <= MaxWorld
    /\ PolicyNodes(c) > 0 /\ TrainCluster(c).gpus > 0 /\ TrainCluster(c).nodes >= 0
    /\ c.algorithm = "distillation" => c.backend = "vllm" /\ c.reward = 0
    /\ c.colocated => c.inference = 1
    /\ c.backend = "sglang" => c.colocated

World(cluster) == cluster.nodes * cluster.gpus
ClusterOf(name) ==
    IF name = "reward" THEN "reward"
    ELSE IF name = "engine" /\ ~config.colocated THEN "inference" ELSE "train"

\* The order in which worker groups are constructed, by thread.
Threads(c) ==
    LET apart == c.algorithm # "distillation" /\ ~c.colocated
        inSetup == IF c.algorithm = "distillation" THEN <<"teacher", "engine", "policy">>
                   ELSE IF c.colocated THEN <<"engine", "policy">> ELSE <<"policy">>
    IN  [t \in {"setup"} \cup {x \in {"engine"} : apart} \cup {x \in {"reward"} : c.reward > 0} |->
            IF t = "setup" THEN inSetup ELSE <<t>>]

LaunchInit ==
    /\ config \in {c \in Configuration : Accepted(c)}
    /\ joined = 1
    /\ todo = Threads(config)
    /\ clusters = [name \in {ClusterOf(x) : x \in UNION {ToSet(todo[t]) : t \in DOMAIN todo}} |->
           CASE name = "train" -> TrainCluster(config)
             [] name = "inference" -> InferenceCluster(config)
             [] name = "reward" -> NewCluster(1, config.reward, 1)]
    /\ outcome = [t \in DOMAIN todo |-> "none"]
    /\ workers = << >>
    /\ launch = "constructing"

\* setup() goes on when its threads have ended.  The reward model is not waited for.
Awaited == DOMAIN todo \ {"reward"}

\* A node joins the Ray cluster.  (Once a thread has given up it does not matter.)
Join ==
    /\ joined < config.nodes /\ \A t \in Awaited : outcome[t] = "none"
    /\ joined' = joined + 1
    /\ UNCHANGED <<config, clusters, todo, outcome, workers, launch>>

-----------------------------------------------------------------------------
(* Placement groups. *)

Running(t) == outcome[t] = "none" /\ todo[t] # << >>
Constructed(t) == Head(todo[t])
Asked(t) == ClusterOf(Constructed(t))
Of(t) == clusters[Asked(t)]

\* An exception ends the thread.
Fail(t, reason) == outcome' = [outcome EXCEPT ![t] = reason]

\* The engine is asked for by its size, which SGLang rounds down to whole servers.
WrongSize(t) ==
    LET world == World(Of(t))
    IN  CASE Constructed(t) = "engine" /\ config.backend = "vllm" -> world % config.engine # 0
          [] Constructed(t) = "engine" /\ config.backend = "sglang" -> world < config.engine
          [] Constructed(t) = "reward" -> FALSE
          [] OTHER -> world < config.policy \/ world % config.policy # 0

RefuseSize(t) ==
    /\ Running(t) /\ WrongSize(t)
    /\ Fail(t, "size")
    /\ UNCHANGED <<config, joined, clusters, todo, workers, launch>>

\* One group across nodes, if an engine of vLLM does not fit on one.
Unified(t) ==
    /\ Constructed(t) = "engine" /\ config.backend = "vllm"
    /\ config.engine > Of(t).gpus

\* _create_placement_groups_internal looks at what the Ray cluster has, not at what
\* is free.
Enough(t) == World(Of(t)) <= joined * config.gpus
RequestGroups(t) ==
    /\ Running(t) /\ ~WrongSize(t) /\ Of(t).state = "none" /\ Enough(t)
    /\ clusters' = [clusters EXCEPT ![Asked(t)].state = "requested",
           ![Asked(t)].unified = Unified(t),
           ![Asked(t)].spread = Unified(t) /\ config.colocated]
    /\ UNCHANGED <<config, joined, todo, outcome, workers, launch>>

\* ResourceInsufficientError: wait and try again, MaxRetries times in all.
RetryLater(t) ==
    /\ Running(t) /\ ~WrongSize(t) /\ Of(t).state = "none" /\ ~Enough(t)
    /\ clusters' = [clusters EXCEPT ![Asked(t)].attempts = @ + 1]
    /\ IF Of(t).attempts + 1 = MaxRetries THEN Fail(t, "resources") ELSE UNCHANGED outcome
    /\ UNCHANGED <<config, joined, todo, workers, launch>>

NodeOf(gpu) == gpu[1]
Taken == UNION {ToSet(group) : group \in UNION {ToSet(clusters[name].groups) :
             name \in DOMAIN clusters}}
Free == ((1..joined) \X (0..(config.gpus - 1))) \ Taken
FreeOn(node) == {gpu \in Free : NodeOf(gpu) = node}
On(gpus, node) == {gpu \in gpus : NodeOf(gpu) = node}

\* Ray spreads bundles over all nodes as evenly as it can, or packs them on as few as
\* it can.
Spread(gpus) ==
    \A a, b \in 1..joined :
        Cardinality(On(gpus, a)) > Cardinality(On(gpus, b)) + 1 => FreeOn(b) \subseteq gpus
Packed(gpus) ==
    \A some \in SUBSET (1..joined) :
        Cardinality({gpu \in Free : NodeOf(gpu) \in some}) >= Cardinality(gpus) =>
            Cardinality({NodeOf(gpu) : gpu \in gpus}) <= Cardinality(some)

\* The next placement group of a cluster.
Bundles(cluster) == IF cluster.unified THEN World(cluster) ELSE cluster.gpus
NumGroups(cluster) == IF cluster.unified THEN 1 ELSE cluster.nodes
Placements(cluster) ==
    UNION {SetToSeqs(gpus) : gpus \in {chosen \in kSubset(Bundles(cluster), Free) :
        IF cluster.spread THEN Spread(chosen) ELSE Packed(chosen)}}

\* _get_sorted_bundle_indices: by node and GPU.
Before(x, y) == x[1] < y[1] \/ (x[1] = y[1] /\ x[2] < y[2])
Sorted(group) ==
    [k \in DOMAIN group |-> CHOOSE gpu \in ToSet(group) :
        Cardinality({x \in ToSet(group) : Before(x, gpu)}) = k - 1]

PlaceGroup(name) ==
    /\ clusters[name].state = "requested"
    /\ \E group \in Placements(clusters[name]) :
           LET cluster == clusters[name]
               placed == Append(cluster.groups, group)
           IN  clusters' = [clusters EXCEPT ![name].groups = placed,
                   ![name].state = IF Len(placed) = NumGroups(cluster) THEN "ready" ELSE @,
                   ![name].sorted = IF cluster.unified THEN Sorted(group) ELSE @]
    /\ UNCHANGED <<config, joined, todo, outcome, workers, launch>>

\* pg.ready() is waited for with a timeout, which is not tried again.
GiveUp(t) ==
    /\ Running(t) /\ Of(t).state = "requested"
    /\ Cardinality(Free) < Bundles(Of(t))
    /\ clusters' = [clusters EXCEPT ![Asked(t)].state = "removed", ![Asked(t)].groups = << >>]
    /\ Fail(t, "resources")
    /\ UNCHANGED <<config, joined, todo, workers, launch>>

-----------------------------------------------------------------------------
(* Workers. *)

\* The bundles of a group, size by size.
Slices(bundles, size) ==
    [k \in 1..(Len(bundles) \div size) |-> SubSeq(bundles, (k - 1) * size + 1, k * size)]
Singly(cluster) == Slices(FlattenSeq(cluster.groups), 1)

\* A single group is taken in the order of its nodes and, on a node, of its bundles.
NodeByNode(group) ==
    FlattenSeq([n \in 1..config.nodes |-> Those(group, LAMBDA gpu : NodeOf(gpu) = n)])
Uneven(cluster) ==
    /\ Len(cluster.groups) = 1
    /\ \E a, b \in ToSet(cluster.groups[1]) :
           Cardinality(On(ToSet(cluster.groups[1]), NodeOf(a))) #
           Cardinality(On(ToSet(cluster.groups[1]), NodeOf(b)))

\* _get_tied_worker_bundle_indices: an engine does not span placement groups.
TiedGroups(cluster) ==
    IF config.engine = 1 THEN Singly(cluster)
    ELSE IF Len(cluster.groups) = 1 THEN Slices(NodeByNode(cluster.groups[1]), config.engine)
    ELSE FlattenSeq([g \in DOMAIN cluster.groups |-> Slices(cluster.groups[g], config.engine)])

\* An SGLang server counts the GPUs of its node from the index of its first bundle.
Servers(cluster) ==
    LET OfGroup(group) == [k \in 1..(Len(group) \div config.engine) |->
            [i \in 1..config.engine |->
                <<NodeOf(group[(k - 1) * config.engine + 1]), (k - 1) * config.engine + i - 1>>]]
    IN  FlattenSeq([g \in DOMAIN cluster.groups |-> OfGroup(cluster.groups[g])])

\* The policy has one worker per bundle, in sorted order if there is one.
WorkersOf(name, cluster) ==
    IF name = "engine"
    THEN IF config.backend = "vllm" THEN TiedGroups(cluster) ELSE Servers(cluster)
    ELSE IF cluster.sorted # << >> THEN Slices(cluster.sorted, 1) ELSE Singly(cluster)

\* Not every engine found its bundles.
Unallocated(name, cluster) ==
    /\ name = "engine"
    /\ \/ config.backend = "vllm" /\ config.engine > 1 /\ Uneven(cluster)
       \/ Len(WorkersOf(name, cluster)) # World(cluster) \div config.engine

\* Each actor takes its share of a GPU, which has to be left.
GroupsOn(name) == {x \in DOMAIN workers : ClusterOf(x) = name}
Construct(t) ==
    /\ Running(t) /\ ~WrongSize(t) /\ Of(t).state = "ready"
    /\ Cardinality(GroupsOn(Asked(t))) < Of(t).share
    /\ IF Unallocated(Constructed(t), Of(t))
       THEN Fail(t, "bundles") /\ UNCHANGED <<todo, workers>>
       ELSE /\ workers' = [x \in DOMAIN workers \cup {Constructed(t)} |->
                    IF x = Constructed(t) THEN WorkersOf(x, Of(t)) ELSE workers[x]]
            /\ todo' = [todo EXCEPT ![t] = Tail(@)]
            /\ UNCHANGED outcome
    /\ UNCHANGED <<config, joined, clusters, launch>>

-----------------------------------------------------------------------------
(* The NCCL group of a policy and an engine that are not colocated. *)

EngineLayout == <<Axis("data_parallel", Len(workers["engine"])),
                  Axis("tensor_parallel", config.engine)>>
Leaders == Called(EngineLayout, {"data_parallel"}, {})

\* Variant: the prefix counts engines, not their workers.
RankPrefixByEngine(e) == e - 1

\* rank_prefix_list
RankPrefix(e) == (e - 1) * (Cardinality(Workers(EngineLayout)) \div Len(workers["engine"]))

\* What the called worker of engine e makes its GPU number i join as.
EngineRankOf(e, i) == World(clusters["train"]) + RankPrefix(e) + i - 1
Ranks ==
    [w \in DOMAIN workers["policy"] |-> w - 1] \o
    FlattenSeq([e \in 1..Cardinality(Leaders) |->
        [i \in DOMAIN workers["engine"][e] |-> EngineRankOf(e, i)]])
WorldSize == World(clusters["train"]) + World(clusters["inference"])

\* The exception of a thread is raised when both have ended.
Constructs ==
    /\ launch = "constructing" /\ \A t \in Awaited : ~Running(t)
    /\ launch' = IF \E t \in Awaited : outcome[t] # "none" THEN "failed"
                 ELSE IF config.colocated THEN "ready" ELSE "connecting"
    /\ UNCHANGED <<config, joined, clusters, todo, outcome, workers>>

\* init_collective returns when all ranks of the group are there.
Connect ==
    /\ launch = "connecting" /\ ToSet(Ranks) = 0..(WorldSize - 1)
    /\ launch' = "ready"
    /\ UNCHANGED <<config, joined, clusters, todo, outcome, workers>>

Setup == \/ \E t \in DOMAIN todo : RefuseSize(t) \/ RequestGroups(t) \/ RetryLater(t) \/ Construct(t)
         \/ Constructs \/ Connect
Ray == \/ \E name \in DOMAIN clusters : PlaceGroup(name)
       \/ \E t \in DOMAIN todo : GiveUp(t)
LaunchNext == Join \/ Setup \/ Ray
-----------------------------------------------------------------------------
LaunchTypeOK ==
    /\ config \in Configuration /\ joined \in 1..config.nodes
    /\ \A name \in DOMAIN clusters :
           /\ clusters[name].attempts \in 0..MaxRetries
           /\ Len(clusters[name].groups) <= NumGroups(clusters[name])
           /\ Cardinality(GroupsOn(name)) <= clusters[name].share
    /\ \A t \in DOMAIN todo : outcome[t] \in {"none", "size", "resources", "bundles"}
    /\ launch \in {"constructing", "connecting", "ready", "failed"}

\* With a reward model on the same node, SGLang servers are started on other GPUs
\* than those of their bundles.
Misnumbered == config.backend = "sglang" /\ config.reward > 0 /\ config.nodes = 1

GpusOf(name) == FlattenSeq(workers[name])
SoundLayout ==
    /\ \A x \in DOMAIN workers :
           /\ IsInjective(GpusOf(x))
           /\ \A y \in DOMAIN workers : ClusterOf(x) # ClusterOf(y) =>
                  ToSet(GpusOf(x)) \cap ToSet(GpusOf(y)) = {}
    /\ config.colocated /\ {"policy", "engine"} \subseteq DOMAIN workers =>
           /\ ToSet(GpusOf("engine")) \subseteq ToSet(GpusOf("policy"))
           /\ config.backend = "vllm" => Len(GpusOf("engine")) = Len(GpusOf("policy"))
    /\ "engine" \in DOMAIN workers /\ config.engine <= config.gpus =>
           \A gpus \in ToSet(workers["engine"]) :
               Cardinality({NodeOf(gpu) : gpu \in ToSet(gpus)}) = 1
    /\ launch = "connecting" => IsInjective(Ranks) /\ ToSet(Ranks) = 0..(WorldSize - 1)

\* What a thread may end early for.  Sizes are refused at once.  Nodes are missing
\* only while they have not joined: clusters never take GPUs from each other.  Bundles
\* are missing only where the engines do not divide the GPUs of a node, or would span
\* nodes in a cluster that others use as well.
RefusedForCause ==
    \A t \in Awaited :
        /\ outcome[t] = "resources" => joined < config.nodes
        /\ outcome[t] = "bundles" =>
               IF config.engine <= config.gpus THEN config.gpus % config.engine # 0
               ELSE \/ config.backend = "sglang" \/ config.algorithm = "distillation"
                    \/ config.reward > 0
=============================================================================
