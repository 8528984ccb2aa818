-------------------------- MODULE SyncTraining_proofs --------------------------
(***************************************************************************)
(* The synchronous loops, for every number of batches, prompts, epochs,    *)
(* steps and launches, every period and every combination of the switches. *)
(* What the loop knows is spread over its phases: whether the engine's     *)
(* weights are stale, where trainer and engine keep their memory and how   *)
(* the counters stand to the dataloader's position mean something else     *)
(* before, during and after a step.  Each invariant below says what holds  *)
(* in which phase; the properties of SyncTraining follow.                  *)
(***************************************************************************)
EXTENDS SyncTraining, SequenceTheorems, FunctionTheorems, FiniteSetTheorems, TLAPS

-----------------------------------------------------------------------------
(* The phases of a step. *)

Refitting == {"prepareGeneration", "transfer", "refitted"}
InBatch == {"rollout", "select", "teacher", "logprobs", "prepareTraining", "train"}
AfterBatch == {"checkpoint", "save", "advance"}

\* A batch was taken whose step is not counted yet.
InStep ==
    purpose # "initial" /\ phase \in Refitting \cup InBatch \cup {"validating"} \cup AfterBatch

\* What the engine is awake for: a batch, or the validation before or after one.
PurposeFits ==
    /\ phase \in InBatch => purpose = "rollout"
    /\ phase = "validating" => purpose # "rollout"
    /\ phase \in AfterBatch => purpose # "initial"

\* Only the phases of its own loop are reached.
PhaseFits ==
    /\ Supervised => phase \notin Refitting \cup (InBatch \ {"train"})
    /\ phase \in {"select", "logprobs"} => config.algorithm = "grpo"
    /\ phase = "teacher" => config.algorithm = "distillation"
    /\ phase = "raised" => config.dynamic

\* The steps of an epoch never run ahead of the batches it yielded.
StepFits ==
    /\ step <= position
    /\ InStep => step < position
    /\ InStep \/ phase = "batch" => epoch < MaxEpochs

\* A launch finds counters that fit together too.
SavedFits == saved.epoch < MaxEpochs /\ saved.step <= saved.position

TypeInv == TypeOK /\ PurposeFits /\ PhaseFits /\ StepFits /\ SavedFits

-----------------------------------------------------------------------------
(* Arithmetic and sequences. *)

LEMMA Division ==
    ASSUME NEW m \in Nat, NEW n \in Nat \ {0}
    PROVE  /\ m \div n \in Nat /\ m % n \in 0..(n - 1)
           /\ m = n * (m \div n) + (m % n)
OBVIOUS

\* What a number between two multiples is divided into.
LEMMA Quotient ==
    ASSUME NEW n \in Nat \ {0}, NEW q \in Nat, NEW r \in 0..(n - 1)
    PROVE  (q * n + r) \div n = q /\ (q * n + r) % n = r
OBVIOUS

LEMMA Positive == \A m, n \in Nat \ {0} : m * n \in Nat \ {0}
OBVIOUS

LEMMA Cancel ==
    ASSUME NEW a \in Int, NEW b \in Int, NEW n \in Nat \ {0}, n * a < n * b
    PROVE  a < b
OBVIOUS

\* The constants are numbers.
LEMMA Numbers ==
    /\ NumBatches \in Nat \ {0} /\ BatchPrompts \in Nat \ {0} /\ StepPrompts \in Nat \ {0}
    /\ NumGenerations \in Nat \ {0} /\ MaxEpochs \in Nat \ {0} /\ MaxSteps \in Nat \ {0}
    /\ SavePeriod \in Nat \ {0} /\ MaxGenBatches \subseteq Nat \ {0}
    /\ ValPeriod \in Nat /\ MaxLaunches \in Nat
BY LoopConstants

\* The switches have their types, and PerBatch and Generations are numbers.
LEMMA ConfigFacts ==
    ASSUME config \in {c \in Switches : Valid(c)}
    PROVE  /\ config.algorithm \in {"grpo", "distillation", "supervised"}
           /\ config.colocated \in BOOLEAN /\ config.ownEngine \in BOOLEAN
           /\ config.dynamic \in BOOLEAN /\ config.offloadForLogprob \in BOOLEAN
           /\ config.unlimited \in BOOLEAN /\ config.leaveOneOut \in BOOLEAN
           /\ config.maxGenBatches \in Nat \ {0}
           /\ config.dynamic => config.algorithm = "grpo"
           /\ config.ownEngine => config.colocated
           /\ Supervised => ~config.colocated /\ ~config.ownEngine
           /\ PerBatch \in Nat \ {0} /\ Generations \in 1..NumGenerations
<1>1. Algorithms \subseteq {"grpo", "distillation", "supervised"}
  BY LoopConstants
<1>2. DynamicSampling \subseteq BOOLEAN /\ LeaveOneOut \subseteq BOOLEAN
  BY LoopConstants
<1>3. config \in Switches /\ Valid(config)
  OBVIOUS
<1>4. /\ config.algorithm \in Algorithms /\ config.dynamic \in DynamicSampling
      /\ config.leaveOneOut \in LeaveOneOut /\ config.maxGenBatches \in MaxGenBatches
      /\ config.colocated \in BOOLEAN /\ config.ownEngine \in BOOLEAN
      /\ config.offloadForLogprob \in BOOLEAN /\ config.unlimited \in BOOLEAN
  BY <1>3 DEF Switches
<1>5. PerBatch \in Nat \ {0} /\ Generations \in 1..NumGenerations
  BY Numbers DEF PerBatch, Generations
<1>6. /\ config.dynamic => config.algorithm = "grpo"
      /\ config.ownEngine => config.colocated
      /\ Supervised => ~config.colocated /\ ~config.ownEngine
  BY <1>3 DEF Valid, Supervised
<1> QED BY <1>1, <1>2, <1>4, <1>5, <1>6, Numbers

\* The samples of a batch are numbered by their prompt and generation.
LEMMA Numbering ==
    ASSUME NEW p \in Nat \ {0}, NEW n \in Nat \ {0}, NEW i \in 1..(p * n)
    PROVE  1 + (i - 1) \div n \in 1..p /\ 1 + ((i - 1) % n) \in 1..n
<1> DEFINE q == (i - 1) \div n
<1>0. p * n \in Nat /\ i - 1 \in Nat
  OBVIOUS
<1>1. q \in Nat /\ (i - 1) % n \in 0..(n - 1) /\ i - 1 = n * q + ((i - 1) % n)
  BY <1>0, Division
<1>2. n * q < n * p
  BY <1>1
<1>3. q < p
  BY <1>1, <1>2, Cancel
<1> QED BY <1>1, <1>3

\* The n-th smallest element of a finite set of numbers is a member of it, and
\* different ones are different.
LEMMA NthElement ==
    ASSUME NEW S \in SUBSET Nat, IsFiniteSet(S)
    PROVE  /\ \A n \in 1..Cardinality(S) :
                 Nth(S, n) \in S /\ Cardinality({k \in S : k < Nth(S, n)}) = n - 1
           /\ \A m, n \in 1..Cardinality(S) : Nth(S, m) = Nth(S, n) => m = n
<1> DEFINE below(i) == {k \in S : k < i}
           rank == [i \in S |-> Cardinality(below(i)) + 1]
<1>1. Cardinality(S) \in Nat
  BY FS_CardinalityType
<1>2. ASSUME NEW i \in S PROVE IsFiniteSet(below(i)) /\ Cardinality(below(i)) \in Nat
  BY FS_Subset, FS_CardinalityType
<1>3. ASSUME NEW i \in S PROVE rank[i] \in 1..Cardinality(S)
  <2>1. below(i) \subseteq S \ {i}
    OBVIOUS
  <2>2. IsFiniteSet(S \ {i}) /\ Cardinality(S \ {i}) = Cardinality(S) - 1
    BY FS_RemoveElement
  <2>3. Cardinality(below(i)) <= Cardinality(S) - 1
    BY <2>1, <2>2, FS_Subset
  <2> QED BY <1>1, <1>2, <2>3
<1>4. ASSUME NEW i \in S, NEW j \in S, i < j PROVE rank[i] < rank[j]
  <2>1. /\ \A k \in S : k < i => k < j
        /\ i < j /\ ~(i < i)
    BY <1>4
  <2> HIDE DEF rank
  <2>4. below(i) \cup {i} \subseteq below(j) /\ i \notin below(i)
    BY <2>1
  <2>2. Cardinality(below(i) \cup {i}) = Cardinality(below(i)) + 1
    BY <1>2, <2>4, FS_AddElement
  <2>3. Cardinality(below(i) \cup {i}) <= Cardinality(below(j))
    BY <1>2, <2>4, FS_Subset
  <2> QED BY <1>2, <2>2, <2>3 DEF rank
<1>5. rank \in [S -> 1..Cardinality(S)]
  BY <1>3
<1>6. \A i, j \in S : rank[i] = rank[j] => i = j
  BY <1>3, <1>4
<1>7. rank \in Injection(S, 1..Cardinality(S))
  BY <1>5, <1>6, Fun_IsInj
<1>8. IsFiniteSet(1..Cardinality(S)) /\ Cardinality(1..Cardinality(S)) = Cardinality(S)
  BY <1>1, FS_Interval
<1>9. rank \in Surjection(S, 1..Cardinality(S))
  BY <1>7, <1>8, FS_Injection
<1>10. ASSUME NEW n \in 1..Cardinality(S)
       PROVE  Nth(S, n) \in S /\ Cardinality({k \in S : k < Nth(S, n)}) = n - 1
  <2>1. PICK i \in S : rank[i] = n
    BY <1>9 DEF Surjection
  <2>2. Cardinality({k \in S : k < i}) = n - 1
    BY <1>2, <2>1
  <2> QED BY <2>2 DEF Nth
<1> HIDE DEF rank
<1>11. ASSUME NEW m \in 1..Cardinality(S), NEW n \in 1..Cardinality(S),
              Nth(S, m) = Nth(S, n)
       PROVE  m = n
  <2>1. m - 1 = n - 1
    BY <1>10, <1>11
  <2> QED BY <1>1, <2>1
<1> QED BY <1>10, <1>11

\* A function over 1..n with values in S is a sequence of n elements of S.
LEMMA FunctionIsSeq ==
    ASSUME NEW S, NEW n \in Nat, NEW f \in [1..n -> S]
    PROVE  f \in Seq(S) /\ Len(f) = n /\ DOMAIN f = 1..n
<1>1. f \in Seq(S)
  BY SeqDef
<1>2. Len(f) \in Nat /\ DOMAIN f = 1..Len(f) /\ DOMAIN f = 1..n
  BY <1>1, LenProperties
<1>3. Len(f) = n
  BY <1>2
<1> QED BY <1>1, <1>2, <1>3

\* The samples of a batch.
LEMMA RowsOfType ==
    ASSUME TypeInv, NEW ones \in [1..PerBatch -> 0..NumGenerations]
    PROVE  /\ RowsOf(ones) \in Seq(Sample)
           /\ DOMAIN RowsOf(ones) = 1..(PerBatch * Generations)
           /\ \A i \in DOMAIN RowsOf(ones) : RowsOf(ones)[i].batch = <<epoch, position>>
<1>1. /\ PerBatch \in Nat \ {0} /\ Generations \in Nat \ {0} /\ Generations <= NumGenerations
      /\ PerBatch * Generations \in Nat /\ NumGenerations \in Nat
  BY ConfigFacts, Numbers DEF TypeInv, TypeOK
<1>2. <<epoch, position>> \in Batch
  BY DEF TypeInv, TypeOK, Batch
<1> DEFINE size == PerBatch * Generations
           prompt(i) == 1 + (i - 1) \div Generations
           sample(i) == 1 + ((i - 1) % Generations)
<1>3. ASSUME NEW i \in 1..size
      PROVE  /\ prompt(i) \in 1..PerBatch /\ sample(i) \in 1..NumGenerations
             /\ ones[prompt(i)] \in 0..NumGenerations
  <2>1. prompt(i) \in 1..PerBatch /\ sample(i) \in 1..Generations
    BY <1>1, Numbering
  <2> QED BY <1>1, <2>1
<1> HIDE DEF size, prompt, sample
<1>4. RowsOf(ones) = [i \in 1..size |-> Row(prompt(i), sample(i), ones[prompt(i)])]
  BY DEF RowsOf, size, prompt, sample
<1>5. ASSUME NEW i \in 1..size
      PROVE  /\ Row(prompt(i), sample(i), ones[prompt(i)]) \in Sample
             /\ Row(prompt(i), sample(i), ones[prompt(i)]).batch = <<epoch, position>>
  BY <1>2, <1>3 DEF Row, Sample
<1>6. RowsOf(ones) \in [1..size -> Sample]
  BY <1>4, <1>5
<1>7. RowsOf(ones) \in Seq(Sample) /\ DOMAIN RowsOf(ones) = 1..size
  BY <1>1, <1>6, FunctionIsSeq DEF size
<1> QED BY <1>4, <1>5, <1>7 DEF size

\* dynamic_sampling keeps samples of the batch, each once.
LEMMA KeptFacts ==
    ASSUME rows \in Seq(Sample)
    PROVE  /\ Kept \in Seq(Sample)
           /\ DOMAIN Kept = 1..Cardinality(KeptIndices)
           /\ \A n \in DOMAIN Kept : Nth(KeptIndices, n) \in KeptIndices
           /\ \A n \in DOMAIN Kept : Kept[n] = rows[Nth(KeptIndices, n)]
           /\ KeptIndices \subseteq DOMAIN rows
           /\ \A m, n \in DOMAIN Kept :
                 Nth(KeptIndices, m) = Nth(KeptIndices, n) => m = n
<1>1. Len(rows) \in Nat /\ DOMAIN rows = 1..Len(rows) /\ \A i \in DOMAIN rows : rows[i] \in Sample
  BY LenProperties
<1>2. KeptIndices \subseteq DOMAIN rows
  BY DEF KeptIndices
<1>3. IsFiniteSet(KeptIndices) /\ KeptIndices \in SUBSET Nat
  <2>1. IsFiniteSet(1..Len(rows)) /\ 1..Len(rows) \subseteq Nat
    BY <1>1, FS_Interval
  <2>2. KeptIndices \in SUBSET (1..Len(rows))
    BY <1>1, <1>2
  <2> QED BY <2>1, <2>2, FS_Subset
<1>4. Cardinality(KeptIndices) \in Nat
  BY <1>3, FS_CardinalityType
<1>5. \A n \in 1..Cardinality(KeptIndices) : Nth(KeptIndices, n) \in KeptIndices
  BY <1>3, NthElement
<1>6. Kept \in [1..Cardinality(KeptIndices) -> Sample]
  BY <1>1, <1>2, <1>5 DEF Kept
<1>7. Kept \in Seq(Sample) /\ DOMAIN Kept = 1..Cardinality(KeptIndices)
  BY <1>4, <1>6, FunctionIsSeq
<1>8. \A n \in DOMAIN Kept : Kept[n] = rows[Nth(KeptIndices, n)]
  BY <1>7 DEF Kept
<1>9. \A m, n \in DOMAIN Kept : Nth(KeptIndices, m) = Nth(KeptIndices, n) => m = n
  BY <1>3, <1>7, NthElement
<1> QED BY <1>2, <1>5, <1>7, <1>8, <1>9

\* The pool of a step holds what its cache held and what is kept of its batch.
LEMMA PoolType ==
    ASSUME rows \in Seq(Sample), cache \in Seq(Sample)
    PROVE  Pool \in Seq(Sample)
BY KeptFacts, ConcatProperties DEF Pool

\* What a step trains on is the beginning of its pool.
LEMMA SelectedType ==
    ASSUME NEW seq \in Seq(Sample), NEW n \in Nat, Len(seq) >= n
    PROVE  /\ SubSeq(seq, 1, n) \in Seq(Sample) /\ Len(SubSeq(seq, 1, n)) = n
           /\ \A i \in 1..n : SubSeq(seq, 1, n)[i] = seq[i]
<1>1. Len(seq) \in Nat /\ \A i \in 1..n : seq[i] \in Sample
  BY LenProperties
<1> QED BY <1>1, SubSeqProperties

-----------------------------------------------------------------------------
(* Types. *)

LEMMA TypeInit == Init => TypeInv
<1> SUFFICES ASSUME Init PROVE TypeInv
  OBVIOUS
<1>1. << >> \in Seq(Sample) /\ << >> \in Seq(SUBSET Batch)
  BY EmptySeq
<1>2. Nothing \in Checkpoint
  BY <1>1, Numbers DEF Nothing, Checkpoint
<1>3. policy \in [model : Device, optimizer : Device] /\ engine \subseteq Awake
  BY DEF Init, Placed, Device, Asleep, Awake
<1>4. TypeOK
  <2>1. rows \in Seq(Sample) /\ cache \in Seq(Sample) /\ trained \in Seq(SUBSET Batch)
    BY <1>1 DEF Init
  <2>2. stale \in BOOLEAN /\ timedOut \in BOOLEAN
    BY DEF Init
  <2>3. /\ epoch \in 0..MaxEpochs /\ step \in 0..NumBatches /\ total \in Nat
        /\ position \in 0..NumBatches /\ genBatches \in Nat /\ version \in Nat
        /\ loaded \in 0..version /\ launches \in 0..MaxLaunches
    BY Numbers DEF Init
  <2> QED BY <1>2, <1>3, <2>1, <2>2, <2>3 DEF Init, TypeOK, Phase, Device
<1>5. PurposeFits /\ PhaseFits /\ StepFits /\ SavedFits
  BY Numbers DEF Init, Nothing, PurposeFits, PhaseFits, StepFits, SavedFits, InStep,
                 Refitting, InBatch, AfterBatch
<1> QED BY <1>4, <1>5 DEF TypeInv

\* The switches never change, so neither does what a sample is.
LEMMA SampleSame == ASSUME UNCHANGED config PROVE Sample' = Sample
BY DEF Sample, PerBatch

\* A batch is taken, or a rollout gives its samples their rewards.
LEMMA TakeBatchType == ASSUME TypeInv, TakeBatch PROVE TypeInv'
<1>1. UNCHANGED config /\ Sample' = Sample
  BY SampleSame DEF TakeBatch, job
<1>2. [p \in 1..PerBatch |-> 0] \in [1..PerBatch -> 0..NumGenerations]
  BY Numbers
<1>3. rows' \in Seq(Sample)
  BY <1>2, RowsOfType DEF TakeBatch
<1>4. TypeOK'
  BY <1>1, <1>3, Numbers
     DEF TypeInv, TypeOK, TakeBatch, Goto, Phase, job, placement, weights
<1>5. PurposeFits' /\ PhaseFits' /\ StepFits' /\ SavedFits'
  BY <1>1 DEF TypeInv, TypeOK, TakeBatch, Goto, PurposeFits, PhaseFits, StepFits, SavedFits,
              InStep, Refitting, InBatch, AfterBatch, Supervised, job
<1> QED BY <1>4, <1>5 DEF TypeInv

LEMMA RolloutType == ASSUME TypeInv, Rollout PROVE TypeInv'
<1>1. UNCHANGED config /\ Sample' = Sample
  BY SampleSame DEF Rollout, job
<1>2. PICK ones \in RewardCounts :
         rows' = [i \in DOMAIN rows |-> [rows[i] EXCEPT !.ones = ones[rows[i].prompt]]]
  BY DEF Rollout
<1>3. ones \in [1..PerBatch -> 0..NumGenerations]
  BY Numbers DEF RewardCounts
<1>4. Len(rows) \in Nat /\ DOMAIN rows = 1..Len(rows)
  BY LenProperties DEF TypeInv, TypeOK
<1>5. ASSUME NEW i \in DOMAIN rows
      PROVE  [rows[i] EXCEPT !.ones = ones[rows[i].prompt]] \in Sample
  <2>1. rows[i] \in Sample
    BY <1>4, ElementOfSeq DEF TypeInv, TypeOK
  <2> QED BY <1>3, <2>1 DEF Sample
<1>6. rows' \in Seq(Sample)
  BY <1>2, <1>4, <1>5, FunctionIsSeq
<1>7. policy' \in [model : Device, optimizer : Device] /\ engine' \subseteq Awake
  BY DEF TypeInv, TypeOK, Rollout, GeneratesWith, Placed, Device, Asleep, Awake
<1>8. TypeOK'
  BY <1>1, <1>6, <1>7 DEF TypeInv, TypeOK, Rollout, Goto, Phase, job, counters, weights
<1>9. PurposeFits' /\ PhaseFits' /\ StepFits' /\ SavedFits'
  BY <1>1, ConfigFacts
     DEF TypeInv, TypeOK, Rollout, Goto, PurposeFits, PhaseFits, StepFits, SavedFits,
         InStep, Refitting, InBatch, AfterBatch, Supervised, job, counters
<1> QED BY <1>8, <1>9 DEF TypeInv

\* dynamic_sampling goes on, or takes another batch, or gives up.
LEMMA SelectType == ASSUME TypeInv, Select \/ SelectMore PROVE TypeInv'
<1>1. UNCHANGED config /\ Sample' = Sample
  BY SampleSame DEF Select, SelectMore, job
<1>2. rows' \in Seq(Sample) /\ cache' \in Seq(Sample)
  <2>1. Pool \in Seq(Sample) /\ << >> \in Seq(Sample)
    BY PoolType, EmptySeq DEF TypeInv, TypeOK
  <2>2. TrainSize \in Nat
    BY Numbers DEF TrainSize
  <2>3. CASE Select
    BY <2>1, <2>2, <2>3, SelectedType DEF Select, TypeInv, TypeOK
  <2>4. CASE SelectMore
    BY <2>1, <2>4 DEF SelectMore, TypeInv, TypeOK
  <2> QED BY <2>3, <2>4
<1>3. TypeOK'
  BY <1>1, <1>2 DEF TypeInv, TypeOK, Select, SelectMore, Goto, Phase, job, counters, placement,
                    weights
<1>4. PurposeFits' /\ PhaseFits' /\ StepFits' /\ SavedFits'
  BY <1>1, ConfigFacts
     DEF TypeInv, TypeOK, Select, SelectMore, Goto, PurposeFits, PhaseFits, StepFits, SavedFits,
         InStep, Refitting, InBatch, AfterBatch, Supervised, job, counters
<1> QED BY <1>3, <1>4 DEF TypeInv

\* The step is recorded with the batches of its samples.
LEMMA TrainType == ASSUME TypeInv, Train PROVE TypeInv'
<1>1. UNCHANGED config /\ Sample' = Sample
  BY SampleSame DEF Train, job
<1>2. trained' \in Seq(SUBSET Batch)
  <2>1. \A i \in DOMAIN rows : rows[i].batch \in Batch
    <3>1. ASSUME NEW i \in DOMAIN rows PROVE rows[i] \in Sample
      BY LenProperties, ElementOfSeq DEF TypeInv, TypeOK
    <3> QED BY <3>1 DEF Sample
  <2>2. {rows[i].batch : i \in DOMAIN rows} \in SUBSET Batch
    BY <2>1
  <2> QED BY <2>2, AppendProperties DEF TypeInv, TypeOK, Train
<1>3. TypeOK'
  BY <1>1, <1>2 DEF TypeInv, TypeOK, Train, Goto, Phase, job, counters, sampling, placement
<1>4. PurposeFits' /\ PhaseFits' /\ StepFits' /\ SavedFits'
  BY <1>1, ConfigFacts
     DEF TypeInv, TypeOK, Train, Goto, PurposeFits, PhaseFits, StepFits, SavedFits,
         InStep, Refitting, InBatch, AfterBatch, Supervised, job, counters
<1> QED BY <1>3, <1>4 DEF TypeInv

\* What is saved is a checkpoint.
LEMMA SaveType == ASSUME TypeInv, SaveCheckpoint \/ SaveSupervised PROVE TypeInv'
<1>1. UNCHANGED config /\ Sample' = Sample
  BY SampleSame DEF SaveCheckpoint, SaveSupervised, saving
<1>2. step < position /\ epoch < MaxEpochs /\ step \in Nat /\ position \in Nat
      /\ (step + 1) % NumBatches \in 0..(NumBatches - 1)
  <2>1. InStep
    BY DEF SaveCheckpoint, SaveSupervised, InStep, AfterBatch, TypeInv, PurposeFits
  <2>2. step \in Nat /\ position \in Nat
    BY Numbers DEF TypeInv, TypeOK
  <2> QED BY <2>1, <2>2, Numbers, Division DEF TypeInv, StepFits
<1>3. (step + 1) % NumBatches <= step + 1
  <2>0. step + 1 \in Nat
    BY <1>2
  <2>1. (step + 1) \div NumBatches \in Nat
    BY <2>0, Numbers, Division
  <2>2. NumBatches * ((step + 1) \div NumBatches) \in Nat
    BY <2>1, Numbers
  <2> QED BY <1>2, <2>2, Numbers, Division
<1>4. PICK s \in 0..NumBatches : s <= position /\ saved' = CheckpointWith(epoch, s)
  BY <1>2, <1>3, Numbers DEF SaveCheckpoint, SaveSupervised, TypeInv, TypeOK
<1>5. saved' \in Checkpoint /\ SavedFits'
  BY <1>2, <1>4 DEF CheckpointWith, Checkpoint, TypeInv, TypeOK, SavedFits
<1>6. TypeOK'
  BY <1>1, <1>5
     DEF TypeInv, TypeOK, SaveCheckpoint, SaveSupervised, saving, Goto, Phase, counters, sampling,
         placement, weights
<1>7. PurposeFits' /\ PhaseFits' /\ StepFits'
  BY <1>1, ConfigFacts
     DEF TypeInv, TypeOK, SaveCheckpoint, SaveSupervised, saving, Goto, PurposeFits, PhaseFits,
         StepFits, InStep, Refitting, InBatch, AfterBatch, Supervised, counters
<1> QED BY <1>5, <1>6, <1>7 DEF TypeInv

\* A launch has the counters of its checkpoint.
LEMMA LaunchType == ASSUME TypeInv, Launch PROVE TypeInv'
<1>1. UNCHANGED config /\ Sample' = Sample /\ UNCHANGED saved
  BY SampleSame DEF Launch
<1>2. << >> \in Seq(Sample)
  BY EmptySeq
<1>3. /\ saved.step \in 0..NumBatches /\ saved.total \in Nat /\ saved.epoch \in 0..MaxEpochs
      /\ saved.position \in 0..NumBatches /\ saved.version \in Nat
      /\ saved.trained \in Seq(SUBSET Batch)
  BY DEF TypeInv, TypeOK, Checkpoint
<1>4. /\ policy' \in [model : Device, optimizer : Device] /\ engine' \subseteq Awake
      /\ teacher' \in Device
  BY DEF Launch, LaunchFrom, Placed, Device, Asleep, Awake
<1>5. launches' \in 0..MaxLaunches
  BY Numbers DEF TypeInv, TypeOK, Launch
<1>6. TypeOK'
  <2>1. rows' \in Seq(Sample) /\ cache' \in Seq(Sample) /\ trained' \in Seq(SUBSET Batch)
    BY <1>2, <1>3 DEF Launch, LaunchFrom
  <2>2. stale' \in BOOLEAN /\ timedOut' \in BOOLEAN
    BY DEF Launch, LaunchFrom
  <2>3. /\ epoch' \in 0..MaxEpochs /\ step' \in 0..NumBatches /\ total' \in Nat
        /\ position' \in 0..NumBatches /\ genBatches' \in Nat /\ version' \in Nat
        /\ loaded' \in 0..version'
    BY <1>3 DEF Launch, LaunchFrom
  <2> QED
    BY <1>1, <1>4, <1>5, <2>1, <2>2, <2>3 DEF TypeInv, TypeOK, Launch, LaunchFrom, Phase
<1>7. PurposeFits' /\ PhaseFits' /\ StepFits' /\ SavedFits'
  BY <1>1, <1>3
     DEF TypeInv, TypeOK, Launch, LaunchFrom, PurposeFits, PhaseFits, StepFits, SavedFits, InStep,
         Refitting, InBatch, AfterBatch, Supervised
<1> QED BY <1>6, <1>7 DEF TypeInv

\* Waking the engine and refitting it.
LEMMA RefitType ==
    ASSUME TypeInv, BeginRefit \/ TransferWeights \/ EndRefit \/ WakeEngine \/ WakeStudentEngine
    PROVE  TypeInv'
<1>1. UNCHANGED <<unmoved, version, teacher>> /\ Sample' = Sample
  BY SampleSame
     DEF BeginRefit, TransferWeights, EndRefit, WakeEngine, WakeStudentEngine, unmoved, job,
         weights, placement
<1>2. engine' \subseteq Awake
  BY DEF BeginRefit, TransferWeights, EndRefit, WakeEngine, WakeStudentEngine, TypeInv, TypeOK,
         WokenEngine, Awake, placement
<1>7. policy' \in [model : Device, optimizer : Device]
  <2>1. policy' \in {policy, Placed("cpu", "cpu"), Placed(policy.model, "cpu")}
    BY DEF BeginRefit, TransferWeights, EndRefit, WakeEngine, WakeStudentEngine, placement,
           OffloadedBeforeRefit, OffloadedAfterRefit
  <2> QED BY <2>1 DEF TypeInv, TypeOK, Placed, Device
<1>3. /\ phase \in Refitting /\ UNCHANGED purpose
      /\ phase' \in {"transfer", "refitted"} \/ phase' = Generating
  BY DEF BeginRefit, TransferWeights, EndRefit, WakeEngine, WakeStudentEngine, EngineIsCurrent,
         Refitting, Goto
<1>4. stale' \in BOOLEAN
  BY DEF TypeInv, TypeOK, BeginRefit, TransferWeights, EndRefit, WakeEngine, WakeStudentEngine,
         weights
<1>8. loaded' \in 0..version'
  BY DEF TypeInv, TypeOK, BeginRefit, TransferWeights, EndRefit, WakeEngine, WakeStudentEngine,
         weights
<1>5. TypeOK'
  BY <1>1, <1>2, <1>3, <1>4, <1>7, <1>8
     DEF TypeInv, TypeOK, Generating, Phase, unmoved, job, counters, sampling
<1>6. PurposeFits' /\ PhaseFits' /\ StepFits' /\ SavedFits'
  BY <1>1, <1>3, <1>4
     DEF TypeInv, TypeOK, Generating, PurposeFits, PhaseFits, StepFits, SavedFits, InStep,
         Refitting, InBatch, AfterBatch, Supervised, unmoved, job, counters
<1> QED BY <1>5, <1>6 DEF TypeInv

\* check_save answers yes or no.
LEMMA TimeoutDecided == ASSUME DecideCheckpoint PROVE timedOut' \in BOOLEAN
<1>1. CASE launches < MaxLaunches
  BY <1>1 DEF DecideCheckpoint
<1>2. CASE ~(launches < MaxLaunches)
  BY <1>2 DEF DecideCheckpoint
<1> QED BY <1>1, <1>2

\* The steps that move on through the loop, and those that only move memory.
LEMMA MoveType ==
    ASSUME TypeInv,
           \/ Start \/ StartSupervised \/ BeginEpoch \/ EndEpoch
           \/ ComputeLogprobs \/ TeacherLogprobs \/ PrepareTraining
           \/ Validate \/ ValidateSupervised \/ DecideCheckpoint \/ Advance \/ Kill
    PROVE  TypeInv'
<1> USE Numbers, ConfigFacts, SampleSame, EmptySeq
    DEF TypeInv, TypeOK, PurposeFits, PhaseFits, StepFits, SavedFits, InStep, Refitting, InBatch,
        AfterBatch, Supervised, Phase, Device, Placed, Asleep, Awake, Goto, unmoved, counters,
        sampling, placement, weights, job
<1>1. CASE Start
  BY <1>1 DEF Start
<1>2. CASE StartSupervised
  BY <1>2 DEF StartSupervised, PreparedForTraining
<1>3. CASE BeginEpoch
  BY <1>3 DEF BeginEpoch
<1>4. CASE EndEpoch
  BY <1>4 DEF EndEpoch
<1>5. CASE ComputeLogprobs
  BY <1>5 DEF ComputeLogprobs, PreparedForLogprobs
<1>12. CASE TeacherLogprobs
  BY <1>12 DEF TeacherLogprobs
<1>6. CASE PrepareTraining
  BY <1>6 DEF PrepareTraining, PreparedForTraining
<1>7. CASE Validate
  BY <1>7 DEF Validate, GeneratesWith, AfterValidation
<1>8. CASE ValidateSupervised
  BY <1>8 DEF ValidateSupervised, PreparedForTraining, AfterValidation
<1>9. CASE DecideCheckpoint
  <2>1. policy' \in [model : Device, optimizer : Device]
    BY <1>9 DEF DecideCheckpoint, PreparedForTraining
  <2>3. timedOut' \in BOOLEAN
    BY <1>9, TimeoutDecided
  <2>2. phase = "checkpoint" /\ phase' \in {"save", "advance"}
    BY <1>9 DEF DecideCheckpoint
  <2> QED BY <1>9, <2>1, <2>2, <2>3 DEF DecideCheckpoint
<1>10. CASE Advance
  BY <1>10 DEF Advance
<1>11. CASE Kill
  BY <1>11 DEF Kill
<1> QED BY <1>1, <1>2, <1>3, <1>4, <1>5, <1>6, <1>7, <1>8, <1>9, <1>10, <1>11,
            <1>12

LEMMA TypeStutter == ASSUME TypeInv, UNCHANGED vars PROVE TypeInv'
<1>1. Sample' = Sample
  BY SampleSame DEF vars, job
<1> QED
  BY <1>1 DEF TypeInv, TypeOK, PurposeFits, PhaseFits, StepFits, SavedFits, InStep, Supervised,
              vars, counters, sampling, placement, weights, job

LEMMA TypeInvariant == Spec => []TypeInv
<1>1. TypeInv /\ [Next]_vars => TypeInv'
  BY TakeBatchType, RolloutType, SelectType, TrainType, SaveType, LaunchType, RefitType, MoveType,
     TypeStutter DEF Next, Loop
<1> QED BY TypeInit, <1>1, PTL DEF Spec

\* The counters of a loop and of its checkpoint, the samples and the engine's
\* parts stay in their ranges: the step of an epoch never passes its batches, and
\* the weights an engine holds are never newer than the policy's.
THEOREM TypesAreKept == Spec => []TypeOK
BY TypeInvariant, PTL DEF TypeInv

-----------------------------------------------------------------------------
(* The weights of the engine. *)

\* An engine that is not marked stale has the weights of the policy.  Every update
\* comes after a mark, and nothing is generated before the mark is gone.
FreshInv ==
    /\ ~stale => loaded = version
    /\ phase \in {"start", "train"} \/ Supervised => stale
    /\ phase = "prepareGeneration" /\ purpose = "initial" => stale
    /\ phase = "refitted" => loaded = version
    /\ UsesEngine => ~stale

\* Where the memory is: an engine on its own GPUs is always awake, a colocated one
\* only from its refit to the end of the generation.
MemoryInv ==
    /\ OneResident
    /\ ~config.colocated => engine = Awake
    /\ ~config.colocated /\ ~config.offloadForLogprob => policy.optimizer = "gpu"
    /\ config.colocated =>
           /\ phase \in {"transfer", "refitted"} => engine = {"weights"}
           /\ phase \notin {"transfer", "refitted", "rollout", "validating", "down"}
                  => engine = {}
    /\ config.ownEngine => engine = {}
    /\ phase \in {"rollout", "validating"} /\ NeedRefit => engine = Awake
    /\ phase \notin {"prepareTraining", "down"} => teacher = "cpu"
    /\ Supervised \/ phase = "train" => policy = Placed("gpu", "gpu")

\* A step takes another batch only below the bound.
GenBatchInv ==
    config.dynamic =>
        /\ genBatches <= config.maxGenBatches + 1
        /\ phase = "batch" => genBatches <= config.maxGenBatches
        /\ phase \in Refitting \cup {"rollout"} /\ purpose = "rollout"
               => genBatches <= config.maxGenBatches

-----------------------------------------------------------------------------
(* The counters, the dataloader and what was trained on, without dynamic    *)
(* sampling: there each step takes one batch.                               *)

Between ==
    \/ phase \in {"start", "epoch", "batch"}
    \/ phase \in Refitting \cup {"validating"} /\ purpose = "initial"
AfterTrain ==
    \/ phase \in AfterBatch
    \/ phase \in Refitting \cup {"validating"} /\ purpose = "validation"

Place(e, p) == e * NumBatches + p
StepIsPlace(s, p) == s = p \/ (Supervised /\ p = NumBatches /\ s = 0)
TrainedOn(n) == [i \in 1..n |-> {<<(i - 1) \div NumBatches, (i - 1) % NumBatches>>}]

CountersFit ==
    /\ InStep => total + 1 = Place(epoch, position) /\ step + 1 = position
    /\ ~InStep /\ phase # "down" => total = Place(epoch, position) /\ StepIsPlace(step, position)
    /\ saved.total = Place(saved.epoch, saved.position) /\ StepIsPlace(saved.step, saved.position)

WithinLimit ==
    /\ ~config.unlimited => total <= MaxSteps /\ saved.total <= MaxSteps
    /\ InStep \/ phase = "batch" => ~AtLimit(total)

LastIsSaved ==
    /\ phase = "advance" /\ IsLastStep => saved.total = total + 1
    /\ phase = "finished" =>
           /\ saved.total = total
           /\ (epoch < MaxEpochs /\ AtLimit(total)) \/ (epoch = MaxEpochs /\ position = 0)
    /\ Between /\ saved.total # total =>
           /\ ~AtLimit(total) /\ epoch < MaxEpochs
           /\ position = NumBatches => epoch + 1 < MaxEpochs
    /\ Between => epoch < MaxEpochs \/ (phase = "epoch" /\ position = 0)

TrainedFits ==
    /\ phase # "down" => trained = TrainedOn(IF AfterTrain THEN total + 1 ELSE total)
    /\ saved.trained = TrainedOn(saved.total)
    /\ InStep /\ ~AfterTrain => {rows[i].batch : i \in DOMAIN rows} = {<<epoch, position - 1>>}

CountInv == ~config.dynamic => CountersFit /\ WithinLimit /\ LastIsSaved /\ TrainedFits

LEMMA FreshStep == ASSUME TypeInv, FreshInv, [Next]_vars PROVE FreshInv'
<1> USE ConfigFacts
       DEF TypeInv, TypeOK, PurposeFits, PhaseFits, InBatch, AfterBatch, Refitting, FreshInv,
           UsesEngine, NeedRefit, Supervised, Goto, unmoved, weights, job
<1>1. CASE Start
  BY <1>1 DEF Start
<1>2. CASE StartSupervised
  BY <1>2 DEF StartSupervised
<1>3. CASE BeginEpoch
  BY <1>3 DEF BeginEpoch
<1>4. CASE TakeBatch
  BY <1>4 DEF TakeBatch
<1>5. CASE EndEpoch
  BY <1>5 DEF EndEpoch
<1>6. CASE BeginRefit
  BY <1>6 DEF BeginRefit
<1>7. CASE TransferWeights
  BY <1>7 DEF TransferWeights
<1>8. CASE EndRefit
  BY <1>8 DEF EndRefit, Generating
<1>9. CASE WakeEngine
  BY <1>9 DEF WakeEngine, EngineIsCurrent, Generating
<1>10. CASE WakeStudentEngine
  BY <1>10 DEF WakeStudentEngine, EngineIsCurrent, Generating
<1>11. CASE Rollout
  BY <1>11 DEF Rollout
<1>12. CASE Select
  BY <1>12 DEF Select
<1>13. CASE SelectMore
  BY <1>13 DEF SelectMore
<1>14. CASE ComputeLogprobs
  BY <1>14 DEF ComputeLogprobs
<1>15. CASE TeacherLogprobs
  BY <1>15 DEF TeacherLogprobs
<1>16. CASE PrepareTraining
  BY <1>16 DEF PrepareTraining
<1>17. CASE Train
  BY <1>17 DEF Train
<1>18. CASE Validate
  BY <1>18 DEF Validate, AfterValidation
<1>19. CASE ValidateSupervised
  BY <1>19 DEF ValidateSupervised, AfterValidation
<1>20. CASE DecideCheckpoint
  BY <1>20 DEF DecideCheckpoint
<1>21. CASE SaveCheckpoint
  BY <1>21 DEF SaveCheckpoint, saving
<1>22. CASE SaveSupervised
  BY <1>22 DEF SaveSupervised, saving
<1>23. CASE Advance
  BY <1>23 DEF Advance
<1>24. CASE Kill
  BY <1>24 DEF Kill
<1>25. CASE Launch
  BY <1>25 DEF Launch, LaunchFrom
<1>26. CASE UNCHANGED vars
  BY <1>26 DEF vars
<1> QED BY <1>1, <1>2, <1>3, <1>4, <1>5, <1>6, <1>7, <1>8, <1>9, <1>10, <1>11, <1>12, <1>13,
           <1>14, <1>15, <1>16, <1>17, <1>18, <1>19, <1>20, <1>21, <1>22, <1>23, <1>24, <1>25,
           <1>26
   DEF Next, Loop

LEMMA MemoryStep == ASSUME TypeInv, FreshInv, MemoryInv, [Next]_vars PROVE MemoryInv'
<1> USE ConfigFacts
       DEF TypeInv, TypeOK, PurposeFits, PhaseFits, InBatch, AfterBatch, Refitting, FreshInv,
           MemoryInv, OneResident, UsesEngine, NeedRefit, Supervised, Placed, Asleep, Awake,
           Goto, unmoved, placement, weights, job
<1>1. CASE Start
  BY <1>1 DEF Start
<1>2. CASE StartSupervised
  BY <1>2 DEF StartSupervised, PreparedForTraining
<1>3. CASE BeginEpoch
  BY <1>3 DEF BeginEpoch
<1>4. CASE TakeBatch
  BY <1>4 DEF TakeBatch
<1>5. CASE EndEpoch
  BY <1>5 DEF EndEpoch
<1>6. CASE BeginRefit
  <2>1. /\ phase = "prepareGeneration" /\ phase' = "transfer" /\ ~Supervised /\ NeedRefit
        /\ UNCHANGED <<purpose, teacher>>
    BY <1>6 DEF BeginRefit
  <2>2. CASE config.colocated
    <3>1. engine' = {"weights"} /\ policy' = Placed(policy.model, "cpu")
      BY <1>6, <2>1, <2>2 DEF BeginRefit, OffloadedBeforeRefit
    <3> QED BY <1>6, <2>1, <2>2, <3>1 DEF BeginRefit
  <2>3. CASE ~config.colocated
    BY <1>6, <2>1, <2>3 DEF BeginRefit
  <2> QED BY <2>2, <2>3
<1>7. CASE TransferWeights
  BY <1>7 DEF TransferWeights
<1>8. CASE EndRefit
  BY <1>8 DEF EndRefit, Generating, OffloadedAfterRefit
<1>9. CASE WakeEngine
  BY <1>9 DEF WakeEngine, EngineIsCurrent, Generating, WokenEngine, OffloadedAfterRefit
<1>10. CASE WakeStudentEngine
  BY <1>10 DEF WakeStudentEngine, EngineIsCurrent, Generating, WokenEngine
<1>11. CASE Rollout
  BY <1>11 DEF Rollout, GeneratesWith
<1>12. CASE Select
  BY <1>12 DEF Select
<1>13. CASE SelectMore
  BY <1>13 DEF SelectMore
<1>14. CASE ComputeLogprobs
  BY <1>14 DEF ComputeLogprobs, PreparedForLogprobs
<1>15. CASE TeacherLogprobs
  BY <1>15 DEF TeacherLogprobs
<1>16. CASE PrepareTraining
  BY <1>16 DEF PrepareTraining, PreparedForTraining
<1>17. CASE Train
  BY <1>17 DEF Train
<1>18. CASE Validate
  BY <1>18 DEF Validate, AfterValidation, GeneratesWith
<1>19. CASE ValidateSupervised
  BY <1>19 DEF ValidateSupervised, AfterValidation, PreparedForTraining
<1>20. CASE DecideCheckpoint
  BY <1>20 DEF DecideCheckpoint, PreparedForTraining
<1>21. CASE SaveCheckpoint
  BY <1>21 DEF SaveCheckpoint, saving
<1>22. CASE SaveSupervised
  BY <1>22 DEF SaveSupervised, saving
<1>23. CASE Advance
  BY <1>23 DEF Advance
<1>24. CASE Kill
  BY <1>24 DEF Kill
<1>25. CASE Launch
  BY <1>25 DEF Launch, LaunchFrom
<1>26. CASE UNCHANGED vars
  BY <1>26 DEF vars
<1> QED BY <1>1, <1>2, <1>3, <1>4, <1>5, <1>6, <1>7, <1>8, <1>9, <1>10, <1>11, <1>12, <1>13,
           <1>14, <1>15, <1>16, <1>17, <1>18, <1>19, <1>20, <1>21, <1>22, <1>23, <1>24, <1>25,
           <1>26
   DEF Next, Loop

LEMMA GenBatchStep == ASSUME TypeInv, GenBatchInv, [Next]_vars PROVE GenBatchInv'
<1> USE ConfigFacts
       DEF TypeInv, TypeOK, PurposeFits, PhaseFits, InBatch, AfterBatch, Refitting, GenBatchInv,
           Supervised, Goto, unmoved, sampling, job
<1>1. CASE Start
  BY <1>1 DEF Start
<1>2. CASE StartSupervised
  BY <1>2 DEF StartSupervised
<1>3. CASE BeginEpoch
  BY <1>3 DEF BeginEpoch
<1>4. CASE TakeBatch
  BY <1>4 DEF TakeBatch
<1>5. CASE EndEpoch
  BY <1>5 DEF EndEpoch
<1>6. CASE BeginRefit
  BY <1>6 DEF BeginRefit
<1>7. CASE TransferWeights
  BY <1>7 DEF TransferWeights
<1>8. CASE EndRefit
  BY <1>8 DEF EndRefit, Generating
<1>9. CASE WakeEngine
  BY <1>9 DEF WakeEngine, EngineIsCurrent, Generating
<1>10. CASE WakeStudentEngine
  BY <1>10 DEF WakeStudentEngine, EngineIsCurrent, Generating
<1>11. CASE Rollout
  BY <1>11 DEF Rollout
<1>12. CASE Select
  BY <1>12 DEF Select
<1>13. CASE SelectMore
  BY <1>13 DEF SelectMore
<1>14. CASE ComputeLogprobs
  BY <1>14 DEF ComputeLogprobs
<1>15. CASE TeacherLogprobs
  BY <1>15 DEF TeacherLogprobs
<1>16. CASE PrepareTraining
  BY <1>16 DEF PrepareTraining
<1>17. CASE Train
  BY <1>17 DEF Train
<1>18. CASE Validate
  BY <1>18 DEF Validate, AfterValidation
<1>19. CASE ValidateSupervised
  BY <1>19 DEF ValidateSupervised, AfterValidation
<1>20. CASE DecideCheckpoint
  BY <1>20 DEF DecideCheckpoint
<1>21. CASE SaveCheckpoint
  BY <1>21 DEF SaveCheckpoint, saving
<1>22. CASE SaveSupervised
  BY <1>22 DEF SaveSupervised, saving
<1>23. CASE Advance
  BY <1>23 DEF Advance
<1>24. CASE Kill
  BY <1>24 DEF Kill
<1>25. CASE Launch
  BY <1>25 DEF Launch, LaunchFrom
<1>26. CASE UNCHANGED vars
  BY <1>26 DEF vars
<1> QED BY <1>1, <1>2, <1>3, <1>4, <1>5, <1>6, <1>7, <1>8, <1>9, <1>10, <1>11, <1>12, <1>13,
           <1>14, <1>15, <1>16, <1>17, <1>18, <1>19, <1>20, <1>21, <1>22, <1>23, <1>24, <1>25,
           <1>26
   DEF Next, Loop

-----------------------------------------------------------------------------
(* The theorems about weights and memory. *)

LEMMA PhaseInvariants == Spec => [](FreshInv /\ MemoryInv /\ GenBatchInv)
<1>1. Init => FreshInv /\ MemoryInv /\ GenBatchInv
  <2>1. ASSUME Init PROVE FreshInv /\ MemoryInv
    BY <2>1, ConfigFacts
       DEF Init, FreshInv, UsesEngine, MemoryInv, OneResident, NeedRefit, Placed, Asleep, Awake
  <2>2. ASSUME Init PROVE GenBatchInv
    BY <2>2, ConfigFacts DEF Init, GenBatchInv, Refitting
  <2> QED BY <2>1, <2>2
<1>2. TypeInv /\ FreshInv /\ MemoryInv /\ GenBatchInv /\ [Next]_vars
         => (FreshInv /\ MemoryInv /\ GenBatchInv)'
  BY FreshStep, MemoryStep, GenBatchStep
<1> QED BY TypeInvariant, <1>1, <1>2, PTL DEF Spec

\* The engine generates with the weights of the policy, for training and for
\* validation, after a launch as after any number of skipped validations and saves.
THEOREM EngineIsFresh == Spec => []FreshWeights
<1>1. FreshInv => FreshWeights
  BY DEF FreshInv, FreshWeights
<1> QED BY <1>1, PhaseInvariants, PTL

\* Trainer and engine of grpo_train share their GPUs without ever being on them
\* together.
THEOREM MemoryIsShared == Spec => []OneResident
<1>1. MemoryInv => OneResident
  BY DEF MemoryInv
<1> QED BY <1>1, PhaseInvariants, PTL

\* Whatever was moved away is back when the loop uses it.
THEOREM EverythingIsPlaced == Spec => []PlacedForUse
<1>1. TypeInv /\ MemoryInv => PlacedForUse
  BY ConfigFacts
     DEF TypeInv, TypeOK, PhaseFits, MemoryInv, PlacedForUse, UsesEngine, NeedRefit, Asleep,
         Supervised
<1> QED BY <1>1, TypeInvariant, PhaseInvariants, PTL

\* Dynamic sampling generates no more than one batch beyond its bound in a step.
THEOREM GenerationIsBounded == Spec => []GenBatchBound
<1>1. GenBatchInv => GenBatchBound
  BY DEF GenBatchInv, GenBatchBound
<1> QED BY <1>1, PhaseInvariants, PTL

-----------------------------------------------------------------------------
(* The refinement. *)

\* Every step counts a step, saves the one at hand, goes back to what was saved or
\* leaves both numbers alone.
LEMMA DurableStep == [Next]_vars => [Durable!Next]_<<total, saved.total>>
<1> SUFFICES ASSUME [Next]_vars
             PROVE  \/ UNCHANGED <<total, saved.total>> \/ Durable!CountStep
                    \/ Durable!SaveStep \/ Durable!GoBack
  BY DEF Durable!Next
<1>1. CASE Advance
  BY <1>1 DEF Advance, job, Durable!CountStep
<1>2. CASE SaveCheckpoint \/ SaveSupervised
  BY <1>2
     DEF SaveCheckpoint, SaveSupervised, CheckpointWith, saving, counters, Durable!SaveStep
<1>3. CASE Launch
  BY <1>3 DEF Launch, LaunchFrom, Durable!GoBack
<1>4. CASE \/ Start \/ StartSupervised \/ BeginEpoch \/ TakeBatch \/ EndEpoch
           \/ BeginRefit \/ TransferWeights \/ EndRefit \/ WakeEngine \/ WakeStudentEngine
           \/ Rollout \/ Select \/ SelectMore \/ ComputeLogprobs \/ TeacherLogprobs
           \/ PrepareTraining \/ Train \/ Validate \/ ValidateSupervised
           \/ DecideCheckpoint \/ Kill \/ UNCHANGED vars
  BY <1>4
     DEF Start, StartSupervised, BeginEpoch, TakeBatch, EndEpoch, BeginRefit, TransferWeights,
         EndRefit, WakeEngine, WakeStudentEngine, Rollout, Select, SelectMore, ComputeLogprobs,
         TeacherLogprobs, PrepareTraining, Train, Validate, ValidateSupervised,
         DecideCheckpoint, Kill, vars, unmoved, counters, job
<1> QED BY <1>1, <1>2, <1>3, <1>4 DEF Next, Loop

\* The loops keep what DurableTraining promises.
THEOREM TrainingIsDurable == Spec => ImplementsDurableTraining
<1>1. Init => Durable!Init
  BY DEF Init, Nothing, Durable!Init
<1> QED BY <1>1, DurableStep, PTL DEF Spec, ImplementsDurableTraining, Durable!Spec

-----------------------------------------------------------------------------
LEMMA PlaceFacts ==
    ASSUME TypeInv
    PROVE  /\ Place(epoch, position) \in Nat
           /\ Place(epoch, position + 1) = Place(epoch, position) + 1
           /\ Place(epoch + 1, 0) = Place(epoch, NumBatches)
           /\ epoch \in Nat /\ position \in Nat /\ step \in Nat /\ total \in Nat
           /\ Place(saved.epoch, saved.position) \in Nat
<1>1. epoch \in Nat /\ position \in Nat /\ step \in Nat /\ total \in Nat
  BY Numbers DEF TypeInv, TypeOK
<1>2. saved.epoch \in Nat /\ saved.position \in Nat
  BY Numbers DEF TypeInv, TypeOK, Checkpoint
<1> QED BY <1>1, <1>2, Numbers DEF Place

\* No step changes the switches.
LEMMA ConfigSame == ASSUME [Next]_vars PROVE UNCHANGED config
BY DEF Next, Loop, Start, StartSupervised, BeginEpoch, TakeBatch, EndEpoch, BeginRefit,
       TransferWeights, EndRefit, WakeEngine, WakeStudentEngine, Rollout, Select, SelectMore,
       ComputeLogprobs, TeacherLogprobs, PrepareTraining, Train, Validate, ValidateSupervised,
       DecideCheckpoint, SaveCheckpoint, SaveSupervised, Advance, Kill, Launch, vars, unmoved,
       saving, job

LEMMA CountersStep ==
    ASSUME TypeInv, ~config.dynamic, CountersFit, [Next]_vars PROVE CountersFit'
<1> USE ConfigFacts, PlaceFacts, Numbers
       DEF TypeInv, TypeOK, PurposeFits, PhaseFits, InBatch, AfterBatch, Refitting, InStep,
           CountersFit, StepIsPlace, Supervised, Goto, unmoved, counters, job
<1>1. CASE Start
  BY <1>1 DEF Start
<1>2. CASE StartSupervised
  BY <1>2 DEF StartSupervised
<1>3. CASE BeginEpoch
  BY <1>3 DEF BeginEpoch
<1>4. CASE TakeBatch
  BY <1>4 DEF TakeBatch
<1>5. CASE EndEpoch
  BY <1>5 DEF EndEpoch
<1>6. CASE BeginRefit
  BY <1>6 DEF BeginRefit
<1>7. CASE TransferWeights
  BY <1>7 DEF TransferWeights
<1>8. CASE EndRefit
  BY <1>8 DEF EndRefit, Generating
<1>9. CASE WakeEngine
  BY <1>9 DEF WakeEngine, EngineIsCurrent, Generating
<1>10. CASE WakeStudentEngine
  BY <1>10 DEF WakeStudentEngine, EngineIsCurrent, Generating
<1>11. CASE Rollout
  BY <1>11 DEF Rollout
<1>12. CASE Select
  BY <1>12 DEF Select
<1>13. CASE SelectMore
  BY <1>13 DEF SelectMore
<1>14. CASE ComputeLogprobs
  BY <1>14 DEF ComputeLogprobs
<1>15. CASE TeacherLogprobs
  BY <1>15 DEF TeacherLogprobs
<1>16. CASE PrepareTraining
  BY <1>16 DEF PrepareTraining
<1>17. CASE Train
  BY <1>17 DEF Train
<1>18. CASE Validate
  BY <1>18 DEF Validate, AfterValidation
<1>19. CASE ValidateSupervised
  BY <1>19 DEF ValidateSupervised, AfterValidation
<1>20. CASE DecideCheckpoint
  BY <1>20 DEF DecideCheckpoint
<1>21. CASE SaveCheckpoint
  BY <1>21 DEF SaveCheckpoint, CheckpointWith, saving
<1>22. CASE SaveSupervised
  <2>1. InStep /\ Supervised /\ step + 1 = position /\ position \in 1..NumBatches
    BY <1>22 DEF SaveSupervised
  <2>2. (step + 1) % NumBatches = IF position = NumBatches THEN 0 ELSE position
    <3>1. CASE position = NumBatches
      <4>1. (1 * NumBatches + 0) % NumBatches = 0 /\ 1 * NumBatches + 0 = NumBatches
        BY Numbers, Quotient
      <4> QED BY <2>1, <3>1, <4>1
    <3>2. CASE position # NumBatches
      <4>1. position \in 0..(NumBatches - 1) /\ 0 * NumBatches + position = position
        BY <2>1, <3>2, Numbers
      <4>2. (0 * NumBatches + position) % NumBatches = position
        BY <4>1, Numbers, Quotient
      <4> QED BY <2>1, <3>2, <4>1, <4>2
    <3> QED BY <3>1, <3>2
  <2>3. /\ saved'.total = total + 1 /\ saved'.epoch = epoch /\ saved'.position = position
        /\ saved'.step = (step + 1) % NumBatches
    BY <1>22 DEF SaveSupervised, CheckpointWith
  <2> QED BY <1>22, <2>1, <2>2, <2>3 DEF SaveSupervised, saving
<1>23. CASE Advance
  BY <1>23 DEF Advance
<1>24. CASE Kill
  BY <1>24 DEF Kill
<1>25. CASE Launch
  BY <1>25 DEF Launch, LaunchFrom
<1>26. CASE UNCHANGED vars
  BY <1>26 DEF vars
<1> QED BY <1>1, <1>2, <1>3, <1>4, <1>5, <1>6, <1>7, <1>8, <1>9, <1>10, <1>11, <1>12, <1>13,
           <1>14, <1>15, <1>16, <1>17, <1>18, <1>19, <1>20, <1>21, <1>22, <1>23, <1>24, <1>25,
           <1>26
   DEF Next, Loop

LEMMA LimitStep ==
    ASSUME TypeInv, ~config.dynamic, WithinLimit, [Next]_vars PROVE WithinLimit'
<1> USE ConfigFacts, PlaceFacts, Numbers
       DEF TypeInv, TypeOK, PurposeFits, PhaseFits, InBatch, AfterBatch, Refitting, InStep,
           WithinLimit, AtLimit, Supervised, Goto, unmoved, counters, job
<1>1. CASE Start
  BY <1>1 DEF Start
<1>2. CASE StartSupervised
  BY <1>2 DEF StartSupervised
<1>3. CASE BeginEpoch
  BY <1>3 DEF BeginEpoch
<1>4. CASE TakeBatch
  BY <1>4 DEF TakeBatch
<1>5. CASE EndEpoch
  BY <1>5 DEF EndEpoch
<1>6. CASE BeginRefit
  BY <1>6 DEF BeginRefit
<1>7. CASE TransferWeights
  BY <1>7 DEF TransferWeights
<1>8. CASE EndRefit
  BY <1>8 DEF EndRefit, Generating
<1>9. CASE WakeEngine
  BY <1>9 DEF WakeEngine, EngineIsCurrent, Generating
<1>10. CASE WakeStudentEngine
  BY <1>10 DEF WakeStudentEngine, EngineIsCurrent, Generating
<1>11. CASE Rollout
  BY <1>11 DEF Rollout
<1>12. CASE Select
  BY <1>12 DEF Select
<1>13. CASE SelectMore
  BY <1>13 DEF SelectMore
<1>14. CASE ComputeLogprobs
  BY <1>14 DEF ComputeLogprobs
<1>15. CASE TeacherLogprobs
  BY <1>15 DEF TeacherLogprobs
<1>16. CASE PrepareTraining
  BY <1>16 DEF PrepareTraining
<1>17. CASE Train
  BY <1>17 DEF Train
<1>18. CASE Validate
  BY <1>18 DEF Validate, AfterValidation
<1>19. CASE ValidateSupervised
  BY <1>19 DEF ValidateSupervised, AfterValidation
<1>20. CASE DecideCheckpoint
  BY <1>20 DEF DecideCheckpoint
<1>21. CASE SaveCheckpoint
  BY <1>21 DEF SaveCheckpoint, CheckpointWith, saving
<1>22. CASE SaveSupervised
  BY <1>22 DEF SaveSupervised, CheckpointWith, saving
<1>23. CASE Advance
  BY <1>23 DEF Advance
<1>24. CASE Kill
  BY <1>24 DEF Kill
<1>25. CASE Launch
  BY <1>25 DEF Launch, LaunchFrom
<1>26. CASE UNCHANGED vars
  BY <1>26 DEF vars
<1> QED BY <1>1, <1>2, <1>3, <1>4, <1>5, <1>6, <1>7, <1>8, <1>9, <1>10, <1>11, <1>12, <1>13,
           <1>14, <1>15, <1>16, <1>17, <1>18, <1>19, <1>20, <1>21, <1>22, <1>23, <1>24, <1>25,
           <1>26
   DEF Next, Loop

LEMMA LastIsSavedStep ==
    ASSUME TypeInv, ~config.dynamic, CountersFit, WithinLimit, LastIsSaved, [Next]_vars
    PROVE  LastIsSaved'
<1> USE ConfigFacts, PlaceFacts, Numbers
       DEF TypeInv, TypeOK, PurposeFits, PhaseFits, StepFits, SavedFits, InBatch, AfterBatch,
           Refitting, InStep, CountersFit, StepIsPlace, WithinLimit, AtLimit, LastIsSaved,
           Between, IsLastStep, Supervised, Goto, unmoved, counters, job
<1>1. CASE Start
  BY <1>1 DEF Start
<1>2. CASE StartSupervised
  BY <1>2 DEF StartSupervised
<1>3. CASE BeginEpoch
  <2>1. UNCHANGED <<epoch, position, total, saved, purpose, config>> /\ phase = "epoch"
        /\ phase' = IF epoch < MaxEpochs /\ ~AtLimit(total) THEN "batch" ELSE "finished"
    BY <1>3 DEF BeginEpoch
  <2> QED BY <2>1
<1>4. CASE TakeBatch
  BY <1>4 DEF TakeBatch
<1>5. CASE EndEpoch
  BY <1>5 DEF EndEpoch
<1>6. CASE BeginRefit
  BY <1>6 DEF BeginRefit
<1>7. CASE TransferWeights
  BY <1>7 DEF TransferWeights
<1>8. CASE EndRefit
  BY <1>8 DEF EndRefit, Generating
<1>9. CASE WakeEngine
  BY <1>9 DEF WakeEngine, EngineIsCurrent, Generating
<1>10. CASE WakeStudentEngine
  BY <1>10 DEF WakeStudentEngine, EngineIsCurrent, Generating
<1>11. CASE Rollout
  BY <1>11 DEF Rollout
<1>12. CASE Select
  BY <1>12 DEF Select
<1>13. CASE SelectMore
  BY <1>13 DEF SelectMore
<1>14. CASE ComputeLogprobs
  BY <1>14 DEF ComputeLogprobs
<1>15. CASE TeacherLogprobs
  BY <1>15 DEF TeacherLogprobs
<1>16. CASE PrepareTraining
  BY <1>16 DEF PrepareTraining
<1>17. CASE Train
  BY <1>17 DEF Train
<1>18. CASE Validate
  BY <1>18 DEF Validate, AfterValidation
<1>19. CASE ValidateSupervised
  BY <1>19 DEF ValidateSupervised, AfterValidation
<1>20. CASE DecideCheckpoint
  BY <1>20 DEF DecideCheckpoint
<1>21. CASE SaveCheckpoint
  BY <1>21 DEF SaveCheckpoint, CheckpointWith, saving
<1>22. CASE SaveSupervised
  BY <1>22 DEF SaveSupervised, CheckpointWith, saving
<1>23. CASE Advance
  BY <1>23 DEF Advance
<1>24. CASE Kill
  BY <1>24 DEF Kill
<1>25. CASE Launch
  BY <1>25 DEF Launch, LaunchFrom
<1>26. CASE UNCHANGED vars
  BY <1>26 DEF vars
<1> QED BY <1>1, <1>2, <1>3, <1>4, <1>5, <1>6, <1>7, <1>8, <1>9, <1>10, <1>11, <1>12, <1>13,
           <1>14, <1>15, <1>16, <1>17, <1>18, <1>19, <1>20, <1>21, <1>22, <1>23, <1>24, <1>25,
           <1>26
   DEF Next, Loop


\* The step after n steps trains on batch number n.
LEMMA TrainedOnNext ==
    ASSUME NEW e \in Nat, NEW p \in 0..(NumBatches - 1)
    PROVE  TrainedOn(Place(e, p) + 1) = Append(TrainedOn(Place(e, p)), {<<e, p>>})
<1> DEFINE n == Place(e, p)
           S == {{<<i \div NumBatches, i % NumBatches>>} : i \in Nat} \cup {{<<e, p>>}}
<1>1. n \in Nat /\ n \div NumBatches = e /\ n % NumBatches = p
  BY Numbers, Quotient DEF Place
<1> HIDE DEF n
<1>2. TrainedOn(n) \in [1..n -> S] /\ TrainedOn(n + 1) \in [1..(n + 1) -> S]
  <2>1. ASSUME NEW i \in Nat \ {0}
        PROVE  {<<(i - 1) \div NumBatches, (i - 1) % NumBatches>>} \in S
    BY i - 1 \in Nat
  <2> HIDE DEF S
  <2> QED BY <1>1, <2>1 DEF TrainedOn
<1> HIDE DEF S
<1>3. /\ TrainedOn(n) \in Seq(S) /\ Len(TrainedOn(n)) = n
      /\ TrainedOn(n + 1) \in Seq(S) /\ Len(TrainedOn(n + 1)) = n + 1
  BY <1>1, <1>2, FunctionIsSeq
<1>4. {<<e, p>>} \in S
  BY DEF S
<1> DEFINE t == Append(TrainedOn(n), {<<e, p>>})
<1>5. /\ t \in Seq(S) /\ Len(t) = n + 1 /\ t[n + 1] = {<<e, p>>}
      /\ \A i \in 1..n : t[i] = TrainedOn(n)[i]
  BY <1>3, <1>4, AppendProperties
<1>6. ASSUME NEW i \in 1..(n + 1) PROVE TrainedOn(n + 1)[i] = t[i]
  <2>1. CASE i = n + 1
    BY <1>1, <1>5, <2>1 DEF TrainedOn
  <2>2. CASE i \in 1..n
    BY <1>1, <1>5, <2>2 DEF TrainedOn
  <2>3. i = n + 1 \/ i \in 1..n
    BY <1>1
  <2> QED BY <2>1, <2>2, <2>3
<1> HIDE DEF t
<1>7. TrainedOn(n + 1) = t
  BY <1>3, <1>5, <1>6, SeqEqual
<1> QED BY <1>7 DEF n, t

\* The samples of a batch are of that batch, before the rollout and after it.
LEMMA BatchTaken ==
    ASSUME TypeInv, TakeBatch
    PROVE  {rows'[i].batch : i \in DOMAIN rows'} = {<<epoch, position>>}
<1>1. PerBatch \in Nat \ {0} /\ Generations \in Nat \ {0}
  BY ConfigFacts, Numbers DEF TypeInv, TypeOK
<1>2. 1 \in 1..(PerBatch * Generations)
  <2>1. PerBatch * Generations \in Nat \ {0}
    BY <1>1, Positive
  <2> QED BY <2>1
<1>3. [p \in 1..PerBatch |-> 0] \in [1..PerBatch -> 0..NumGenerations]
  BY Numbers
<1>4. 1 \in DOMAIN rows' /\ \A i \in DOMAIN rows' : rows'[i].batch = <<epoch, position>>
  BY <1>2, <1>3, RowsOfType DEF TakeBatch
<1> QED BY <1>4

LEMMA BatchRolledOut ==
    ASSUME TypeInv, Rollout
    PROVE  {rows'[i].batch : i \in DOMAIN rows'} = {rows[i].batch : i \in DOMAIN rows}
<1>1. ASSUME NEW i \in DOMAIN rows, NEW k
      PROVE  [rows[i] EXCEPT !.ones = k].batch = rows[i].batch
  <2>1. rows[i] \in Sample
    BY LenProperties, ElementOfSeq DEF TypeInv, TypeOK
  <2> QED BY <2>1 DEF Sample
<1>2. DOMAIN rows' = DOMAIN rows /\ \A i \in DOMAIN rows : rows'[i].batch = rows[i].batch
  <2>1. PICK ones : rows' = [i \in DOMAIN rows |-> [rows[i] EXCEPT !.ones = ones[rows[i].prompt]]]
    BY DEF Rollout
  <2> QED BY <1>1, <2>1
<1> QED BY <1>2

\* A step that leaves the counters, the batch and what was trained on alone.
LEMMA TrainedSame ==
    ASSUME TrainedFits, UNCHANGED <<rows, epoch, position, total, trained, saved>>,
           phase = "down" => phase' = "down", AfterTrain' <=> AfterTrain,
           InStep' /\ ~AfterTrain => InStep
    PROVE  TrainedFits'
<1>1. TrainedOn(IF AfterTrain' THEN total' + 1 ELSE total')
         = TrainedOn(IF AfterTrain THEN total + 1 ELSE total)
  OBVIOUS
<1>2. TrainedOn(saved'.total) = TrainedOn(saved.total)
  OBVIOUS
<1> QED BY <1>1, <1>2 DEF TrainedFits

LEMMA TrainedStep ==
    ASSUME TypeInv, ~config.dynamic, CountersFit, TrainedFits, [Next]_vars PROVE TrainedFits'
<1> USE DEF Goto, unmoved, counters, sampling, job, AfterTrain, InStep, InBatch, AfterBatch,
       Refitting, PurposeFits, PhaseFits
<1>1. PurposeFits /\ PhaseFits /\ purpose \in {"initial", "rollout", "validation"}
  BY DEF TypeInv, TypeOK
<1>2. CASE Start
  BY <1>2, <1>1, TrainedSame DEF Start
<1>3. CASE StartSupervised
  BY <1>3, <1>1, TrainedSame DEF StartSupervised
<1>4. CASE BeginEpoch
  BY <1>4, <1>1, TrainedSame DEF BeginEpoch
<1>5. CASE BeginRefit
  BY <1>5, <1>1, TrainedSame DEF BeginRefit
<1>6. CASE TransferWeights
  BY <1>6, <1>1, TrainedSame DEF TransferWeights
<1>7. CASE EndRefit
  BY <1>7, <1>1, TrainedSame DEF EndRefit, Generating
<1>8. CASE WakeEngine
  BY <1>8, <1>1, TrainedSame DEF WakeEngine, EngineIsCurrent, Generating
<1>9. CASE WakeStudentEngine
  BY <1>9, <1>1, TrainedSame DEF WakeStudentEngine, EngineIsCurrent, Generating
<1>10. CASE ComputeLogprobs
  BY <1>10, <1>1, TrainedSame DEF ComputeLogprobs
<1>11. CASE TeacherLogprobs
  BY <1>11, <1>1, TrainedSame DEF TeacherLogprobs
<1>12. CASE PrepareTraining
  BY <1>12, <1>1, TrainedSame DEF PrepareTraining
<1>13. CASE Validate
  BY <1>13, <1>1, TrainedSame DEF Validate, AfterValidation
<1>14. CASE ValidateSupervised
  BY <1>14, <1>1, TrainedSame DEF ValidateSupervised, AfterValidation
<1>15. CASE DecideCheckpoint
  BY <1>15, <1>1, TrainedSame DEF DecideCheckpoint
<1>16. CASE UNCHANGED vars
  BY <1>16, TrainedSame DEF vars
<1> USE ConfigFacts, PlaceFacts, Numbers
       DEF TypeInv, TypeOK, PurposeFits, PhaseFits, InBatch, AfterBatch, Refitting, InStep,
           AfterTrain, TrainedFits, Supervised, Goto, unmoved, counters, sampling, job
<1>17. CASE TakeBatch
  <2>1. position' - 1 = position /\ epoch' = epoch
    BY <1>17 DEF TakeBatch
  <2> QED BY <1>17, <2>1, BatchTaken DEF TakeBatch
<1>18. CASE Rollout
  BY <1>18, BatchRolledOut DEF Rollout
<1>19. CASE Select
  <2>1. UNCHANGED <<rows, epoch, position, total, trained, saved, purpose>>
    BY <1>19 DEF Select
  <2>2. phase = "select" /\ phase' = "logprobs"
    BY <1>19 DEF Select
  <2> QED BY <2>1, <2>2
<1>20. CASE SelectMore
  BY <1>20 DEF SelectMore
<1>21. CASE Train
  <2>1. total + 1 = Place(epoch, position) /\ position \in 1..NumBatches /\ epoch \in Nat
    BY <1>21 DEF Train, CountersFit, StepFits
  <2>2. total = Place(epoch, position - 1)
    <3> DEFINE before == epoch * NumBatches
    <3>1. before \in Nat /\ total + 1 = before + position /\ total \in Nat
      BY <2>1 DEF Place
    <3> HIDE DEF before
    <3>2. total = before + (position - 1)
      BY <2>1, <3>1
    <3> QED BY <3>2 DEF Place, before
  <2>3. TrainedOn(total + 1) = Append(TrainedOn(total), {<<epoch, position - 1>>})
    <3>1. position - 1 \in 0..(NumBatches - 1)
      BY <2>1
    <3> QED BY <2>1, <2>2, <3>1, TrainedOnNext
  <2>4. trained' = Append(TrainedOn(total), {<<epoch, position - 1>>})
    BY <1>21 DEF Train
  <2> QED BY <1>21, <2>3, <2>4 DEF Train
<1>22. CASE SaveCheckpoint
  BY <1>22 DEF SaveCheckpoint, CheckpointWith, saving
<1>23. CASE SaveSupervised
  BY <1>23 DEF SaveSupervised, CheckpointWith, saving
<1>24. CASE Advance
  BY <1>24 DEF Advance
<1>25. CASE Launch
  BY <1>25 DEF Launch, LaunchFrom
<1>26. CASE EndEpoch
  BY <1>26 DEF EndEpoch
<1>27. CASE Kill
  BY <1>27 DEF Kill
<1> QED BY <1>2, <1>3, <1>4, <1>5, <1>6, <1>7, <1>8, <1>9, <1>10, <1>11, <1>12, <1>13, <1>14,
           <1>15, <1>16, <1>17, <1>18, <1>19, <1>20, <1>21, <1>22, <1>23, <1>24, <1>25, <1>26,
           <1>27
   DEF Next, Loop

LEMMA CountInvariant == Spec => []CountInv
<1>1. Init => CountInv
  <2> SUFFICES ASSUME Init PROVE CountInv
    OBVIOUS
  <2>1. Place(0, 0) = 0
    BY Numbers DEF Place
  <2>2. CountersFit /\ WithinLimit /\ LastIsSaved
    BY <2>1, Numbers
       DEF Init, Nothing, CountersFit, InStep, StepIsPlace, WithinLimit, AtLimit, LastIsSaved,
           Between, Refitting, InBatch, AfterBatch
  <2>3. TrainedOn(0) = << >>
    BY DEF TrainedOn
  <2>4. TrainedFits
    BY <2>3 DEF Init, Nothing, TrainedFits, AfterTrain, InStep, Refitting, InBatch, AfterBatch
  <2> QED BY <2>2, <2>4 DEF CountInv
<1>2. TypeInv /\ CountInv /\ [Next]_vars => CountInv'
  <2> SUFFICES ASSUME TypeInv, CountInv, [Next]_vars PROVE CountInv'
    OBVIOUS
  <2>1. UNCHANGED config
    BY ConfigSame
  <2> QED BY <2>1, CountersStep, LimitStep, LastIsSavedStep, TrainedStep DEF CountInv
<1> QED BY TypeInvariant, <1>1, <1>2, PTL DEF Spec

\* What a training that ends by itself has trained is saved.
THEOREM LastStepIsSaved == Spec => []EndIsSaved
<1>1. CountInv => EndIsSaved
  BY DEF CountInv, LastIsSaved, EndIsSaved
<1> QED BY <1>1, CountInvariant, PTL

-----------------------------------------------------------------------------
(* With dynamic sampling, no batch is trained on twice. *)

BatchesOf(samples) == {samples[i].batch : i \in DOMAIN samples}
Seen(steps) == UNION {steps[i] : i \in DOMAIN steps}
Disjoint(steps) == \A i, j \in DOMAIN steps : i # j => steps[i] \cap steps[j] = {}

\* The batches before a place of the dataloader.
Behind(e, p) == {b \in Batch : b[1] < e \/ (b[1] = e /\ b[2] < p)}

\* The dataloader is past every batch that was trained on or is at hand, and no
\* batch at hand was trained on before its step is.
FrontierInv ==
    /\ Seen(trained) \cup BatchesOf(rows) \cup BatchesOf(cache) \subseteq Behind(epoch, position)
    /\ ~AfterTrain /\ phase # "down" =>
           Seen(trained) \cap (BatchesOf(rows) \cup BatchesOf(cache)) = {}
    /\ Disjoint(trained)
    /\ Seen(saved.trained) \subseteq Behind(saved.epoch, saved.position)
    /\ Disjoint(saved.trained)

\* The batches at hand after a selection were at hand before it.
LEMMA PoolBatches ==
    ASSUME TypeInv, Select \/ SelectMore
    PROVE  BatchesOf(rows') \cup BatchesOf(cache') \subseteq BatchesOf(rows) \cup BatchesOf(cache)
<1> DEFINE B == BatchesOf(rows) \cup BatchesOf(cache)
<1>1. /\ Kept \in Seq(Sample) /\ Pool \in Seq(Sample) /\ cache \in Seq(Sample)
      /\ rows \in Seq(Sample)
  BY KeptFacts, PoolType DEF TypeInv, TypeOK
<1>2. BatchesOf(Kept) \subseteq B
  <2>1. \A n \in DOMAIN Kept : \E i \in DOMAIN rows : Kept[n] = rows[i]
    BY <1>1, KeptFacts
  <2> QED BY <2>1 DEF BatchesOf
<1>3. BatchesOf(<< >>) \subseteq B
  BY DEF BatchesOf
<1>4. BatchesOf(cache \o Kept) \subseteq B
  <2> DEFINE t == cache \o Kept
  <2>1. /\ Len(cache) \in Nat /\ DOMAIN cache = 1..Len(cache)
        /\ Len(Kept) \in Nat /\ DOMAIN Kept = 1..Len(Kept)
    BY <1>1, LenProperties
  <2>2. t \in Seq(Sample) /\ Len(t) = Len(cache) + Len(Kept)
    BY <1>1, ConcatProperties
  <2>3. DOMAIN t = 1..(Len(cache) + Len(Kept))
    BY <2>2, LenProperties
  <2>4. \A i \in DOMAIN t : t[i] = IF i <= Len(cache) THEN cache[i] ELSE Kept[i - Len(cache)]
    BY <1>1, <2>3, ConcatProperties
  <2> HIDE DEF t
  <2>5. ASSUME NEW i \in DOMAIN t
        PROVE  \/ \E j \in DOMAIN cache : t[i] = cache[j]
               \/ \E j \in DOMAIN Kept : t[i] = Kept[j]
    <3>1. CASE i <= Len(cache)
      BY <2>1, <2>3, <2>4, <3>1
    <3>2. CASE ~(i <= Len(cache))
      <4>1. i - Len(cache) \in DOMAIN Kept /\ t[i] = Kept[i - Len(cache)]
        BY <2>1, <2>3, <2>4, <3>2
      <4> QED BY <4>1
    <3> QED BY <3>1, <3>2
  <2>6. BatchesOf(t) \subseteq BatchesOf(cache) \cup BatchesOf(Kept)
    BY <2>5 DEF BatchesOf
  <2> QED BY <1>2, <2>6 DEF t
<1>5. BatchesOf(Pool) \subseteq B
  BY <1>3, <1>4 DEF Pool
<1>6. CASE Select
  <2>1. CASE config.dynamic
    <3>1. TrainSize \in Nat /\ Len(Pool) >= TrainSize
      BY <1>6, <2>1, Numbers DEF Select, TrainSize
    <3>2. /\ SubSeq(Pool, 1, TrainSize) \in Seq(Sample)
          /\ Len(SubSeq(Pool, 1, TrainSize)) = TrainSize
          /\ \A i \in 1..TrainSize : SubSeq(Pool, 1, TrainSize)[i] = Pool[i]
      BY <1>1, <3>1, SelectedType
    <3>3. DOMAIN SubSeq(Pool, 1, TrainSize) = 1..TrainSize /\ 1..TrainSize \subseteq DOMAIN Pool
      <4>1. DOMAIN Pool = 1..Len(Pool) /\ Len(Pool) \in Nat
        BY <1>1, LenProperties
      <4> QED BY <3>1, <3>2, <4>1, LenProperties
    <3>4. BatchesOf(SubSeq(Pool, 1, TrainSize)) \subseteq BatchesOf(Pool)
      BY <3>2, <3>3 DEF BatchesOf
    <3>5. rows' = SubSeq(Pool, 1, TrainSize) /\ cache' = Pool
      BY <1>6, <2>1 DEF Select
    <3> QED BY <1>5, <3>4, <3>5
  <2>2. CASE ~config.dynamic
    BY <1>6, <2>2 DEF Select
  <2> QED BY <2>1, <2>2
<1>7. CASE SelectMore
  <2>1. rows' = << >> /\ (cache' = cache \/ cache' = Pool)
    BY <1>7 DEF SelectMore
  <2> QED BY <1>3, <1>5, <2>1
<1> QED BY <1>6, <1>7

\* The dataloader only moves on.
LEMMA BehindGrows ==
    ASSUME NEW e \in Nat, NEW p \in 0..NumBatches
    PROVE  /\ Behind(e, p) \subseteq Behind(e, p + 1) /\ Behind(e, p) \subseteq Behind(e + 1, 0)
           /\ <<e, p>> \notin Behind(e, p)
           /\ <<e, p>> \in Batch => <<e, p>> \in Behind(e, p + 1)
BY Numbers DEF Behind, Batch

LEMMA NoBatches == BatchesOf(<< >>) = {} /\ Seen(<< >>) = {} /\ Disjoint(<< >>)
BY DEF BatchesOf, Seen, Disjoint

\* One step more.
LEMMA SeenAppend ==
    ASSUME NEW steps \in Seq(SUBSET Batch), NEW b \in SUBSET Batch
    PROVE  /\ Seen(Append(steps, b)) = Seen(steps) \cup b
           /\ Disjoint(steps) /\ Seen(steps) \cap b = {} => Disjoint(Append(steps, b))
<1> DEFINE t == Append(steps, b)
<1>1. /\ Len(steps) \in Nat /\ DOMAIN steps = 1..Len(steps)
      /\ DOMAIN t = 1..(Len(steps) + 1)
      /\ t[Len(steps) + 1] = b /\ \A i \in 1..Len(steps) : t[i] = steps[i]
  BY LenProperties, AppendProperties
<1> HIDE DEF t
<1>2. \A i \in DOMAIN t : i \in DOMAIN steps \/ i = Len(steps) + 1
  BY <1>1
<1>3. DOMAIN steps \subseteq DOMAIN t /\ Len(steps) + 1 \in DOMAIN t
  BY <1>1
<1>4. Seen(t) = Seen(steps) \cup b
  BY <1>1, <1>2, <1>3 DEF Seen
<1>5. ASSUME Disjoint(steps), Seen(steps) \cap b = {} PROVE Disjoint(t)
  <2>1. \A i \in DOMAIN steps : steps[i] \cap b = {}
    BY <1>5 DEF Seen
  <2> QED BY <1>1, <1>2, <1>5, <2>1 DEF Disjoint
<1> QED BY <1>4, <1>5 DEF t

LEMMA FrontierStep == ASSUME TypeInv, FrontierInv, [Next]_vars PROVE FrontierInv'
<1> USE NoBatches
       DEF PurposeFits, PhaseFits, InBatch, AfterBatch, Refitting, AfterTrain, FrontierInv, Goto,
           unmoved, counters, sampling, job, TypeInv
<1>1. CASE TakeBatch
  <2>1. BatchesOf(rows') = {<<epoch, position>>}
    BY <1>1, BatchTaken DEF BatchesOf
  <2>2. epoch \in Nat /\ position \in 0..NumBatches /\ <<epoch, position>> \in Batch
    BY DEF TypeOK, Batch
  <2>3. /\ UNCHANGED <<epoch, cache, trained, saved>> /\ position' = position + 1
        /\ phase = "batch" /\ ~AfterTrain
    BY <1>1 DEF TakeBatch
  <2>4. /\ Behind(epoch, position) \subseteq Behind(epoch, position + 1)
        /\ <<epoch, position>> \notin Behind(epoch, position)
        /\ <<epoch, position>> \in Behind(epoch, position + 1)
    BY <2>2, BehindGrows
  <2>5. Seen(trained) \cap (BatchesOf(rows') \cup BatchesOf(cache)) = {}
    BY <2>1, <2>3, <2>4
  <2>6. Seen(trained) \cup BatchesOf(rows') \cup BatchesOf(cache)
           \subseteq Behind(epoch, position + 1)
    BY <2>1, <2>4
  <2> QED BY <2>3, <2>5, <2>6
<1>2. CASE Rollout
  <2>1. BatchesOf(rows') = BatchesOf(rows)
    BY <1>2, BatchRolledOut DEF BatchesOf
  <2> QED BY <1>2, <2>1 DEF Rollout
<1>3. CASE Select \/ SelectMore
  <2>1. UNCHANGED <<epoch, position, trained, saved>> /\ phase = "select"
    BY <1>3 DEF Select, SelectMore
  <2> QED BY <1>3, <2>1, PoolBatches
<1>4. CASE Train
  <2>1. BatchesOf(rows) \in SUBSET Batch /\ trained \in Seq(SUBSET Batch)
    BY DEF TypeOK, Behind
  <2>2. trained' = Append(trained, BatchesOf(rows)) /\ phase = "train"
    BY <1>4 DEF Train, BatchesOf
  <2>3. UNCHANGED <<rows, cache, epoch, position, saved>> /\ AfterTrain'
    BY <1>4 DEF Train
  <2> QED BY <2>1, <2>2, <2>3, SeenAppend
<1>5. CASE SaveCheckpoint
  BY <1>5 DEF SaveCheckpoint, CheckpointWith, saving
<1>6. CASE SaveSupervised
  BY <1>6 DEF SaveSupervised, CheckpointWith, saving
<1>7. CASE Advance
  BY <1>7 DEF Advance
<1>8. CASE Launch
  BY <1>8 DEF Launch, LaunchFrom
<1>9. CASE EndEpoch
  <2>1. epoch \in Nat /\ position \in 0..NumBatches
    BY Numbers DEF TypeOK
  <2>2. Behind(epoch, position) \subseteq Behind(epoch + 1, 0)
    BY <2>1, BehindGrows
  <2> QED BY <1>9, <2>2 DEF EndEpoch
<1>10. CASE Start
  BY <1>10 DEF Start
<1>11. CASE StartSupervised
  BY <1>11 DEF StartSupervised
<1>12. CASE BeginEpoch
  BY <1>12 DEF BeginEpoch
<1>13. CASE BeginRefit
  BY <1>13 DEF BeginRefit
<1>14. CASE TransferWeights
  BY <1>14 DEF TransferWeights
<1>15. CASE EndRefit
  BY <1>15 DEF EndRefit, Generating
<1>16. CASE WakeEngine
  BY <1>16 DEF WakeEngine, EngineIsCurrent, Generating
<1>17. CASE WakeStudentEngine
  BY <1>17 DEF WakeStudentEngine, EngineIsCurrent, Generating
<1>18. CASE ComputeLogprobs
  BY <1>18 DEF ComputeLogprobs
<1>19. CASE TeacherLogprobs
  BY <1>19 DEF TeacherLogprobs
<1>20. CASE PrepareTraining
  BY <1>20 DEF PrepareTraining
<1>21. CASE Validate
  BY <1>21 DEF Validate, AfterValidation
<1>22. CASE ValidateSupervised
  BY <1>22 DEF ValidateSupervised, AfterValidation
<1>23. CASE DecideCheckpoint
  BY <1>23 DEF DecideCheckpoint
<1>24. CASE Kill
  BY <1>24 DEF Kill
<1>25. CASE UNCHANGED vars
  BY <1>25 DEF vars
<1> QED BY <1>1, <1>2, <1>3, <1>4, <1>5, <1>6, <1>7, <1>8, <1>9, <1>10, <1>11, <1>12, <1>13,
           <1>14, <1>15, <1>16, <1>17, <1>18, <1>19, <1>20, <1>21, <1>22, <1>23, <1>24, <1>25
   DEF Next, Loop

LEMMA FrontierInvariant == Spec => []FrontierInv
<1>1. Init => FrontierInv
  BY NoBatches DEF Init, Nothing, FrontierInv
<1>2. TypeInv /\ FrontierInv /\ [Next]_vars => FrontierInv'
  BY FrontierStep
<1> QED BY TypeInvariant, <1>1, <1>2, PTL DEF Spec

\* Where a training without dynamic sampling ends.
LEMMA EndsAfterAllSteps ==
    ASSUME TypeInv, CountersFit, WithinLimit, LastIsSaved, phase = "finished"
    PROVE  total = AllSteps
<1>1. total = Place(epoch, position) /\ epoch \in 0..MaxEpochs /\ position \in 0..NumBatches
  BY DEF CountersFit, InStep, Refitting, InBatch, AfterBatch, TypeInv, TypeOK
<1> DEFINE all == NumBatches * MaxEpochs
<1>2. all \in Nat /\ MaxSteps \in Nat /\ total \in Nat
  BY Numbers DEF TypeInv, TypeOK
<1>3. CASE epoch = MaxEpochs /\ position = 0
  <2>1. total = all
    BY <1>1, <1>3, Numbers DEF Place
  <2>2. ~config.unlimited => total <= MaxSteps
    BY DEF WithinLimit
  <2> QED BY <1>2, <2>1, <2>2 DEF AllSteps
<1>4. CASE epoch < MaxEpochs /\ AtLimit(total)
  <2>1. ~config.unlimited /\ total = MaxSteps
    BY <1>2, <1>4 DEF AtLimit, WithinLimit
  <2>2. (epoch + 1) * NumBatches <= MaxEpochs * NumBatches
    BY <1>1, <1>4, Numbers
  <2>3. (epoch + 1) * NumBatches = epoch * NumBatches + NumBatches
        /\ epoch * NumBatches \in Nat /\ MaxEpochs * NumBatches = all
    BY <1>1, Numbers
  <2>4. total <= all
    BY <1>1, <1>2, <2>2, <2>3, Numbers DEF Place
  <2> QED BY <1>2, <2>1, <2>4 DEF AllSteps
<1> QED BY <1>3, <1>4 DEF LastIsSaved

\* No launch, timeout, end of an epoch or cache of dynamic sampling makes a step
\* train on a batch again, or leaves one out.
THEOREM BatchesAreTrainedOnce == Spec => []EveryBatchOnce
<1>1. TypeInv /\ CountInv /\ FrontierInv => EveryBatchOnce
  <2> SUFFICES ASSUME TypeInv, CountInv, FrontierInv PROVE EveryBatchOnce
    OBVIOUS
  <2>1. CASE config.dynamic
    BY <2>1 DEF EveryBatchOnce, FrontierInv, Disjoint
  <2>2. CASE ~config.dynamic
    <3>1. phase \in {"batch", "finished"} => trained = TrainedOn(total)
      BY <2>2 DEF CountInv, TrainedFits, AfterTrain, AfterBatch, Refitting
    <3>2. phase = "finished" => total = AllSteps
      BY <2>2, EndsAfterAllSteps DEF CountInv
    <3> QED BY <2>2, <3>1, <3>2 DEF EveryBatchOnce, TrainedOn
  <2> QED BY <2>1, <2>2
<1> QED BY <1>1, TypeInvariant, CountInvariant, FrontierInvariant, PTL

-----------------------------------------------------------------------------
(* The groups of dynamic sampling. *)

\* The samples of a prompt follow one another: which group sample i is in.
Group(i) == (i - 1) \div NumGenerations

\* Whole groups one after the other, of different prompts, each with one reward count.
Grouped(samples) ==
    /\ \E n \in 0..Len(samples) : Len(samples) = n * NumGenerations
    /\ \A i \in DOMAIN samples : samples[i].sample = 1 + ((i - 1) % NumGenerations)
    /\ \A i, j \in DOMAIN samples :
          /\ Group(i) = Group(j) <=>
                samples[i].batch = samples[j].batch /\ samples[i].prompt = samples[j].prompt
          /\ Group(i) = Group(j) => samples[i].ones = samples[j].ones

AllVary(samples) == \A i \in DOMAIN samples : Varies(samples[i].ones, NumGenerations)

\* The batch at hand is as the dataloader gave it, with a reward count per prompt.
RowsNumbered ==
    /\ DOMAIN rows = 1..(PerBatch * NumGenerations)
    /\ \A i \in DOMAIN rows :
          /\ rows[i].batch = <<epoch, position - 1>> /\ rows[i].prompt = 1 + Group(i)
          /\ rows[i].sample = 1 + ((i - 1) % NumGenerations)
    /\ \A i, j \in DOMAIN rows : rows[i].prompt = rows[j].prompt => rows[i].ones = rows[j].ones

BeforeSelect == phase \in Refitting \cup {"rollout", "select"} /\ purpose = "rollout"

\* The cache is whole groups of batches before the one at hand, and so is what a
\* step trains on.
GroupsInv ==
    config.dynamic /\ ~config.leaveOneOut =>
        /\ BeforeSelect => RowsNumbered /\ <<epoch, position - 1>> \notin BatchesOf(cache)
        /\ BeforeSelect \/ phase = "batch" => Grouped(cache) /\ AllVary(cache)
        /\ phase \in {"logprobs", "prepareTraining", "train"} =>
               Grouped(rows) /\ AllVary(rows) /\ Len(rows) = TrainSize

LEMMA GroupFacts ==
    ASSUME NEW i \in Nat \ {0}
    PROVE  /\ Group(i) \in Nat /\ (i - 1) % NumGenerations \in 0..(NumGenerations - 1)
           /\ i = Group(i) * NumGenerations + ((i - 1) % NumGenerations) + 1
<1> DEFINE q == (i - 1) \div NumGenerations
           r == (i - 1) % NumGenerations
<1>1. i - 1 \in Nat
  OBVIOUS
<1>2. q \in Nat /\ r \in 0..(NumGenerations - 1) /\ i - 1 = NumGenerations * q + r
  BY <1>1, Numbers, Division
<1> HIDE DEF q, r
<1>3. NumGenerations * q = q * NumGenerations /\ q * NumGenerations \in Nat
  BY <1>2, Numbers
<1>4. i = q * NumGenerations + r + 1
  BY <1>2, <1>3
<1> QED BY <1>2, <1>4 DEF Group, q, r

\* The place of a sample is known by its group and its number in the group.
LEMMA GroupOf ==
    ASSUME NEW q \in Nat, NEW r \in 1..NumGenerations
    PROVE  /\ q * NumGenerations + r \in Nat \ {0} /\ Group(q * NumGenerations + r) = q
           /\ ((q * NumGenerations + r) - 1) % NumGenerations = r - 1
<1>1. r - 1 \in 0..(NumGenerations - 1) /\ q * NumGenerations \in Nat
  BY Numbers
<1>2. (q * NumGenerations + r) - 1 = q * NumGenerations + (r - 1)
  BY <1>1
<1> QED BY <1>1, <1>2, Numbers, Quotient DEF Group

\* A group before another ends before it.
LEMMA GroupOrder ==
    ASSUME NEW i \in Nat \ {0}, NEW q \in Nat
    PROVE  Group(i) < q <=> i <= q * NumGenerations
<1> DEFINE g == Group(i)
           G == NumGenerations
           r == (i - 1) % NumGenerations
<1>1. g \in Nat /\ r \in 0..(G - 1) /\ i = g * G + r + 1 /\ G \in Nat \ {0}
  BY GroupFacts, Numbers
<1> HIDE DEF g, G, r
<1>2. g * G \in Nat /\ q * G \in Nat /\ (g + 1) * G = g * G + G
  BY <1>1
<1>3. ASSUME g < q PROVE i <= q * G
  <2>1. (g + 1) * G <= q * G
    BY <1>1, <1>3
  <2> QED BY <1>1, <1>2, <2>1
<1>4. ASSUME ~(g < q) PROVE ~(i <= q * G)
  <2>1. q * G <= g * G
    BY <1>1, <1>4
  <2> QED BY <1>1, <1>2, <2>1
<1> QED BY <1>3, <1>4 DEF g, G

\* A subset of 1..p*n that is made of whole groups: its m-th element is in the
\* same place of its group as m is, and the groups keep their order.
LEMMA RankInGroups ==
    ASSUME NEW p \in Nat, NEW K \in SUBSET (1..(p * NumGenerations)),
           \A i, j \in 1..(p * NumGenerations) : Group(i) = Group(j) => (i \in K <=> j \in K)
    PROVE  /\ \E n \in Nat : Cardinality(K) = n * NumGenerations
           /\ \A n \in 1..Cardinality(K) :
                 (n - 1) % NumGenerations = (Nth(K, n) - 1) % NumGenerations
           /\ \A m, n \in 1..Cardinality(K) :
                 Group(m) = Group(n) <=> Group(Nth(K, m)) = Group(Nth(K, n))
<1> DEFINE G == NumGenerations
           whole(q) == {b \in 0..(q - 1) : b * G + 1 \in K}
           below(q) == {k \in K : Group(k) < q}
<1>1. G \in Nat \ {0} /\ p * G \in Nat
  BY Numbers
<1>2. K \subseteq Nat \ {0} /\ K \in SUBSET Nat /\ IsFiniteSet(K)
  <2>1. IsFiniteSet(1..(p * G))
    BY <1>1, FS_Interval
  <2>2. 1..(p * G) \subseteq Nat \ {0} /\ 1..(p * G) \subseteq Nat
    BY <1>1
  <2>3. IsFiniteSet(K)
    BY <2>1, FS_Subset
  <2> QED BY <2>2, <2>3
<1>3. Cardinality(K) \in Nat
  BY <1>2, FS_CardinalityType
<1>4. ASSUME NEW q \in Nat PROVE IsFiniteSet(whole(q)) /\ Cardinality(whole(q)) \in Nat
  <2>1. IsFiniteSet(0..(q - 1))
    BY FS_Interval
  <2> QED BY <2>1, FS_Subset, FS_CardinalityType
<1>5. ASSUME NEW q \in 0..p
      PROVE  IsFiniteSet(below(q)) /\ Cardinality(below(q)) = Cardinality(whole(q)) * G
  <2> DEFINE D == whole(q) \X (1..G)
             f == [x \in D |-> x[1] * G + x[2]]
  <2>1. ASSUME NEW b \in whole(q), NEW r \in 1..G
        PROVE  b * G + r \in below(q) /\ Group(b * G + r) = b /\ ((b * G + r) - 1) % G = r - 1
    <3>1. b \in Nat /\ b < q /\ b * G + 1 \in K
      OBVIOUS
    <3>2. /\ b * G + r \in Nat \ {0} /\ Group(b * G + r) = b
          /\ ((b * G + r) - 1) % G = r - 1
      BY <3>1, GroupOf
    <3>3. Group(b * G + 1) = b
      BY <1>1, <3>1, GroupOf
    <3>4. b * G + r <= p * G
      BY <3>1, <3>2, GroupOrder
    <3>5. b * G + r \in K
      BY <1>1, <3>1, <3>2, <3>3, <3>4
    <3> QED BY <3>1, <3>2, <3>5
  <2>2. f \in [D -> below(q)]
    BY <2>1
  <2>3. ASSUME NEW x \in D, NEW y \in D, f[x] = f[y] PROVE x = y
    <3>1. PICK b \in whole(q), r \in 1..G : x = <<b, r>>
      OBVIOUS
    <3>2. PICK c \in whole(q), t \in 1..G : y = <<c, t>>
      OBVIOUS
    <3>3. b * G + r = c * G + t
      BY <2>3, <3>1, <3>2
    <3>6. Group(b * G + r) = b /\ ((b * G + r) - 1) % G = r - 1
      BY <2>1
    <3>7. Group(c * G + t) = c /\ ((c * G + t) - 1) % G = t - 1
      BY <2>1
    <3>4. b = c
      BY <3>3, <3>6, <3>7
    <3>8. r - 1 = t - 1
      <4> DEFINE m == b * G + r
                 n == c * G + t
      <4>1. m = n /\ (m - 1) % G = r - 1 /\ (n - 1) % G = t - 1
        BY <3>3, <3>6, <3>7, Zenon
      <4> HIDE DEF m, n, G
      <4> QED BY <4>1, Zenon
    <3>5. r = t
      BY <1>1, <3>8
    <3> QED BY <3>1, <3>2, <3>4, <3>5
  <2>4. ASSUME NEW k \in below(q) PROVE \E x \in D : f[x] = k
    <3> DEFINE b == Group(k)
               r == ((k - 1) % G) + 1
    <3>1. k \in K /\ k \in Nat \ {0} /\ b < q
      BY <1>2
    <3>2. b \in Nat /\ r \in 1..G /\ k = b * G + r
      BY <1>1, <3>1, GroupFacts
    <3>3. b * G + 1 \in 1..(p * G) /\ Group(b * G + 1) = b
      <4>1. b * G + 1 \in Nat \ {0} /\ Group(b * G + 1) = b
        BY <1>1, <3>2, GroupOf
      <4>2. b * G + 1 <= p * G
        BY <3>1, <3>2, <4>1, GroupOrder
      <4> QED BY <1>1, <4>1, <4>2
    <3>4. b * G + 1 \in K
      BY <3>1, <3>3
    <3>5. b \in whole(q)
      BY <3>1, <3>2, <3>4
    <3>6. <<b, r>> \in D /\ f[<<b, r>>] = k
      BY <3>2, <3>5
    <3> QED BY <3>6
  <2>5. f \in Bijection(D, below(q))
    BY <2>2, <2>3, <2>4, Fun_IsBij
  <2>6. IsFiniteSet(D) /\ Cardinality(D) = Cardinality(whole(q)) * G
    <3>1. IsFiniteSet(1..G) /\ Cardinality(1..G) = G
      BY <1>1, FS_Interval
    <3>2. IsFiniteSet(whole(q))
      BY <1>4
    <3> QED BY <3>1, <3>2, FS_Product
  <2> HIDE DEF D, f
  <2> QED BY <2>5, <2>6, FS_Bijection DEF ExistsBijection
<1>6. ASSUME NEW i \in K
      PROVE  Cardinality({k \in K : k < i}) = Cardinality(whole(Group(i))) * G + ((i - 1) % G)
  <2> DEFINE q == Group(i)
             r == (i - 1) % G
  <2>9. i \in Nat \ {0} /\ q \in Nat /\ r \in 0..(G - 1) /\ i = q * G + r + 1
    BY <1>2, GroupFacts
  <2>1. i \in Nat \ {0} /\ q \in Nat /\ r \in 0..(G - 1) /\ i = q * G + r + 1 /\ q * G \in Nat
    BY <1>1, <2>9
  <2>2. q \in 0..p
    <3>1. i <= p * G
      BY <1>1
    <3>2. q < p
      BY <2>1, <3>1, GroupOrder
    <3> QED BY <2>1, <3>2
  <2>3. ASSUME NEW k \in (q * G + 1)..(i - 1) PROVE k \in K /\ k < i /\ ~(Group(k) < q)
    <3>1. k \in Nat \ {0} /\ k - q * G \in 1..G /\ k = q * G + (k - q * G)
      BY <1>1, <2>1
    <3>2. Group(k) = q
      BY <2>1, <3>1, GroupOf
    <3>3. k \in 1..(p * G)
      BY <1>1, <2>1, <3>1
    <3> QED BY <2>1, <3>1, <3>2, <3>3
  <2>4. {k \in K : k < i} = below(q) \cup ((q * G + 1)..(i - 1))
    <3>1. ASSUME NEW k \in K, k < i, ~(Group(k) < q) PROVE k \in (q * G + 1)..(i - 1)
      <4>1. k \in Nat \ {0} /\ ~(k <= q * G)
        BY <1>2, <2>1, <3>1, GroupOrder
      <4> QED BY <2>1, <3>1, <4>1
    <3>2. ASSUME NEW k \in K, Group(k) < q PROVE k < i
      <4>1. k \in Nat \ {0} /\ k <= q * G
        BY <1>2, <2>1, <3>2, GroupOrder
      <4> QED BY <2>1, <4>1
    <3> HIDE DEF q
    <3> QED BY <2>3, <3>1, <3>2
  <2>5. below(q) \cap ((q * G + 1)..(i - 1)) = {}
    BY <2>3
  <2>6. /\ IsFiniteSet((q * G + 1)..(i - 1)) /\ Cardinality((q * G + 1)..(i - 1)) = r
    <3>1. \A a, b \in Int : /\ IsFiniteSet(a..b)
                            /\ Cardinality(a..b) = IF a > b THEN 0 ELSE b - a + 1
      BY FS_Interval
    <3>2. q * G + 1 \in Int /\ i - 1 \in Int /\ (i - 1) - (q * G + 1) + 1 = r /\ r \in Nat
      BY <1>1, <2>1
    <3> HIDE DEF q, r
    <3>3. q * G + 1 > i - 1 => r = 0
      BY <1>1, <2>1
    <3> QED BY <3>1, <3>2, <3>3
  <2>7. IsFiniteSet(below(q)) /\ Cardinality(below(q)) = Cardinality(whole(q)) * G
    BY <1>5, <2>2
  <2>8. Cardinality(below(q) \cup ((q * G + 1)..(i - 1))) = Cardinality(whole(q)) * G + r
    <3>1. Cardinality(below(q)) \in Nat
      BY <2>7, FS_CardinalityType
    <3> HIDE DEF below, whole, q, r
    <3>2. Cardinality(below(q) \cap ((q * G + 1)..(i - 1))) = 0
      BY <2>5, FS_EmptySet
    <3>3. Cardinality(below(q) \cup ((q * G + 1)..(i - 1)))
             = Cardinality(below(q)) + r - Cardinality(below(q) \cap ((q * G + 1)..(i - 1)))
      BY <2>6, <2>7, FS_Union
    <3> QED BY <2>1, <2>7, <3>1, <3>2, <3>3
  <2> QED BY <2>4, <2>8
<1>7. ASSUME NEW n \in 1..Cardinality(K)
      PROVE  /\ Nth(K, n) \in K
             /\ Group(n) = Cardinality(whole(Group(Nth(K, n))))
             /\ (n - 1) % G = (Nth(K, n) - 1) % G
  <2> DEFINE i == Nth(K, n)
  <2>1. i \in K /\ Cardinality({k \in K : k < i}) = n - 1
    BY <1>2, NthElement
  <2> HIDE DEF i
  <2>2. n - 1 = Cardinality(whole(Group(i))) * G + ((i - 1) % G)
    BY <1>6, <2>1
  <2>3. Group(i) \in Nat /\ (i - 1) % G \in 0..(G - 1)
    BY <1>2, <2>1, GroupFacts
  <2>4. Cardinality(whole(Group(i))) \in Nat
    BY <1>4, <2>3
  <2> HIDE DEF whole
  <2> QED BY <1>1, <2>1, <2>2, <2>3, <2>4, Quotient DEF Group, i
<1>8. ASSUME NEW i \in K, NEW j \in K, Group(i) < Group(j)
      PROVE  Cardinality(whole(Group(i))) < Cardinality(whole(Group(j)))
  <2> DEFINE q == Group(i)
  <2>1. q \in Nat /\ Group(j) \in Nat
    BY <1>2, GroupFacts
  <2>2. q * G + 1 \in K
    <3>1. q * G + 1 \in Nat \ {0} /\ Group(q * G + 1) = q
      BY <1>1, <2>1, GroupOf
    <3>2. q * G + 1 <= i
      BY <1>1, <1>2, GroupFacts
    <3>3. q * G + 1 \in 1..(p * G) /\ i \in 1..(p * G)
      BY <1>1, <1>2, <3>1, <3>2
    <3> QED BY <3>1, <3>3
  <2>3. whole(q) \cup {q} \subseteq whole(Group(j)) /\ q \notin whole(q)
    BY <1>8, <2>1, <2>2
  <2>4. Cardinality(whole(q) \cup {q}) = Cardinality(whole(q)) + 1
    BY <1>4, <2>1, <2>3, FS_AddElement
  <2>5. Cardinality(whole(q) \cup {q}) <= Cardinality(whole(Group(j)))
    BY <1>4, <2>1, <2>3, FS_Subset
  <2>6. Cardinality(whole(q)) \in Nat /\ Cardinality(whole(Group(j))) \in Nat
    BY <1>4, <2>1
  <2>7. Cardinality(whole(q)) + 1 <= Cardinality(whole(Group(j)))
    BY <2>4, <2>5
  <2> HIDE DEF whole
  <2> QED BY <2>6, <2>7
<1>9. \A m, n \in 1..Cardinality(K) :
         Group(m) = Group(n) <=> Group(Nth(K, m)) = Group(Nth(K, n))
  <2> SUFFICES ASSUME NEW m \in 1..Cardinality(K), NEW n \in 1..Cardinality(K)
               PROVE  Group(m) = Group(n) <=> Group(Nth(K, m)) = Group(Nth(K, n))
    OBVIOUS
  <2> DEFINE i == Nth(K, m)
             j == Nth(K, n)
  <2>1. i \in K /\ j \in K /\ Group(m) = Cardinality(whole(Group(i)))
        /\ Group(n) = Cardinality(whole(Group(j)))
    BY <1>7
  <2> HIDE DEF i, j
  <2>2. Group(i) \in Nat /\ Group(j) \in Nat
    BY <1>2, <2>1, GroupFacts
  <2>3. Cardinality(whole(Group(i))) \in Nat /\ Cardinality(whole(Group(j))) \in Nat
    BY <1>4, <2>2
  <2> HIDE DEF whole
  <2>4. CASE Group(i) = Group(j)
    BY <2>1, <2>4 DEF i, j
  <2>5. CASE Group(i) < Group(j)
    <3>1. Group(m) < Group(n)
      BY <1>8, <2>1, <2>5
    <3> QED BY <2>1, <2>2, <2>3, <2>5, <3>1 DEF i, j
  <2>6. CASE Group(j) < Group(i)
    <3>1. Group(n) < Group(m)
      BY <1>8, <2>1, <2>6
    <3> QED BY <2>1, <2>2, <2>3, <2>6, <3>1 DEF i, j
  <2> QED BY <2>2, <2>4, <2>5, <2>6
<1>10. \E n \in Nat : Cardinality(K) = n * G
  <2>1. below(p) = K
    <3>1. ASSUME NEW k \in K PROVE Group(k) < p
      BY <1>1, <1>2, GroupOrder
    <3> QED BY <3>1
  <2>2. p \in 0..p
    OBVIOUS
  <2> QED BY <1>4, <1>5, <2>1, <2>2
<1> QED BY <1>7, <1>9, <1>10

\* What is kept of a batch is whole groups of two rewards.
LEMMA KeptGrouped ==
    ASSUME TypeInv, config.dynamic, ~config.leaveOneOut, RowsNumbered
    PROVE  Grouped(Kept) /\ AllVary(Kept) /\ BatchesOf(Kept) \subseteq {<<epoch, position - 1>>}
<1> DEFINE K == KeptIndices
           size == PerBatch * NumGenerations
<1>1. /\ DOMAIN rows = 1..size
      /\ \A i \in 1..size :
            /\ rows[i].batch = <<epoch, position - 1>> /\ rows[i].prompt = 1 + Group(i)
            /\ rows[i].sample = 1 + ((i - 1) % NumGenerations)
      /\ \A i, j \in 1..size : rows[i].prompt = rows[j].prompt => rows[i].ones = rows[j].ones
  BY DEF RowsNumbered
<1>2. \A i \in 1..size : i \in Nat \ {0} /\ Group(i) \in Nat
  BY GroupFacts
<1>3. \A i, j \in 1..size : Group(i) = Group(j) <=> rows[i].prompt = rows[j].prompt
  BY <1>1, <1>2
<1>4. K \subseteq 1..size /\ \A i \in 1..size : i \in K <=> Varies(rows[i].ones, NumGenerations)
  BY <1>1 DEF KeptIndices, NonZeroStd
<1>5. \A i, j \in 1..size : Group(i) = Group(j) => (i \in K <=> j \in K)
  BY <1>1, <1>3, <1>4
<1>6. PerBatch \in Nat
  BY ConfigFacts DEF TypeInv, TypeOK
<1>7. /\ Kept \in Seq(Sample) /\ DOMAIN Kept = 1..Cardinality(K)
      /\ \A n \in 1..Cardinality(K) : Nth(K, n) \in K /\ Kept[n] = rows[Nth(K, n)]
  BY KeptFacts DEF TypeInv, TypeOK
<1>8. Len(Kept) \in Nat /\ DOMAIN Kept = 1..Len(Kept) /\ Len(Kept) = Cardinality(K)
  <2>1. Len(Kept) \in Nat /\ DOMAIN Kept = 1..Len(Kept)
    BY <1>7, LenProperties
  <2>2. Cardinality(K) \in Nat
    <3>1. size \in Nat /\ IsFiniteSet(1..size)
      BY <1>6, Numbers, FS_Interval
    <3> QED BY <1>4, <3>1, FS_Subset, FS_CardinalityType
  <2> QED BY <1>7, <2>1, <2>2
<1>9. /\ \E n \in Nat : Cardinality(K) = n * NumGenerations
      /\ \A n \in 1..Cardinality(K) :
            (n - 1) % NumGenerations = (Nth(K, n) - 1) % NumGenerations
      /\ \A m, n \in 1..Cardinality(K) :
            Group(m) = Group(n) <=> Group(Nth(K, m)) = Group(Nth(K, n))
  <2> HIDE DEF K
  <2> QED BY <1>4, <1>5, <1>6, RankInGroups
<1> HIDE DEF K, size
<1>10. \E n \in 0..Len(Kept) : Len(Kept) = n * NumGenerations
  <2>1. PICK n \in Nat : Cardinality(K) = n * NumGenerations
    BY <1>9
  <2>2. n <= n * NumGenerations
    BY Numbers
  <2> QED BY <1>8, <2>1, <2>2
<1>11. \A n \in DOMAIN Kept : Kept[n].sample = 1 + ((n - 1) % NumGenerations)
  BY <1>1, <1>4, <1>7, <1>9
<1>12. ASSUME NEW m \in DOMAIN Kept, NEW n \in DOMAIN Kept
       PROVE  /\ Group(m) = Group(n) <=>
                     Kept[m].batch = Kept[n].batch /\ Kept[m].prompt = Kept[n].prompt
              /\ Group(m) = Group(n) => Kept[m].ones = Kept[n].ones
  <2> DEFINE i == Nth(K, m)
             j == Nth(K, n)
  <2>1. i \in 1..size /\ j \in 1..size /\ Kept[m] = rows[i] /\ Kept[n] = rows[j]
    BY <1>4, <1>7
  <2>2. Group(m) = Group(n) <=> Group(i) = Group(j)
    BY <1>7, <1>9
  <2> HIDE DEF i, j
  <2> QED BY <1>1, <1>3, <2>1, <2>2
<1>13. AllVary(Kept) /\ BatchesOf(Kept) \subseteq {<<epoch, position - 1>>}
  <2>1. ASSUME NEW n \in DOMAIN Kept
        PROVE  /\ Varies(Kept[n].ones, NumGenerations)
               /\ Kept[n].batch = <<epoch, position - 1>>
    <3> DEFINE i == Nth(K, n)
    <3>1. i \in K /\ i \in 1..size /\ Kept[n] = rows[i]
      BY <1>4, <1>7
    <3> HIDE DEF i
    <3> QED BY <1>1, <1>4, <3>1
  <2>2. AllVary(Kept)
    BY <2>1 DEF AllVary
  <2>3. BatchesOf(Kept) \subseteq {<<epoch, position - 1>>}
    BY <2>1 DEF BatchesOf
  <2> QED BY <2>2, <2>3
<1> QED BY <1>10, <1>11, <1>12, <1>13 DEF Grouped

LEMMA Distributes ==
    ASSUME NEW a \in Nat, NEW b \in Nat, NEW c \in Nat \ {0}
    PROVE  (a + b) * c = a * c + b * c /\ a * c \in Nat /\ b * c \in Nat /\ a <= a * c
<1>1. (a + b) * c = a * c + b * c
  OBVIOUS
<1>2. a * c \in Nat /\ b * c \in Nat
  OBVIOUS
<1>3. a <= a * c
  OBVIOUS
<1> QED BY <1>1, <1>2, <1>3

\* Groups of other batches may follow groups.
LEMMA ConcatGrouped ==
    ASSUME NEW s \in Seq(Sample), NEW t \in Seq(Sample), Grouped(s), Grouped(t),
           AllVary(s), AllVary(t), BatchesOf(s) \cap BatchesOf(t) = {}
    PROVE  Grouped(s \o t) /\ AllVary(s \o t)
<1> DEFINE u == s \o t
           G == NumGenerations
<1>1. PICK k \in 0..Len(s), l \in 0..Len(t) : Len(s) = k * G /\ Len(t) = l * G
  BY DEF Grouped
<1>2. /\ Len(s) \in Nat /\ DOMAIN s = 1..Len(s) /\ Len(t) \in Nat /\ DOMAIN t = 1..Len(t)
      /\ G \in Nat \ {0} /\ k \in Nat /\ l \in Nat
  BY LenProperties, Numbers
<1>3. u \in Seq(Sample) /\ Len(u) = Len(s) + Len(t)
  BY ConcatProperties
<1>4. DOMAIN u = 1..(Len(s) + Len(t))
  BY <1>3, LenProperties
<1>5. \A i \in DOMAIN u : u[i] = IF i <= Len(s) THEN s[i] ELSE t[i - Len(s)]
  BY <1>4, ConcatProperties
<1> HIDE DEF u
<1>6. ASSUME NEW i \in DOMAIN u
      PROVE  \/ i \in DOMAIN s /\ u[i] = s[i] /\ Group(i) < k
             \/ /\ i - Len(s) \in DOMAIN t /\ u[i] = t[i - Len(s)] /\ ~(Group(i) < k)
                /\ Group(i) = Group(i - Len(s)) + k
                /\ (i - 1) % G = (i - Len(s) - 1) % G
  <2>1. CASE i <= Len(s)
    <3>1. i \in DOMAIN s /\ i \in Nat \ {0}
      BY <1>2, <1>4, <2>1
    <3> QED BY <1>1, <1>2, <1>5, <2>1, <3>1, GroupOrder
  <2>2. CASE ~(i <= Len(s))
    <3> DEFINE j == i - Len(s)
               q == Group(j)
               r == ((j - 1) % G) + 1
    <3>1. j \in DOMAIN t /\ j \in Nat \ {0} /\ i = j + Len(s) /\ i \in Nat \ {0}
      BY <1>2, <1>4, <2>2
    <3>2. u[i] = t[j] /\ ~(Group(i) < k)
      BY <1>1, <1>2, <1>5, <2>2, <3>1, GroupOrder
    <3>3. q \in Nat /\ (j - 1) % G \in 0..(G - 1) /\ j = q * G + ((j - 1) % G) + 1
      BY <3>1, GroupFacts
    <3>4. r \in 1..G /\ j = q * G + r
      <4> DEFINE o == (j - 1) % G
      <4>1. o \in 0..(G - 1) /\ j = q * G + o + 1 /\ r = o + 1
        BY <3>3
      <4>2. q * G \in Nat
        <5> HIDE DEF q, G
        <5> QED BY <1>2, <3>3
      <4> DEFINE m == q * G
      <4> HIDE DEF m, o, q, r, j, G
      <4>3. r \in 1..G /\ j = m + r
        BY <1>2, <4>1, <4>2 DEF m
      <4> QED BY <4>3 DEF m
    <3> HIDE DEF j, q, r
    <3>5. i = (q + k) * G + r /\ q + k \in Nat
      <4>1. (q + k) * G = q * G + k * G /\ q * G \in Nat /\ k * G \in Nat
        BY <1>2, <3>3, Distributes
      <4> HIDE DEF G
      <4> QED BY <1>1, <1>2, <3>1, <3>3, <3>4, <4>1
    <3>6. Group(i) = q + k /\ (i - 1) % G = r - 1
      <4>1. r \in 1..NumGenerations
        BY <3>4
      <4>2. /\ Group((q + k) * NumGenerations + r) = q + k
            /\ (((q + k) * NumGenerations + r) - 1) % NumGenerations = r - 1
        BY <3>5, <4>1, GroupOf
      <4> DEFINE m == (q + k) * G + r
      <4>3. i = m /\ Group(m) = q + k /\ (m - 1) % G = r - 1
        BY <3>5, <4>2, Zenon
      <4> HIDE DEF m, G
      <4> QED BY <4>3, Zenon
    <3>7. (j - 1) % G = r - 1
      <4>1. r \in 1..NumGenerations
        BY <3>4
      <4>2. ((q * NumGenerations + r) - 1) % NumGenerations = r - 1
        BY <3>3, <4>1, GroupOf
      <4> DEFINE m == q * G + r
      <4>3. j = m /\ (m - 1) % G = r - 1
        BY <3>4, <4>2, Zenon
      <4> HIDE DEF m, G
      <4> QED BY <4>3, Zenon
    <3> QED BY <3>1, <3>2, <3>6, <3>7 DEF j, q
  <2> QED BY <2>1, <2>2
<1>7. \E n \in 0..Len(u) : Len(u) = n * G
  <2>1. (k + l) * G = k * G + l * G /\ k * G \in Nat /\ l * G \in Nat
    BY <1>2, Distributes
  <2>2. k + l \in Nat /\ k + l <= (k + l) * G
    BY <1>2, Distributes
  <2> DEFINE n == k + l
  <2>3. Len(u) = n * G /\ n \in 0..Len(u)
    <3> HIDE DEF G
    <3> QED BY <1>1, <1>2, <1>3, <2>1, <2>2
  <2> QED BY <2>3
<1>8. \A i \in DOMAIN u : u[i].sample = 1 + ((i - 1) % G)
  BY <1>6 DEF Grouped
<1>9. ASSUME NEW i \in DOMAIN u, NEW j \in DOMAIN u
      PROVE  /\ Group(i) = Group(j) <=> u[i].batch = u[j].batch /\ u[i].prompt = u[j].prompt
             /\ Group(i) = Group(j) => u[i].ones = u[j].ones
  <2> DEFINE a == i - Len(s)
             b == j - Len(s)
  <2>1. CASE i \in DOMAIN s /\ u[i] = s[i] /\ j \in DOMAIN s /\ u[j] = s[j]
    BY <2>1 DEF Grouped
  <2>2. CASE /\ a \in DOMAIN t /\ u[i] = t[a] /\ Group(i) = Group(a) + k
             /\ b \in DOMAIN t /\ u[j] = t[b] /\ Group(j) = Group(b) + k
    <3>1. Group(a) \in Nat /\ Group(b) \in Nat
      <4>1. a \in Nat \ {0} /\ b \in Nat \ {0}
        BY <1>2, <2>2
      <4> HIDE DEF a, b
      <4> QED BY <4>1, GroupFacts
    <3>2. Group(i) = Group(j) <=> Group(a) = Group(b)
      <4> HIDE DEF a, b
      <4> QED BY <1>2, <2>2, <3>1
    <3>3. /\ Group(a) = Group(b) <=> t[a].batch = t[b].batch /\ t[a].prompt = t[b].prompt
          /\ Group(a) = Group(b) => t[a].ones = t[b].ones
      BY <2>2 DEF Grouped
    <3> HIDE DEF a, b
    <3> QED BY <2>2, <3>2, <3>3
  <2>3. CASE /\ i \in DOMAIN s /\ u[i] = s[i] /\ Group(i) < k
             /\ b \in DOMAIN t /\ u[j] = t[b] /\ ~(Group(j) < k)
    <3>1. s[i].batch # t[b].batch
      BY <2>3 DEF BatchesOf
    <3>2. Group(i) # Group(j)
      BY <2>3
    <3> QED BY <2>3, <3>1, <3>2
  <2>4. CASE /\ j \in DOMAIN s /\ u[j] = s[j] /\ Group(j) < k
             /\ a \in DOMAIN t /\ u[i] = t[a] /\ ~(Group(i) < k)
    <3>1. s[j].batch # t[a].batch
      BY <2>4 DEF BatchesOf
    <3>2. Group(i) # Group(j)
      BY <2>4
    <3> QED BY <2>4, <3>1, <3>2
  <2> QED BY <1>6, <2>1, <2>2, <2>3, <2>4
<1>10. AllVary(u)
  BY <1>6 DEF AllVary
<1> QED BY <1>7, <1>8, <1>9, <1>10 DEF Grouped, u

\* So may a slice that ends with a group.
LEMMA SliceGrouped ==
    ASSUME NEW s \in Seq(Sample), Grouped(s), AllVary(s), NEW n \in Nat,
           n * NumGenerations <= Len(s)
    PROVE  LET slice == SubSeq(s, 1, n * NumGenerations)
           IN  Grouped(slice) /\ AllVary(slice) /\ Len(slice) = n * NumGenerations
<1> DEFINE size == n * NumGenerations
           t == SubSeq(s, 1, size)
<1>1. size \in Nat /\ n <= size /\ Len(s) \in Nat /\ Len(s) >= size
  BY Numbers, LenProperties
<1>2. t \in Seq(Sample) /\ Len(t) = size /\ \A i \in 1..size : t[i] = s[i]
  BY <1>1, SelectedType
<1>3. DOMAIN t = 1..size /\ DOMAIN t \subseteq DOMAIN s
  BY <1>1, <1>2, LenProperties
<1> HIDE DEF t
<1>4. \E m \in 0..Len(t) : Len(t) = m * NumGenerations
  BY <1>1, <1>2
<1> HIDE DEF size
<1>5. Grouped(t) /\ AllVary(t)
  BY <1>2, <1>3, <1>4 DEF Grouped, AllVary
<1> QED BY <1>2, <1>5 DEF t, size

LEMMA EmptyGrouped == Grouped(<< >>) /\ AllVary(<< >>)
<1>1. << >> \in Seq(Sample) /\ Len(<< >>) = 0 /\ DOMAIN << >> = {}
  BY EmptySeq
<1>2. 0 * NumGenerations = 0
  BY Numbers
<1> QED BY <1>1, <1>2 DEF Grouped, AllVary

\* The dataloader gives a batch with its samples numbered.
LEMMA TakenNumbered ==
    ASSUME TypeInv, config.dynamic, TakeBatch
    PROVE  RowsNumbered'
<1> DEFINE zeros == [p \in 1..PerBatch |-> 0]
           size == PerBatch * NumGenerations
<1>1. UNCHANGED <<config, epoch>> /\ position' - 1 = position /\ rows' = RowsOf(zeros)
  <2>1. UNCHANGED <<config, epoch>> /\ position' = position + 1 /\ rows' = RowsOf(zeros)
    BY DEF TakeBatch, job
  <2>2. position \in Nat
    BY PlaceFacts
  <2> QED BY <2>1, <2>2
<1>2. Generations = NumGenerations /\ PerBatch' = PerBatch
  BY <1>1, ConfigFacts DEF TypeInv, TypeOK, Generations, Supervised, PerBatch
<1>3. RowsOf(zeros) = [i \in 1..size |-> Row(1 + Group(i), 1 + ((i - 1) % NumGenerations),
                                             zeros[1 + Group(i)])]
  <2>1. \A i : 1 + (i - 1) \div NumGenerations = 1 + Group(i)
    BY DEF Group
  <2> HIDE DEF zeros
  <2> QED BY <1>2, <2>1 DEF RowsOf
<1> HIDE DEF zeros, size
<1>4. DOMAIN rows' = 1..size
  BY <1>1, <1>3
<1>5. ASSUME NEW i \in DOMAIN rows'
      PROVE  /\ rows'[i].batch = <<epoch', position' - 1>> /\ rows'[i].prompt = 1 + Group(i)
             /\ rows'[i].sample = 1 + ((i - 1) % NumGenerations)
             /\ rows'[i].ones = zeros[rows'[i].prompt]
  BY <1>1, <1>3, <1>4 DEF Row
<1> QED BY <1>2, <1>4, <1>5 DEF RowsNumbered, size

\* A rollout gives the samples of a prompt one reward count.
LEMMA RolledOutNumbered ==
    ASSUME TypeInv, RowsNumbered, Rollout
    PROVE  RowsNumbered'
<1>1. UNCHANGED <<config, epoch, position>> /\ PerBatch' = PerBatch
  BY DEF Rollout, job, counters, PerBatch
<1>2. PICK ones : rows' = [i \in DOMAIN rows |-> [rows[i] EXCEPT !.ones = ones[rows[i].prompt]]]
  BY DEF Rollout
<1>3. \A i \in DOMAIN rows : rows[i] \in Sample
  BY LenProperties, ElementOfSeq DEF TypeInv, TypeOK
<1>4. DOMAIN rows' = DOMAIN rows
  BY <1>2
<1>5. ASSUME NEW i \in DOMAIN rows
      PROVE  /\ rows'[i].batch = rows[i].batch /\ rows'[i].prompt = rows[i].prompt
             /\ rows'[i].sample = rows[i].sample
             /\ rows'[i].ones = ones[rows[i].prompt]
  <2>1. rows'[i] = [rows[i] EXCEPT !.ones = ones[rows[i].prompt]]
    BY <1>2
  <2> QED BY <1>3, <2>1 DEF Sample
<1>6. ASSUME NEW i \in DOMAIN rows'
      PROVE  /\ rows'[i].batch = <<epoch', position' - 1>> /\ rows'[i].prompt = 1 + Group(i)
             /\ rows'[i].sample = 1 + ((i - 1) % NumGenerations)
             /\ rows'[i].ones = ones[rows'[i].prompt]
  BY <1>1, <1>4, <1>5 DEF RowsNumbered
<1>7. DOMAIN rows' = 1..(PerBatch' * NumGenerations)
  BY <1>1, <1>4 DEF RowsNumbered
<1> QED BY <1>6, <1>7 DEF RowsNumbered

\* So the pool is whole groups.
LEMMA PoolGrouped ==
    ASSUME TypeInv, config.dynamic, ~config.leaveOneOut, RowsNumbered,
           Grouped(cache), AllVary(cache), <<epoch, position - 1>> \notin BatchesOf(cache)
    PROVE  Pool \in Seq(Sample) /\ Grouped(Pool) /\ AllVary(Pool)
<1>1. cache \in Seq(Sample) /\ Kept \in Seq(Sample) /\ Pool \in Seq(Sample)
  BY KeptFacts, PoolType DEF TypeInv, TypeOK
<1>2. Grouped(Kept) /\ AllVary(Kept) /\ BatchesOf(Kept) \subseteq {<<epoch, position - 1>>}
  BY KeptGrouped
<1>3. BatchesOf(cache) \cap BatchesOf(Kept) = {}
  BY <1>2
<1>4. Grouped(cache \o Kept) /\ AllVary(cache \o Kept)
  BY <1>1, <1>2, <1>3, ConcatGrouped
<1>5. CASE Kept = << >>
  BY <1>1, <1>5, EmptyGrouped DEF Pool
<1>6. CASE Kept # << >>
  BY <1>1, <1>4, <1>6 DEF Pool
<1> QED BY <1>5, <1>6

LEMMA GroupsStep ==
    ASSUME TypeInv, FrontierInv, GroupsInv, [Next]_vars
    PROVE  GroupsInv'
<1> SUFFICES ASSUME config.dynamic, ~config.leaveOneOut
             PROVE  /\ BeforeSelect' =>
                           RowsNumbered' /\ <<epoch', position' - 1>> \notin BatchesOf(cache')
                    /\ BeforeSelect' \/ phase' = "batch" => Grouped(cache') /\ AllVary(cache')
                    /\ phase' \in {"logprobs", "prepareTraining", "train"} =>
                           Grouped(rows') /\ AllVary(rows') /\ Len(rows') = TrainSize
  BY ConfigSame DEF GroupsInv
<1>a. /\ BeforeSelect => RowsNumbered /\ <<epoch, position - 1>> \notin BatchesOf(cache)
      /\ BeforeSelect \/ phase = "batch" => Grouped(cache) /\ AllVary(cache)
      /\ phase \in {"logprobs", "prepareTraining", "train"} =>
             Grouped(rows) /\ AllVary(rows) /\ Len(rows) = TrainSize
  BY DEF GroupsInv
<1>b. UNCHANGED config /\ PerBatch' = PerBatch
  BY ConfigSame DEF PerBatch
<1>c. PurposeFits
  BY DEF TypeInv
<1>d. ~Supervised
  BY ConfigFacts DEF TypeInv, TypeOK, Supervised
<1>e. ASSUME UNCHANGED <<rows, cache, epoch, position>>,
             BeforeSelect' => BeforeSelect,
             phase' = "batch" => BeforeSelect \/ phase = "batch",
             phase' \in {"logprobs", "prepareTraining", "train"} =>
                 phase \in {"logprobs", "prepareTraining", "train"}
      PROVE  /\ BeforeSelect' =>
                    RowsNumbered' /\ <<epoch', position' - 1>> \notin BatchesOf(cache')
             /\ BeforeSelect' \/ phase' = "batch" => Grouped(cache') /\ AllVary(cache')
             /\ phase' \in {"logprobs", "prepareTraining", "train"} =>
                    Grouped(rows') /\ AllVary(rows') /\ Len(rows') = TrainSize
  <2>1. RowsNumbered' <=> RowsNumbered
    BY <1>b, <1>e DEF RowsNumbered
  <2> QED BY <1>a, <1>e, <2>1
<1>1. CASE TakeBatch
  <2>1. RowsNumbered'
    BY <1>1, TakenNumbered
  <2>2. UNCHANGED <<epoch, cache>> /\ position' = position + 1 /\ phase = "batch"
        /\ phase' \notin {"batch", "logprobs", "prepareTraining", "train"}
    BY <1>1, <1>d DEF TakeBatch, Goto
  <2>3. epoch \in Nat /\ position \in 0..NumBatches
    BY Numbers DEF TypeInv, TypeOK
  <2>4. <<epoch, position>> \notin BatchesOf(cache)
    BY <2>3, BehindGrows DEF FrontierInv
  <2>5. position' - 1 = position
    BY <2>2, <2>3
  <2> QED BY <1>a, <2>1, <2>2, <2>4, <2>5
<1>2. CASE Rollout
  <2>1. UNCHANGED <<epoch, position, cache, purpose>> /\ phase = "rollout"
        /\ phase' \in {"select", "teacher"}
    BY <1>2 DEF Rollout, Goto, counters
  <2>2. BeforeSelect
    BY <1>c, <2>1 DEF BeforeSelect, PurposeFits, InBatch
  <2>3. RowsNumbered'
    BY <1>2, <1>a, <2>2, RolledOutNumbered
  <2> QED BY <1>a, <2>1, <2>2, <2>3
<1>3. CASE Select \/ SelectMore
  <2>1. phase = "select" /\ UNCHANGED <<epoch, position, purpose>>
    BY <1>3 DEF Select, SelectMore, counters
  <2>2. BeforeSelect
    BY <1>c, <2>1 DEF BeforeSelect, PurposeFits, InBatch
  <2>3. Pool \in Seq(Sample) /\ Grouped(Pool) /\ AllVary(Pool)
    BY <1>a, <2>2, PoolGrouped
  <2>4. CASE Select
    <3>1. rows' = SubSeq(Pool, 1, TrainSize) /\ Len(Pool) >= TrainSize /\ phase' = "logprobs"
      BY <2>4 DEF Select, Goto
    <3>2. StepPrompts \in Nat /\ TrainSize = StepPrompts * NumGenerations
      BY Numbers DEF TrainSize
    <3>3. TrainSize \in Nat /\ TrainSize <= Len(Pool)
      <4>1. Len(Pool) \in Nat /\ TrainSize \in Nat
        BY <2>3, <3>2, LenProperties, Numbers
      <4> QED BY <3>1, <4>1
    <3>4. Grouped(rows') /\ AllVary(rows') /\ Len(rows') = TrainSize
      BY <2>3, <3>1, <3>2, <3>3, SliceGrouped
    <3> QED BY <3>1, <3>4 DEF BeforeSelect, Refitting
  <2>5. CASE SelectMore
    <3>1. phase' \in {"batch", "raised"} /\ cache' \in {cache, Pool}
      BY <2>5 DEF SelectMore, Goto
    <3> QED BY <1>a, <2>2, <2>3, <3>1 DEF BeforeSelect, Refitting
  <2> QED BY <1>3, <2>4, <2>5
<1>4. CASE BeginEpoch
  <2>1. cache' = << >> /\ phase' \in {"batch", "finished"}
    BY <1>4 DEF BeginEpoch, Goto
  <2> QED BY <2>1, EmptyGrouped DEF BeforeSelect, Refitting
<1>5. CASE Advance
  <2>1. cache' = << >> /\ phase' \in {"batch", "stopped", "finished"}
    BY <1>5 DEF Advance, Goto
  <2> QED BY <2>1, EmptyGrouped DEF BeforeSelect, Refitting
<1>6. CASE \/ EndEpoch \/ Start \/ Train \/ Validate \/ DecideCheckpoint \/ SaveCheckpoint
           \/ Kill \/ Launch
  <2>1. ~BeforeSelect' /\ phase' \notin {"batch", "logprobs", "prepareTraining", "train"}
    BY <1>6, <1>c, <1>d
       DEF EndEpoch, Start, Train, Validate, AfterValidation, DecideCheckpoint, SaveCheckpoint,
           Kill, Launch, LaunchFrom, Goto, BeforeSelect, Refitting, PurposeFits, InBatch
  <2> QED BY <2>1
<1>7. CASE StartSupervised \/ ValidateSupervised \/ SaveSupervised \/ WakeStudentEngine
  BY <1>7, <1>d, ConfigFacts
     DEF StartSupervised, ValidateSupervised, SaveSupervised, WakeStudentEngine, TypeInv, TypeOK
<1>8. CASE BeginRefit \/ TransferWeights \/ EndRefit \/ WakeEngine
  <2>1. UNCHANGED <<rows, cache, epoch, position, purpose>> /\ phase \in Refitting
        /\ \/ phase' \in {"transfer", "refitted", "validating"}
           \/ phase' = "rollout" /\ purpose = "rollout"
    BY <1>8 DEF BeginRefit, TransferWeights, EndRefit, WakeEngine, EngineIsCurrent, Generating,
                Goto, Refitting, unmoved, counters, sampling
  <2> QED BY <1>e, <2>1 DEF BeforeSelect, Refitting
<1>9. CASE ComputeLogprobs \/ PrepareTraining
  <2>1. UNCHANGED <<rows, cache, epoch, position>> /\ phase \in {"logprobs", "prepareTraining"}
        /\ phase' \in {"prepareTraining", "train"}
    BY <1>9 DEF ComputeLogprobs, PrepareTraining, Goto, unmoved, counters, sampling
  <2> QED BY <1>e, <2>1 DEF BeforeSelect, Refitting
<1>10. CASE TeacherLogprobs
  BY <1>10, ConfigFacts DEF TeacherLogprobs, TypeInv, TypeOK, PhaseFits
<1>11. CASE UNCHANGED vars
  <2>1. UNCHANGED <<rows, cache, epoch, position, phase, purpose>>
    BY <1>11 DEF vars, counters, sampling
  <2> QED BY <1>e, <2>1 DEF BeforeSelect
<1> QED
  BY <1>1, <1>2, <1>3, <1>4, <1>5, <1>6, <1>7, <1>8, <1>9, <1>10, <1>11 DEF Next, Loop

LEMMA GroupsInvariant == Spec => []GroupsInv
<1>1. Init => GroupsInv
  BY DEF Init, GroupsInv, BeforeSelect, Refitting
<1>2. TypeInv /\ FrontierInv /\ GroupsInv /\ [Next]_vars => GroupsInv'
  BY GroupsStep
<1> QED BY TypeInvariant, FrontierInvariant, <1>1, <1>2, PTL DEF Spec

\* With the baseline of the whole group, neither the cache nor the slice nor an epoch
\* that ends leaves a step of dynamic sampling short, lets a group in twice or in
\* part, or keeps one whose rewards are all the same.
THEOREM StepsAreFull == Spec => []FullSteps
<1>1. TypeInv /\ GroupsInv => FullSteps
  <2> SUFFICES ASSUME TypeInv, GroupsInv, config.dynamic, ~config.leaveOneOut, phase = "train"
               PROVE  /\ Len(rows) = TrainSize /\ IsInjective(rows) /\ WholeGroups
                      /\ \A i \in DOMAIN rows : Varies(rows[i].ones, NumGenerations)
    BY DEF FullSteps
  <2> DEFINE G == NumGenerations
  <2>1. Grouped(rows) /\ AllVary(rows) /\ Len(rows) = TrainSize
    BY DEF GroupsInv
  <2>2. PICK size \in Nat : Len(rows) = size * G
    <3>1. Len(rows) \in Nat
      BY LenProperties DEF TypeInv, TypeOK
    <3> QED BY <2>1, <3>1 DEF Grouped
  <2>3. DOMAIN rows = 1..(size * G) /\ (\A i \in DOMAIN rows : rows[i] \in Sample)
    BY <2>2, LenProperties, ElementOfSeq DEF TypeInv, TypeOK
  <2>4. G \in Nat \ {0} /\ size * G \in Nat
    BY Numbers
  <2>5. IsInjective(rows)
    <3>1. ASSUME NEW i \in DOMAIN rows, NEW j \in DOMAIN rows, rows[i] = rows[j] PROVE i = j
      <4>1. Group(i) = Group(j)
        BY <2>1, <3>1 DEF Grouped
      <4>2. 1 + ((i - 1) % G) = 1 + ((j - 1) % G)
        BY <2>1, <3>1 DEF Grouped
      <4>3. i \in Nat \ {0} /\ j \in Nat \ {0}
        BY <2>3
      <4>4. /\ Group(i) \in Nat /\ (i - 1) % G \in 0..(G - 1)
            /\ i = Group(i) * G + ((i - 1) % G) + 1
        BY <4>3, GroupFacts
      <4>5. /\ (j - 1) % G \in 0..(G - 1)
            /\ j = Group(j) * G + ((j - 1) % G) + 1
        BY <4>3, GroupFacts
      <4> DEFINE r == (i - 1) % G
                 t == (j - 1) % G
      <4>6. r \in Nat /\ t \in Nat /\ 1 + r = 1 + t /\ i = Group(i) * G + r + 1
            /\ j = Group(i) * G + t + 1
        BY <2>4, <4>1, <4>2, <4>4, <4>5
      <4> HIDE DEF r, t
      <4> QED BY <4>6
    <3> QED BY <3>1 DEF IsInjective
  <2>6. WholeGroups
    <3> SUFFICES ASSUME NEW i \in DOMAIN rows, NEW sample \in 1..G
                 PROVE  \E j \in DOMAIN rows : [rows[i] EXCEPT !.sample = sample] = rows[j]
      BY DEF WholeGroups
    <3> DEFINE q == Group(i)
               j == q * G + sample
    <3>1. i \in Nat \ {0} /\ i <= size * G
      BY <2>3, <2>4
    <3>2. q \in Nat /\ q < size
      BY <2>2, <3>1, GroupFacts, GroupOrder
    <3>3. j \in Nat \ {0} /\ Group(j) = q /\ (j - 1) % G = sample - 1
      BY <3>2, GroupOf
    <3>4. j <= size * G
      BY <2>2, <3>2, <3>3, GroupOrder
    <3>5. j \in DOMAIN rows
      BY <2>3, <2>4, <3>3, <3>4
    <3> HIDE DEF j, q
    <3>6. rows[j].sample = sample
      <4>1. rows[j].sample = 1 + ((j - 1) % G)
        BY <2>1, <3>5 DEF Grouped
      <4> QED BY <2>4, <3>3, <4>1
    <3>7. rows[i].batch = rows[j].batch /\ rows[i].prompt = rows[j].prompt
          /\ rows[i].ones = rows[j].ones
      BY <2>1, <3>3, <3>5 DEF Grouped, q
    <3>8. [rows[i] EXCEPT !.sample = sample] = rows[j]
      BY <2>3, <3>5, <3>6, <3>7 DEF Sample
    <3> QED BY <3>5, <3>8
  <2> QED BY <2>1, <2>5, <2>6 DEF AllVary
<1> QED BY <1>1, TypeInvariant, GroupsInvariant, PTL

\* Dynamic sampling ends within its bound, and what it ends with is whole.
THEOREM SamplingIsSound == Spec => []SoundSampling
BY GenerationIsBounded, StepsAreFull, PTL DEF SoundSampling

=============================================================================
