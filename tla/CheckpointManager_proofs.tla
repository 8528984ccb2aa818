----------------------- MODULE CheckpointManager_proofs -----------------------
(***************************************************************************)
(* What a training job finds on disk when it is launched again, for every  *)
(* number of steps, period, keep_top_k and number of kills.                *)
(* Resumable alone is not inductive: that the latest directory is whole    *)
(* depends on what is queued for removal, and that a save is fresh on how  *)
(* far the job is ahead of the last save.  SaveInv says both.              *)
(***************************************************************************)
EXTENDS CheckpointManager, Counting

USE CheckpointConstants

IsLast(k) == \A j \in finalized : j <= k
IsBest(k) == \A j \in finalized : ~Outranks(j, k)

\* Nothing is on disk under a step's name that was not finalized.
OnlyFinalized == \A k \in Step : dirs[k] # "none" => k \in finalized

\* The finalized checkpoints have a last one as soon as there is one.
LastExists == finalized # {} => \E k \in finalized : IsLast(k)

\* The last and the best checkpoint are whole and not queued for removal.
LastIsSafe == \A k \in finalized : IsLast(k) => dirs[k] = "whole" /\ k \notin doomed
BestIsSafe == \A k \in finalized : IsBest(k) => dirs[k] = "whole" /\ k \notin doomed

\* What is queued for removal is on disk, and nothing is queued outside a removal.
QueueIsLive ==
    /\ \A k \in doomed : dirs[k] # "none"
    /\ doomed # {} => pc = "remove"

\* The job is past every finalized checkpoint until its own is finalized.
JobIsAhead ==
    /\ pc \in {"train", "init", "save", "finalize"} => IsLast(total)
    /\ pc \in {"select", "remove"} => IsLast(total + 1) /\ total + 1 \in finalized
    /\ pc \in {"init", "save", "finalize", "select", "remove"} => total < MaxStep
    /\ pc = "finalize" => tmp[total + 1] = "whole"

SaveInv ==
    /\ TypeOK /\ OnlyFinalized /\ LastExists /\ LastIsSafe /\ BestIsSafe
    /\ QueueIsLive /\ JobIsAhead

-----------------------------------------------------------------------------
\* Highest is the greatest element of a set that has one.
LEMMA HighestIsGreatest ==
    ASSUME NEW S \in SUBSET Int, NEW m \in S, \A j \in S : j <= m
    PROVE  Highest(S) = m
<1>1. \E k \in S : \A j \in S : j <= k
  OBVIOUS
<1>2. Highest(S) \in S /\ \A j \in S : j <= Highest(S)
  BY <1>1 DEF Highest
<1>3. Highest(S) \in Int /\ m \in Int /\ Highest(S) <= m /\ m <= Highest(S)
  BY <1>2
<1> QED BY <1>3

\* The three ways to look at the last checkpoint agree.
LEMMA LatestIsLast ==
    ASSUME SaveInv
    PROVE  /\ finalized = {} => Latest = 0 /\ Highest(finalized) = 0
           /\ \A k \in finalized : IsLast(k) =>
                 Latest = k /\ Highest(finalized) = k /\ Highest(History) = k
<1>1. Globbed \subseteq finalized /\ History \subseteq finalized /\ finalized \subseteq Int
  BY DEF SaveInv, OnlyFinalized, Globbed, History, TypeOK, Step
<1>2. finalized = {} => Latest = 0 /\ Highest(finalized) = 0
  BY <1>1 DEF Latest, Highest
<1>3. ASSUME NEW k \in finalized, IsLast(k)
      PROVE  Latest = k /\ Highest(finalized) = k /\ Highest(History) = k
  <2>1. k \in Globbed /\ k \in History
    BY <1>3 DEF SaveInv, TypeOK, LastIsSafe, Globbed, History
  <2>2. Highest(finalized) = k
    BY <1>1, <1>3, HighestIsGreatest DEF IsLast
  <2>3. Highest(Globbed) = k
    BY <1>1, <1>3, <2>1, HighestIsGreatest DEF IsLast
  <2>4. Highest(History) = k
    BY <1>1, <1>3, <2>1, HighestIsGreatest DEF IsLast
  <2> QED BY <2>2, <2>3, <2>4 DEF Latest
<1> QED BY <1>2, <1>3

\* remove_old_checkpoints selects neither the last checkpoint nor the best one.
LEMMA SelectionIsSafe ==
    ASSUME SaveInv
    PROVE  /\ \A k \in finalized : IsLast(k) \/ IsBest(k) => k \notin Doomed
           /\ Doomed \subseteq {k \in Step : dirs[k] # "none"}
<1>1. ASSUME NEW k \in finalized, IsLast(k) PROVE k \notin Doomed
  BY <1>1, LatestIsLast DEF Doomed
<1>2. ASSUME NEW k \in finalized, IsBest(k) PROVE k \notin Doomed
  <2>1. {j \in History : Outranks(j, k)} = {}
    BY <1>2 DEF SaveInv, OnlyFinalized, History, IsBest
  <2>2. Cardinality({j \in History : Outranks(j, k)}) = 0
    BY <2>1, FS_EmptySet
  <2> QED BY <2>2 DEF Doomed, OutsideTopK
<1> QED BY <1>1, <1>2 DEF Doomed, OutsideTopK, History

-----------------------------------------------------------------------------
(* Every step keeps SaveInv. *)

\* Steps that leave the finalized checkpoints, what is on disk and the queue alone.
LEMMA SaveFrame ==
    ASSUME SaveInv, UNCHANGED <<dirs, metric, doomed, finalized>>
    PROVE  OnlyFinalized' /\ LastExists' /\ LastIsSafe' /\ BestIsSafe'
BY DEF SaveInv, OnlyFinalized, LastExists, LastIsSafe, BestIsSafe, IsLast, IsBest, Outranks

\* A training step and the end of the job touch no directory.
LEMMA TrainStepKeeps == ASSUME SaveInv, TrainStep \/ Finish PROVE SaveInv'
<1>1. total \in Int /\ \A j \in finalized : j \in Int
  BY DEF SaveInv, TypeOK, Step
<1>2. /\ pc = "train" /\ pc' \in {"train", "init", "done"}
      /\ total' = total \/ (total' = total + 1 /\ total < MaxStep)
      /\ pc' = "init" => total' = total /\ total < MaxStep
      /\ timedOut' \in BOOLEAN
      /\ UNCHANGED <<dirs, tmp, metric, doomed, finalized, restarts>>
  BY DEF TrainStep, Finish, SaveInv, TypeOK
<1>3. TypeOK' /\ QueueIsLive'
  BY <1>1, <1>2 DEF SaveInv, TypeOK, QueueIsLive
<1>4. JobIsAhead'
  BY <1>1, <1>2 DEF SaveInv, JobIsAhead, IsLast
<1> QED BY <1>2, <1>3, <1>4, SaveFrame DEF SaveInv

\* Staging wipes only the staging directory, never a finalized one.
LEMMA InitTmpKeeps == ASSUME SaveInv, InitTmpCheckpoint PROVE SaveInv'
<1>1. total + 1 \in Step /\ total + 1 \notin finalized
  BY DEF InitTmpCheckpoint, SaveInv, TypeOK, Step, JobIsAhead, IsLast
<1>2. PICK value \in Metric : metric' = [metric EXCEPT ![total + 1] = value]
  BY DEF InitTmpCheckpoint
<1>3. \A k \in finalized : metric'[k] = metric[k]
  BY <1>1, <1>2 DEF SaveInv, TypeOK
<1>4. TypeOK' /\ JobIsAhead' /\ QueueIsLive'
  BY <1>1, <1>2 DEF InitTmpCheckpoint, SaveInv, TypeOK, JobIsAhead, QueueIsLive, IsLast
<1>5. \A k \in finalized : IsBest(k)' <=> IsBest(k)
  BY <1>3 DEF InitTmpCheckpoint, IsBest, Outranks
<1>6. OnlyFinalized' /\ LastExists' /\ LastIsSafe' /\ BestIsSafe'
  BY <1>5 DEF InitTmpCheckpoint, SaveInv, OnlyFinalized, LastExists, LastIsSafe, BestIsSafe,
              IsLast
<1> QED BY <1>4, <1>6 DEF SaveInv

\* Writing the files completes the staging directory.
LEMMA SaveCheckpointKeeps == ASSUME SaveInv, SaveCheckpoint PROVE SaveInv'
<1>1. total + 1 \in Step
  BY DEF SaveCheckpoint, SaveInv, TypeOK, Step, JobIsAhead
<1>2. TypeOK' /\ JobIsAhead' /\ QueueIsLive'
  BY <1>1 DEF SaveCheckpoint, SaveInv, TypeOK, JobIsAhead, QueueIsLive, IsLast
<1> QED BY <1>2, SaveFrame DEF SaveCheckpoint, SaveInv

\* The rename makes a whole directory the newest.
LEMMA FinalizeKeeps == ASSUME SaveInv, FinalizeCheckpoint PROVE SaveInv'
<1> DEFINE new == total + 1
<1>1. /\ new \in Step /\ new \notin finalized /\ \A j \in finalized : j < new
      /\ tmp[new] = "whole" /\ doomed = {}
  BY DEF FinalizeCheckpoint, SaveInv, TypeOK, Step, JobIsAhead, IsLast, QueueIsLive
<1>2. /\ dirs' = [dirs EXCEPT ![new] = "whole"] /\ finalized' = finalized \cup {new}
      /\ doomed' = {} /\ UNCHANGED <<metric, total>>
  BY <1>1 DEF FinalizeCheckpoint
<1>3. dirs'[new] = "whole" /\ \A k \in finalized : dirs'[k] = dirs[k]
  BY <1>1, <1>2 DEF SaveInv, TypeOK
<1>4. TypeOK' /\ JobIsAhead' /\ QueueIsLive'
  BY <1>1, <1>2
  DEF FinalizeCheckpoint, SaveInv, TypeOK, JobIsAhead, QueueIsLive, IsLast, Step
<1>5. IsLast(new)'
  <2>1. \A j \in finalized \cup {new} : j \in Int /\ j <= new
    BY <1>1 DEF SaveInv, TypeOK, Step
  <2>2. finalized' = finalized \cup {new} /\ new' = new
    BY <1>2
  <2> QED BY <2>1, <2>2 DEF IsLast
<1>6. OnlyFinalized' /\ LastExists'
  BY <1>1, <1>2, <1>5 DEF SaveInv, TypeOK, OnlyFinalized, LastExists
<1>7. LastIsSafe'
  BY <1>1, <1>2, <1>3 DEF LastIsSafe, IsLast, Step, SaveInv, TypeOK
<1>8. BestIsSafe'
  <2> SUFFICES ASSUME NEW k \in finalized', IsBest(k)' PROVE dirs'[k] = "whole"
    BY <1>2 DEF BestIsSafe
  <2>1. k \in finalized => IsBest(k)
    BY <1>2 DEF IsBest, Outranks
  <2> QED BY <1>2, <1>3, <2>1 DEF SaveInv, BestIsSafe
<1> QED BY <1>4, <1>6, <1>7, <1>8 DEF SaveInv

\* The directories chosen for removal are neither the newest nor the best.
LEMMA SelectKeeps == ASSUME SaveInv, SelectDoomed PROVE SaveInv'
<1>1. TypeOK' /\ JobIsAhead' /\ QueueIsLive'
  BY SelectionIsSafe DEF SelectDoomed, SaveInv, TypeOK, JobIsAhead, QueueIsLive, IsLast
<1>2. OnlyFinalized' /\ LastExists'
  BY DEF SelectDoomed, SaveInv, OnlyFinalized, LastExists, IsLast
<1>3. /\ \A k : IsLast(k)' <=> IsLast(k)
      /\ \A k : IsBest(k)' <=> IsBest(k)
  BY DEF SelectDoomed, IsLast, IsBest, Outranks
<1>4. LastIsSafe' /\ BestIsSafe'
  BY <1>3, SelectionIsSafe DEF SelectDoomed, SaveInv, LastIsSafe, BestIsSafe
<1> QED BY <1>1, <1>2, <1>4 DEF SaveInv

\* A removal empties only what was chosen.
LEMMA RemoveKeeps == ASSUME SaveInv, RemoveFiles PROVE SaveInv'
<1>1. PICK k \in doomed : \E state \in Partial(dirs[k]) :
         /\ dirs' = [dirs EXCEPT ![k] = state]
         /\ doomed' = IF state = "none" THEN doomed \ {k} ELSE doomed
  BY DEF RemoveFiles
<1>2. PICK state \in Partial(dirs[k]) :
         /\ dirs' = [dirs EXCEPT ![k] = state]
         /\ doomed' = IF state = "none" THEN doomed \ {k} ELSE doomed
  BY <1>1
<1>3. /\ k \in Step /\ dirs[k] \in {"whole", "stripped", "blank"}
      /\ state \in {"stripped", "blank", "none"}
  BY <1>2 DEF SaveInv, TypeOK, QueueIsLive, Partial
<1>4. \A j \in Step : j # k => dirs'[j] = dirs[j]
  BY <1>2, <1>3 DEF SaveInv, TypeOK
<1>5. TypeOK' /\ JobIsAhead'
  BY <1>2, <1>3 DEF RemoveFiles, SaveInv, TypeOK, JobIsAhead, IsLast
<1>6. QueueIsLive'
  BY <1>2, <1>3, <1>4 DEF RemoveFiles, SaveInv, TypeOK, QueueIsLive
<1>7. OnlyFinalized' /\ LastExists'
  BY <1>2, <1>3, <1>4 DEF RemoveFiles, SaveInv, TypeOK, QueueIsLive, OnlyFinalized,
                          LastExists, IsLast
<1>8. /\ \A j : IsLast(j)' <=> IsLast(j)
      /\ \A j : IsBest(j)' <=> IsBest(j)
  BY DEF RemoveFiles, IsLast, IsBest, Outranks
<1>9. LastIsSafe' /\ BestIsSafe'
  BY <1>2, <1>4, <1>8 DEF RemoveFiles, SaveInv, TypeOK, LastIsSafe, BestIsSafe
<1> QED BY <1>5, <1>6, <1>7, <1>9 DEF SaveInv

\* The end of a save touches no directory.
LEMMA EndSaveKeeps == ASSUME SaveInv, EndSave PROVE SaveInv'
<1>1. TypeOK' /\ JobIsAhead' /\ QueueIsLive'
  BY DEF EndSave, SaveInv, TypeOK, JobIsAhead, QueueIsLive, IsLast
<1> QED BY <1>1, SaveFrame DEF EndSave, SaveInv

\* A kill, also in the middle of a save or a removal, leaves the disk as it is.
LEMMA KillKeeps == ASSUME SaveInv, Kill PROVE SaveInv'
<1>1. TypeOK' /\ JobIsAhead' /\ QueueIsLive'
  BY DEF Kill, SaveInv, TypeOK, JobIsAhead, QueueIsLive
<1>2. OnlyFinalized' /\ LastExists' /\ LastIsSafe' /\ BestIsSafe'
  BY DEF Kill, SaveInv, OnlyFinalized, LastExists, LastIsSafe, BestIsSafe, IsLast, IsBest,
         Outranks
<1> QED BY <1>1, <1>2 DEF SaveInv

\* A launch resumes from the newest finalized directory.
LEMMA RestartKeeps == ASSUME SaveInv, Restart PROVE SaveInv'
<1>1. Latest \in 0..MaxStep /\ \A j \in finalized : j <= Latest
  <2>1. CASE finalized = {}
    BY <2>1, LatestIsLast
  <2>2. CASE finalized # {}
    <3>1. PICK k \in finalized : IsLast(k)
      BY <2>2 DEF SaveInv, LastExists
    <3> QED BY <3>1, LatestIsLast DEF SaveInv, TypeOK, Step, IsLast
  <2> QED BY <2>1, <2>2
<1>2. TypeOK' /\ JobIsAhead' /\ QueueIsLive'
  BY <1>1 DEF Restart, SaveInv, TypeOK, JobIsAhead, QueueIsLive, IsLast
<1> QED BY <1>2, SaveFrame DEF Restart, SaveInv

-----------------------------------------------------------------------------
\* The inductive strengthening of Resumable, BestSurvives and FinalizeIsFresh.
LEMMA SaveInvariant == Spec => []SaveInv
<1>1. Init => SaveInv
  <2>1. Init => TypeOK
    <3>1. 0 \in Metric /\ 0 \in 0..MaxStep /\ 0 \in 0..MaxRestarts
      BY DEF Metric
    <3> QED BY <3>1 DEF Init, TypeOK
  <2>2. Init => OnlyFinalized /\ LastExists /\ LastIsSafe /\ BestIsSafe
    BY DEF Init, OnlyFinalized, LastExists, LastIsSafe, BestIsSafe
  <2>3. Init => QueueIsLive /\ JobIsAhead
    BY DEF Init, QueueIsLive, JobIsAhead, IsLast
  <2> QED BY <2>1, <2>2, <2>3 DEF SaveInv
<1>2. SaveInv /\ [Next]_vars => SaveInv'
  <2> SUFFICES ASSUME SaveInv, [Next]_vars PROVE SaveInv'
    OBVIOUS
  <2>1. CASE Job
    BY <2>1, TrainStepKeeps, InitTmpKeeps, SaveCheckpointKeeps, FinalizeKeeps, SelectKeeps,
       RemoveKeeps, EndSaveKeeps DEF Job
  <2>2. CASE Kill \/ Restart
    BY <2>2, KillKeeps, RestartKeeps
  <2>3. CASE UNCHANGED vars
    <3>1. TypeOK' /\ JobIsAhead' /\ QueueIsLive'
      BY <2>3 DEF vars, SaveInv, TypeOK, JobIsAhead, QueueIsLive, IsLast
    <3> QED BY <2>3, <3>1, SaveFrame DEF vars, SaveInv
  <2> QED BY <2>1, <2>2, <2>3 DEF Next
<1> QED BY <1>1, <1>2, PTL DEF Spec

\* A launch always finds the last finalized checkpoint, whole, however often and
\* wherever the job was killed.
THEOREM JobIsResumable == Spec => []Resumable
<1>1. SaveInv => Resumable
  <2> SUFFICES ASSUME SaveInv PROVE Resumable
    OBVIOUS
  <2>1. CASE finalized = {}
    BY <2>1, LatestIsLast DEF Resumable
  <2>2. CASE finalized # {}
    <3>1. PICK k \in finalized : IsLast(k)
      BY <2>2 DEF SaveInv, LastExists
    <3> QED BY <3>1, LatestIsLast DEF SaveInv, LastIsSafe, Resumable
  <2> QED BY <2>1, <2>2
<1> QED BY <1>1, SaveInvariant, PTL

\* The best checkpoint ever finalized is never touched by a removal.
THEOREM BestCheckpointSurvives == Spec => []BestSurvives
<1>1. SaveInv => BestSurvives
  BY DEF SaveInv, BestIsSafe, IsBest, BestSurvives
<1> QED BY <1>1, SaveInvariant, PTL

\* No training loop overwrites a checkpoint.
THEOREM CheckpointsAreFresh == Spec => []FinalizeIsFresh
<1>1. SaveInv => FinalizeIsFresh
  BY DEF SaveInv, TypeOK, OnlyFinalized, JobIsAhead, IsLast, Step, FinalizeIsFresh
<1> QED BY <1>1, SaveInvariant, PTL

\* Types of the directories and of the job.
THEOREM CheckpointTypes == Spec => []TypeOK
BY SaveInvariant, PTL DEF SaveInv

-----------------------------------------------------------------------------
(* The refinement: Latest changes only when a checkpoint is finalized. *)

LatestIsLastFinalized ==
    /\ Latest = Highest(finalized)
    /\ \A k \in finalized : IsLast(k) => Latest = k

\* Init and the steps, for LatestIsLastFinalized before and after.
LEMMA StepIsDurable ==
    ASSUME SaveInv, LatestIsLastFinalized, LatestIsLastFinalized', [Next]_vars
    PROVE  [Durable!Next]_<<total, Latest>>
<1>1. CASE finalized' = finalized
  <2>1. Latest' = Latest
    BY <1>1 DEF LatestIsLastFinalized, Highest
  <2>2. total' = total \/ total' = total + 1 \/ total' = Latest
    BY <1>1 DEF Next, Job, TrainStep, InitTmpCheckpoint, SaveCheckpoint, FinalizeCheckpoint,
                SelectDoomed, RemoveFiles, EndSave, Finish, Kill, Restart, vars
  <2> QED BY <2>1, <2>2 DEF Durable!Next, Durable!CountStep, Durable!GoBack
<1>2. CASE finalized' # finalized
  <2>1. FinalizeCheckpoint
    BY <1>2 DEF Next, Job, TrainStep, InitTmpCheckpoint, SaveCheckpoint,
                SelectDoomed, RemoveFiles, EndSave, Finish, Kill, Restart, vars
  <2>2. IsLast(total) /\ total \in Int /\ finalized \subseteq Int
    BY <2>1 DEF FinalizeCheckpoint, SaveInv, JobIsAhead, TypeOK, Step
  <2>3. finalized' = finalized \cup {total + 1} /\ total' = total
    BY <2>1 DEF FinalizeCheckpoint
  <2>4. IsLast(total + 1)'
    BY <2>2, <2>3 DEF IsLast
  <2>5. Latest' = total + 1
    BY <2>3, <2>4 DEF LatestIsLastFinalized
  <2> QED BY <2>3, <2>5 DEF Durable!Next, Durable!SaveStep
<1> QED BY <1>1, <1>2

\* What a launch resumes from changes only by saving the step at hand, for every
\* number of steps, period, keep_top_k and number of kills.
THEOREM CheckpointsAreDurable == Spec => ImplementsDurableTraining
<1>1. SaveInv => LatestIsLastFinalized
  <2> SUFFICES ASSUME SaveInv PROVE LatestIsLastFinalized
    OBVIOUS
  <2>1. CASE finalized = {}
    BY <2>1, LatestIsLast DEF LatestIsLastFinalized
  <2>2. CASE finalized # {}
    <3>1. PICK k \in finalized : IsLast(k)
      BY <2>2 DEF SaveInv, LastExists
    <3> QED BY <3>1, LatestIsLast DEF LatestIsLastFinalized
  <2> QED BY <2>1, <2>2
<1>2. Init => Durable!Init
  BY DEF Init, Durable!Init, Latest, Highest, Globbed
<1>3. SaveInv /\ LatestIsLastFinalized /\ LatestIsLastFinalized' /\ [Next]_vars
        => [Durable!Next]_<<total, Latest>>
  BY StepIsDurable
<1> QED BY <1>1, <1>2, <1>3, SaveInvariant, PTL DEF Spec, ImplementsDurableTraining, Durable!Spec
-----------------------------------------------------------------------------
(* What a removal leaves.  A directory is ranked by metric and step, so    *)
(* the checkpoints have distinct ranks; one that loses its                 *)
(* training_info.json only improves the rank of the others.                *)

RankKey == [k \in History |-> -(metric[k] * (MaxStep + 1) + k)]

\* What has to go is queued, or is the last checkpoint.
QueueIsComplete ==
    pc = "remove" => \A k \in OutsideTopK : k \in doomed \/ IsLast(k)

\* The order of metrics and steps is that of single numbers.
LEMMA KeysOrder ==
    ASSUME TypeOK, NEW j \in Step, NEW k \in Step
    PROVE  Outranks(j, k)
              <=> metric[j] * (MaxStep + 1) + j > metric[k] * (MaxStep + 1) + k
<1> DEFINE a == metric[j]
           b == metric[k]
           M == MaxStep + 1
<1>1. a \in Nat /\ b \in Nat /\ M \in Nat /\ j \in 1..(M - 1) /\ k \in 1..(M - 1)
  BY DEF TypeOK, Metric, Step
<1>2. Outranks(j, k) <=> a > b \/ (a = b /\ j > k)
  BY DEF Outranks
<1> HIDE DEF a, b, M
<1>3. ASSUME NEW c \in Nat, NEW d \in Nat, c > d PROVE c * M >= d * M + M
  <2>1. /\ c * M \in Nat /\ d * M \in Nat /\ (d + 1) * M = d * M + M
        /\ c * M >= (d + 1) * M
    BY <1>1, <1>3
  <2> QED BY <1>1, <2>1
<1>4. a * M \in Nat /\ b * M \in Nat
  BY <1>1
<1> DEFINE p == a * M
           q == b * M
<1>5. /\ a > b => p >= q + M
      /\ b > a => q >= p + M
      /\ a = b => p = q
  BY <1>1, <1>3
<1>6. p \in Nat /\ q \in Nat
  BY <1>4
<1> HIDE DEF p, q
<1>7. Outranks(j, k) <=> p + j > q + k
  BY <1>1, <1>2, <1>5, <1>6
<1> QED BY <1>7 DEF p, q, a, b, M

\* The history is a finite set of steps, ranked by distinct numbers.
LEMMA HistoryIsRanked ==
    ASSUME TypeOK
    PROVE  /\ IsFiniteSet(History) /\ Cardinality(History) \in Nat
           /\ RankKey \in [History -> Int]
           /\ \A j, k \in History : RankKey[j] = RankKey[k] => j = k
           /\ \A k \in History :
                 {j \in History : Outranks(j, k)} = Below(History, RankKey, k)
<1>1. IsFiniteSet(Step)
  BY FS_Interval DEF Step
<1>2. History \in SUBSET Step
  BY DEF History
<1>3. IsFiniteSet(History) /\ Cardinality(History) \in Nat
  BY <1>1, <1>2, FS_Subset, FS_CardinalityType
<1>4. \A k \in Step : metric[k] * (MaxStep + 1) + k \in Int
  <2> SUFFICES ASSUME NEW k \in Step PROVE metric[k] * (MaxStep + 1) + k \in Int
    OBVIOUS
  <2>1. metric[k] \in Nat /\ k \in Int /\ MaxStep + 1 \in Nat
    BY DEF TypeOK, Metric, Step
  <2>2. metric[k] * (MaxStep + 1) \in Nat
    BY <2>1
  <2> QED BY <2>1, <2>2
<1>5. RankKey \in [History -> Int]
  BY <1>2, <1>4 DEF RankKey
<1>6. \A j, k \in History : Outranks(j, k) <=> RankKey[j] < RankKey[k]
  <2> SUFFICES ASSUME NEW j \in History, NEW k \in History
               PROVE  Outranks(j, k) <=> RankKey[j] < RankKey[k]
    OBVIOUS
  <2> DEFINE x == metric[j] * (MaxStep + 1) + j
             y == metric[k] * (MaxStep + 1) + k
  <2>1. x \in Int /\ y \in Int /\ (Outranks(j, k) <=> x > y)
    BY <1>2, <1>4, KeysOrder
  <2>2. RankKey[j] = -x /\ RankKey[k] = -y
    BY DEF RankKey
  <2> HIDE DEF x, y
  <2> QED BY <2>1, <2>2
<1>7. \A j, k \in History : RankKey[j] = RankKey[k] => j = k
  <2> SUFFICES ASSUME NEW j \in History, NEW k \in History, RankKey[j] = RankKey[k]
               PROVE  j = k
    OBVIOUS
  <2>1. ~Outranks(j, k) /\ ~Outranks(k, j)
    BY <1>5, <1>6
  <2>2. metric[j] \in Int /\ metric[k] \in Int /\ j \in Int /\ k \in Int
    BY <1>2 DEF TypeOK, Metric, Step
  <2> QED BY <2>1, <2>2 DEF Outranks
<1>8. \A k \in History : {j \in History : Outranks(j, k)} = Below(History, RankKey, k)
  BY <1>6 DEF Below
<1> QED BY <1>3, <1>5, <1>7, <1>8

\* Without the checkpoints outside the top k, at most k remain.
LEMMA InsideTopK ==
    ASSUME TypeOK
    PROVE  /\ IsFiniteSet(History \ OutsideTopK)
           /\ Cardinality(History \ OutsideTopK) \in Nat
           /\ Cardinality(History \ OutsideTopK) <= KeepTopK
<1> DEFINE H == History
           key == RankKey
           inside == History \ OutsideTopK
<1>1. /\ IsFiniteSet(H) /\ Cardinality(H) \in Nat /\ key \in [H -> Int]
      /\ \A j, k \in H : key[j] = key[k] => j = k
  BY HistoryIsRanked
<1>2. \A k \in H : Ranking(H, key)[k] \in Nat
  BY <1>1, RankIsBelowSize DEF Ranking
<1>3. inside = {k \in H : Ranking(H, key)[k] < KeepTopK}
  <2>1. \A k \in H : Ranking(H, key)[k] = Cardinality({j \in History : Outranks(j, k)})
    BY HistoryIsRanked DEF Ranking
  <2>2. \A k \in H : k \in OutsideTopK <=> Ranking(H, key)[k] >= KeepTopK
    BY <2>1 DEF OutsideTopK
  <2> QED BY <1>2, <2>2
<1>4. inside \in SUBSET H
  OBVIOUS
<1> HIDE DEF H, key, inside
<1>5. IsFiniteSet(inside) /\ Cardinality(inside) \in Nat /\ Cardinality(inside) <= Cardinality(H)
  BY <1>1, <1>4, FS_Subset, FS_CardinalityType
<1>6. CASE KeepTopK <= Cardinality(H)
  <2>1. Cardinality(inside) = KeepTopK
    BY <1>1, <1>3, <1>6, FirstOfRank
  <2> QED BY <1>5, <2>1 DEF inside
<1>7. CASE ~(KeepTopK <= Cardinality(H))
  <2>1. Cardinality(inside) <= KeepTopK
    BY <1>1, <1>5, <1>7
  <2> QED BY <1>5, <2>1 DEF inside
<1> QED BY <1>6, <1>7

\* The queue stays complete while it is emptied.
LEMMA QueueStep ==
    ASSUME SaveInv, QueueIsComplete, [Next]_vars
    PROVE  QueueIsComplete'
<1>1. CASE SelectDoomed
  <2>1. /\ doomed' = OutsideTopK \ {Highest(History)}
        /\ UNCHANGED <<dirs, metric, finalized>>
    BY <1>1 DEF SelectDoomed, Doomed
  <2>2. OutsideTopK' = OutsideTopK
    BY <2>1 DEF OutsideTopK, History, Outranks
  <2>3. IsLast(total + 1) /\ Highest(History) = total + 1
    BY <1>1, LatestIsLast DEF SelectDoomed, SaveInv, JobIsAhead
  <2> QED BY <2>1, <2>2, <2>3 DEF QueueIsComplete, IsLast
<1>2. CASE RemoveFiles
  <2>1. PICK k \in doomed : \E state \in Partial(dirs[k]) :
           /\ dirs' = [dirs EXCEPT ![k] = state]
           /\ doomed' = IF state = "none" THEN doomed \ {k} ELSE doomed
    BY <1>2 DEF RemoveFiles
  <2>2. PICK state \in Partial(dirs[k]) :
           /\ dirs' = [dirs EXCEPT ![k] = state]
           /\ doomed' = IF state = "none" THEN doomed \ {k} ELSE doomed
    BY <2>1
  <2>3. /\ k \in Step /\ dirs \in [Step -> {"none", "blank", "stripped", "whole"}]
        /\ dirs[k] # "none"
    BY <2>2 DEF SaveInv, TypeOK, QueueIsLive
  <2>4. state = "stripped" => dirs[k] \in {"whole", "stripped"}
    BY <2>2, <2>3 DEF Partial
  <2>5. state \in {"none", "blank", "stripped"}
    BY <2>2, <2>3 DEF Partial
  <2>6. History' \subseteq History /\ (state = "none" => k \notin History')
    BY <2>2, <2>3, <2>4, <2>5 DEF History
  <2>7. UNCHANGED <<metric, pc, finalized>> /\ pc = "remove"
    BY <1>2 DEF RemoveFiles
  <2>8. OutsideTopK' \subseteq OutsideTopK
    <3> SUFFICES ASSUME NEW x \in OutsideTopK' PROVE x \in OutsideTopK
      OBVIOUS
    <3> DEFINE before == {j \in History : Outranks(j, x)}
               after == {j \in History' : Outranks(j, x)}
    <3>1. x \in History' /\ Cardinality(after) >= KeepTopK
      BY <2>7 DEF OutsideTopK, Outranks
    <3>2. IsFiniteSet(History) /\ after \in SUBSET before /\ before \in SUBSET History
      BY <2>6, HistoryIsRanked DEF SaveInv
    <3> HIDE DEF before, after
    <3>3. IsFiniteSet(before)
      BY <3>2, FS_Subset
    <3>4. /\ Cardinality(after) <= Cardinality(before)
          /\ Cardinality(after) \in Nat /\ Cardinality(before) \in Nat
      BY <3>2, <3>3, FS_Subset, FS_CardinalityType
    <3>5. Cardinality(before) >= KeepTopK
      BY <3>1, <3>4
    <3> QED BY <2>6, <3>1, <3>5 DEF OutsideTopK, before
  <2>9. OutsideTopK' \subseteq History'
    BY DEF OutsideTopK
  <2> QED BY <2>2, <2>6, <2>7, <2>8, <2>9 DEF QueueIsComplete, IsLast
<1>3. CASE ~SelectDoomed /\ ~RemoveFiles
  <2>1. pc' = "remove" => UNCHANGED vars
    BY <1>3 DEF Next, Job, TrainStep, InitTmpCheckpoint, SaveCheckpoint, FinalizeCheckpoint,
                EndSave, Finish, Kill, Restart
  <2> QED BY <2>1 DEF QueueIsComplete, OutsideTopK, History, Outranks, IsLast, vars
<1> QED BY <1>1, <1>2, <1>3

\* After a removal the keep_top_k best checkpoints and the last one remain, for every
\* order in which metrics came and files went (remove_old_checkpoints).
THEOREM RemovalKeepsTheBest == Spec => RemovalKeepsTopK
<1>1. Init => QueueIsComplete
  BY DEF Init, QueueIsComplete
<1>2. SaveInv /\ QueueIsComplete /\ [Next]_vars => QueueIsComplete'
  BY QueueStep
<1>3. SaveInv /\ QueueIsComplete /\ [Next]_vars
        => [EndSave => /\ Cardinality(History) <= KeepTopK + 1
                       /\ OutsideTopK \subseteq {Highest(finalized)}]_vars
  <2> SUFFICES ASSUME SaveInv, QueueIsComplete, EndSave
               PROVE  /\ Cardinality(History) <= KeepTopK + 1
                      /\ OutsideTopK \subseteq {Highest(finalized)}
    OBVIOUS
  <2> DEFINE last == Highest(finalized)
             inside == History \ OutsideTopK
  <2>1. OutsideTopK \subseteq {last}
    <3>1. \A k \in OutsideTopK : IsLast(k) /\ k \in finalized
      BY DEF EndSave, QueueIsComplete, OutsideTopK, History, SaveInv, OnlyFinalized
    <3> QED BY <3>1, LatestIsLast
  <2>2. /\ IsFiniteSet(inside) /\ Cardinality(inside) \in Nat
        /\ Cardinality(inside) <= KeepTopK
    BY InsideTopK DEF SaveInv
  <2>3. History \in SUBSET (inside \cup {last})
    BY <2>1
  <2>4. IsFiniteSet(History) /\ Cardinality(History) \in Nat
    BY HistoryIsRanked DEF SaveInv
  <2> HIDE DEF inside, last
  <2>5. /\ IsFiniteSet(inside \cup {last})
        /\ Cardinality(inside \cup {last}) \in {Cardinality(inside), Cardinality(inside) + 1}
    BY <2>2, FS_AddElement
  <2>6. Cardinality(History) <= Cardinality(inside \cup {last})
    BY <2>3, <2>5, FS_Subset
  <2>7. Cardinality(History) <= KeepTopK + 1
    BY <2>2, <2>4, <2>5, <2>6
  <2> QED BY <2>1, <2>7 DEF last
<1> QED BY <1>1, <1>2, <1>3, SaveInvariant, PTL DEF Spec, RemovalKeepsTopK
=============================================================================
