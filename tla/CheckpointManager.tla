-------------------------- MODULE CheckpointManager --------------------------
(***************************************************************************)
(* CheckpointManager of nemo_rl/utils/checkpoint.py, with what the training*)
(* loops do to it: a job trains step after step, saves a checkpoint at some*)
(* of them, is killed at any point of that, and is launched again from the *)
(* directory get_latest_checkpoint_path names.                             *)
(*                                                                         *)
(* A step_<k> directory is "whole", "stripped" (files are gone, but        *)
(* training_info.json is there), "blank" (training_info.json is gone, some *)
(* file is left) or "none".  shutil.rmtree removes the files in an order   *)
(* nobody chooses, so it takes a directory through either.                 *)
(***************************************************************************)
EXTENDS Integers, FiniteSets

CONSTANTS
    MaxStep,      \* <algorithm>.max_num_steps
    SavePeriod,   \* checkpointing.save_period
    KeepTopK,     \* checkpointing.keep_top_k (None is not modelled: nothing is removed)
    MaxMetric,    \* metric values are 1..MaxMetric; 0 for checkpointing.metric_name = None
    MaxRestarts   \* bound on how often the job is killed or stops early

ASSUME CheckpointConstants ==
    /\ MaxStep \in Nat \ {0} /\ SavePeriod \in Nat \ {0} /\ KeepTopK \in Nat \ {0}
    /\ MaxMetric \in Nat /\ MaxRestarts \in Nat

Step == 1..MaxStep

\* A higher metric is better; 0 stands for "not in training_info", which ranks
\* below every value.  (higher_is_better = False mirrors the order.)
Metric == 0..MaxMetric

VARIABLES
    dirs,       \* the step_<k> directories
    tmp,        \* the tmp_step_<k> directories: "none", "info" or "whole"
    metric,     \* the metric in training_info.json of tmp_step_<k> or step_<k>
    pc,         \* where the job is
    total,      \* total_steps of the job
    timedOut,   \* should_save_by_timeout of this step
    doomed,     \* what remove_old_checkpoints still has to remove
    finalized,  \* history: the steps whose checkpoint was finalized
    restarts    \* history: how often the job was launched again

vars == <<dirs, tmp, metric, pc, total, timedOut, doomed, finalized, restarts>>

\* The directories _load_checkpoint_history finds: those with a training_info.json.
History == {k \in Step : dirs[k] \in {"whole", "stripped"}}

\* The directories glob finds.
Globbed == {k \in Step : dirs[k] # "none"}

\* 0 for no step at all
Highest(steps) == IF steps = {} THEN 0 ELSE CHOOSE k \in steps : \A j \in steps : j <= k

\* Variant: a launch resumes from the oldest directory.
OldestInstead == IF Globbed = {} THEN 0 ELSE CHOOSE k \in Globbed : \A j \in Globbed : j >= k

\* get_latest_checkpoint_path, 0 for None: it does not look inside.
Latest == Highest(Globbed)

\* Better metric first, the more recent of two with the same metric first.
Outranks(j, k) == metric[j] > metric[k] \/ (metric[j] = metric[k] /\ j > k)

\* Variant: one checkpoint too many is kept.
OutsideTopKPlusOne ==
    {k \in History : Cardinality({j \in History : Outranks(j, k)}) > KeepTopK}

\* Variant: the most recent checkpoints are kept, whatever their metric.
OutsideRecentK ==
    {k \in History : Cardinality({j \in History : j > k}) >= KeepTopK}

OutsideTopK ==
    {k \in History : Cardinality({j \in History : Outranks(j, k)}) >= KeepTopK}

\* Variant: the latest checkpoint is not excluded.
DoomedLatestToo == OutsideTopK

\* remove_old_checkpoints(exclude_latest=True)
Doomed == OutsideTopK \ {Highest(History)}

Init ==
    /\ dirs = [k \in Step |-> "none"] /\ tmp = [k \in Step |-> "none"]
    /\ metric = [k \in Step |-> 0]
    /\ pc = "train" /\ total = 0 /\ timedOut = FALSE
    /\ doomed = {} /\ finalized = {} /\ restarts = 0

\* Variant: max_num_steps is not looked at.
TrainStepUnbounded ==
    /\ pc = "train"
    /\ timedOut' \in (IF restarts < MaxRestarts THEN BOOLEAN ELSE {FALSE})
    /\ IF timedOut' \/ total + 1 = MaxStep \/ (total + 1) % SavePeriod = 0
       THEN pc' = "init" /\ UNCHANGED total
       ELSE pc' = "train" /\ total' = total + 1
    /\ UNCHANGED <<dirs, tmp, metric, doomed, finalized, restarts>>

\* The next step is trained (and validated, or not: the metric it may be saved
\* with is decided by init_tmp_checkpoint).  It is saved by period, as the last
\* one, or because checkpoint_must_save_by is reached (within the bound on restarts).
TrainStep ==
    /\ pc = "train" /\ total < MaxStep
    /\ timedOut' \in (IF restarts < MaxRestarts THEN BOOLEAN ELSE {FALSE})
    /\ IF timedOut' \/ total + 1 = MaxStep \/ (total + 1) % SavePeriod = 0
       THEN pc' = "init" /\ UNCHANGED total
       ELSE pc' = "train" /\ total' = total + 1
    /\ UNCHANGED <<dirs, tmp, metric, doomed, finalized, restarts>>

\* mkdir(exist_ok) and training_info.json; a tmp_step_<k> of a killed job is reused.
InitTmpCheckpoint ==
    /\ pc = "init" /\ pc' = "save"
    /\ tmp' = [tmp EXCEPT ![total + 1] = "info"]
    /\ \E value \in Metric : metric' = [metric EXCEPT ![total + 1] = value]
    /\ UNCHANGED <<dirs, total, timedOut, doomed, finalized, restarts>>

\* Variant: the directory gets its name before the weights are in it.
SaveCheckpointLater ==
    /\ pc = "save" /\ pc' = "finalize"
    /\ UNCHANGED <<dirs, tmp, metric, total, timedOut, doomed, finalized, restarts>>

\* policy.save_checkpoint and the dataloader's state
SaveCheckpoint ==
    /\ pc = "save" /\ pc' = "finalize"
    /\ tmp' = [tmp EXCEPT ![total + 1] = "whole"]
    /\ UNCHANGED <<dirs, metric, total, timedOut, doomed, finalized, restarts>>

\* finalize_checkpoint: one rename.  Its other branch, which moves an existing
\* step_<k> aside with two renames, is never taken (FinalizeIsFresh).
FinalizeCheckpoint ==
    /\ pc = "finalize" /\ pc' = "select"
    /\ dirs[total + 1] = "none"
    /\ dirs' = [dirs EXCEPT ![total + 1] = IF tmp[total + 1] = "whole" THEN "whole" ELSE "stripped"]
    /\ tmp' = [tmp EXCEPT ![total + 1] = "none"]
    /\ finalized' = finalized \cup {total + 1}
    /\ UNCHANGED <<metric, total, timedOut, doomed, restarts>>

SelectDoomed ==
    /\ pc = "select" /\ pc' = "remove"
    /\ doomed' = Doomed
    /\ UNCHANGED <<dirs, tmp, metric, total, timedOut, finalized, restarts>>

\* What shutil.rmtree may make of a directory next.
Partial(state) ==
    CASE state = "whole" -> {"stripped", "blank"}
      [] state = "stripped" -> {"blank", "none"}
      [] state = "blank" -> {"none"}

\* shutil.rmtree of the best of the doomed checkpoints, file by file.
RemoveFiles ==
    /\ pc = "remove"
    /\ \E k \in doomed :
          /\ \A j \in doomed : ~Outranks(j, k)
          /\ \E state \in Partial(dirs[k]) :
                /\ dirs' = [dirs EXCEPT ![k] = state]
                /\ doomed' = IF state = "none" THEN doomed \ {k} ELSE doomed
    /\ UNCHANGED <<tmp, metric, pc, total, timedOut, finalized, restarts>>

\* The step is over; training stops when the save was made by timeout.
EndSave ==
    /\ pc = "remove" /\ doomed = {}
    /\ total' = total + 1
    /\ pc' = IF timedOut THEN "down" ELSE "train"
    /\ UNCHANGED <<dirs, tmp, metric, timedOut, doomed, finalized, restarts>>

Finish ==
    /\ pc = "train" /\ total = MaxStep /\ pc' = "done"
    /\ UNCHANGED <<dirs, tmp, metric, total, timedOut, doomed, finalized, restarts>>

\* The job is killed; what is on disk stays.
Kill ==
    /\ pc \notin {"down", "done"} /\ pc' = "down"
    /\ restarts < MaxRestarts
    /\ doomed' = {}
    /\ UNCHANGED <<dirs, tmp, metric, total, timedOut, finalized, restarts>>

\* setup() of the algorithms: training_info.json, the dataloader's state and the
\* weights are read from the latest directory; a file that is missing raises.
Restart ==
    /\ pc = "down" /\ restarts < MaxRestarts
    /\ Latest # 0 => dirs[Latest] = "whole"
    /\ pc' = "train" /\ total' = Latest
    /\ restarts' = restarts + 1
    /\ UNCHANGED <<dirs, tmp, metric, timedOut, doomed, finalized>>

Job ==
    \/ TrainStep \/ InitTmpCheckpoint \/ SaveCheckpoint \/ FinalizeCheckpoint
    \/ SelectDoomed \/ RemoveFiles \/ EndSave \/ Finish

Next == Job \/ Kill \/ Restart

Spec == Init /\ [][Next]_vars

\* A job that is launched makes progress, and a job that is down is launched again.
FairSpec == Spec /\ WF_vars(Job) /\ WF_vars(Restart)
-----------------------------------------------------------------------------
TypeOK ==
    /\ dirs \in [Step -> {"none", "blank", "stripped", "whole"}]
    /\ tmp \in [Step -> {"none", "info", "whole"}]
    /\ metric \in [Step -> Metric]
    /\ pc \in {"train", "init", "save", "finalize", "select", "remove", "down", "done"}
    /\ total \in 0..MaxStep
    /\ timedOut \in BOOLEAN
    /\ doomed \subseteq Step /\ finalized \subseteq Step
    /\ restarts \in 0..MaxRestarts

\* However often and wherever the job was killed, in the middle of a save or of a
\* removal too, the directory the next launch resumes from holds every file, and
\* it is the last checkpoint that was ever finalized: no saved progress is lost.
\* (get_latest_checkpoint_path does not look at training_info.json, while
\* remove_old_checkpoints decides by it what "latest" is.)
Resumable ==
    /\ Latest = Highest(finalized)
    /\ Latest # 0 => dirs[Latest] = "whole"

\* The best of all checkpoints ever finalized (the most recent of several with the
\* same metric) is still there with every file.
BestSurvives ==
    \A k \in finalized :
        (\A j \in finalized : ~Outranks(j, k)) => dirs[k] = "whole"

\* finalize_checkpoint never finds its directory taken, because a launch resumes
\* from the highest step there is: the two renames that are not atomic together
\* are never needed by a training loop.
FinalizeIsFresh == pc = "finalize" => dirs[total + 1] = "none"

\* After a removal at most keep_top_k checkpoints and the latest one remain, and
\* they are exactly the best ones; a removal that a kill cut short is made up for
\* by the next one.
RemovalKeepsTopK ==
    [][EndSave => /\ Cardinality(History) <= KeepTopK + 1
                  /\ OutsideTopK \subseteq {Highest(finalized)}]_vars

\* The manager keeps the promise of DurableTraining, which the loops build on: a
\* kill in the middle of a write, of the rename or of a removal, and the removal
\* itself, leave what the next launch resumes from as it was.
Durable == INSTANCE DurableTraining WITH done <- total, durable <- Latest
ImplementsDurableTraining == Durable!Spec

\* A job that is launched again whenever it is down gets through its last step:
\* nothing a kill leaves behind keeps a later launch from starting.
EventuallyDone == <>(pc = "done")
=============================================================================
