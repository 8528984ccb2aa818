--------------------------- MODULE Experience_proofs ---------------------------
(***************************************************************************)
(* The middle of a training step, for every batch, every configuration and *)
(* every order in which workers, readers, coroutines, shards and           *)
(* environments move.                                                      *)
(*                                                                         *)
(* Weights: a shard has the reference weights only inside the one call     *)
(* that swaps them in, and gives them back when it finishes its part.      *)
(*                                                                         *)
(* Coroutines: a step touches one sample.  What the history of a sample    *)
(* looks like depends on where its coroutine is, and what lies between     *)
(* worker, reader and coroutine has nine shapes: in those in which the     *)
(* stream is finished the queue still holds the answer, or the answer was  *)
(* taken, or an error comes first.                                         *)
(*                                                                         *)
(* The loop over turns: all active samples are at the same place of the    *)
(* same turn.  Shards are cut from the list of active samples in order     *)
(* and the engines are asked in the order of their coordinates, so the     *)
(* answers laid end to end are in the order of the list; the groups of     *)
(* the environments are not, and are sorted by the samples' places.        *)
(*                                                                         *)
(* Lengths: a row is as long as the sum over its messages, each of which   *)
(* is cut to what is left of the context when it is appended.              *)
(***************************************************************************)
EXTENDS Experience, PolicyBatches_proofs

USE RolloutConstants

-----------------------------------------------------------------------------
(* Weights. *)

\* A shard with the reference weights is still at work in the call that wants them.
WeightsInv ==
    /\ weights \in [Shard -> {"policy", "reference"}] /\ finished \subseteq Shard
    /\ \A s \in Shard : weights[s] = "reference" =>
           call = "get_reference_policy_logprobs" /\ s \notin finished

LEMMA WeightsStep == WeightsInv /\ [Next]_vars => WeightsInv'
<1> SUFFICES ASSUME WeightsInv, [Next]_vars PROVE WeightsInv'
  OBVIOUS
<1> USE DEF WeightsInv
<1>1. CASE UNCHANGED <<call, weights, finished>>
  BY <1>1
<1>2. CASE Start
  <2>1. weights' = WeightsFor(call') /\ finished' = {} /\ call = "none"
    BY <1>2 DEF Start
  <2>2. \A s \in Shard : weights[s] = "policy"
    BY <2>1
  <2> QED BY <2>1, <2>2 DEF WeightsFor
<1>3. CASE ForwardPass
  <2>1. \A group : InferencePass(group) => UNCHANGED <<call, weights, finished>>
    BY DEF InferencePass, Pass
  <2>2. \A group : TrainPass(group) => UNCHANGED <<call, weights, finished>>
    BY DEF TrainPass, Pass
  <2> QED BY <1>1, <1>3, <2>1, <2>2 DEF ForwardPass, DTensorTrain, DTensorLogprobs, DTensorTopk,
        AutomodelTrain, AutomodelLogprobs, AutomodelTopk, MegatronTrain, MegatronLogprobs,
        MegatronTopk
<1>4. ASSUME NEW s \in Shard, FinishShard(s) PROVE WeightsInv'
  BY <1>4 DEF FinishShard
<1>5. CASE EndGlobalBatch
  BY <1>5 DEF EndGlobalBatch
<1>6. CASE Return
  <2>1. finished = Shard /\ finished' = {} /\ UNCHANGED weights
    BY <1>6 DEF Return
  <2> QED BY <2>1
<1>7. CASE TurnTo
  BY <1>1, <1>7 DEF TurnTo
<1>8. CASE MakeRows(RolloutNext) \/ Finished \/ UNCHANGED vars
  BY <1>1, <1>8 DEF MakeRows, Finished, vars, policyVars
<1>9. CASE Flatten \/ Collate
  BY <1>1, <1>9 DEF Flatten, Collate, Hand
<1> QED
  BY <1>2, <1>3, <1>4, <1>5, <1>6, <1>7, <1>8, <1>9 DEF Next, UseRows, PolicyNext, PolicyStep

\* Whatever a step calls in whatever order, no shard ever trains, or computes anything but
\* the reference log probabilities, with the weights of the reference model.
THEOREM PolicyIsTrained == Spec => []TrainsThePolicy
<1>1. Init => WeightsInv
  BY DEF Init, PolicyInit, WeightsInv
<1>2. WeightsInv => TrainsThePolicy
  BY DEF WeightsInv, TrainsThePolicy
<1> QED BY <1>1, <1>2, WeightsStep, PTL DEF Spec

-----------------------------------------------------------------------------
(* Coroutines. *)

\* A sequence, of whatever its elements are.
IsAList(x) == x \in Seq({x[i] : i \in DOMAIN x})
RowFields == {"log", "turn", "rewards", "truncated", "stops", "info"}
StreamFields == {"worker", "output", "queue", "finished", "collected"}

\* The history of sample i when its coroutine is at the given place.
HistoryTo(i, row, at) ==
    /\ DOMAIN row = RowFields /\ row.turn \in Nat \ {0} /\ IsAList(row.log)
    /\ at = "wait" => Len(row.log) = 2 * (row.turn - 1)
    /\ at = "step" => Len(row.log) = 2 * row.turn - 1
    /\ at = "done" => Len(row.log) \in {2 * row.turn - 1, 2 * row.turn}
    /\ \A k \in 1..Len(row.log) :
           /\ row.log[k].of = <<i, (k + 1) \div 2>>
           /\ (k % 2) = 0 <=> row.log[k].role = "environment"
           /\ row.log[k].role = "dummy" => k = Len(row.log) /\ row.truncated /\ at = "done"
    /\ row.rewards = [t \in 1..(Len(row.log) \div 2) |-> <<i, t>>]
    /\ row.stops = << >> \/ \E t \in 1..row.turn : row.stops = <<i, t>>
    /\ row.info = << >> \/ \E t \in 1..row.turn : row.info = <<i, t>>

Answered(i, turn, s) ==
    s.output # << >> /\ s.output[1].of = <<i, turn>> /\ s.output[1].role = "assistant"

\* What worker, reader and coroutine have left for each other.
StreamAt(i, turn, s, at) ==
    /\ DOMAIN s = StreamFields
    /\ at # "wait" => s.worker = "idle"
    /\ at = "wait" =>
         \/ /\ s.worker \in {"running", "failed"}
            /\ s.queue = << >> /\ s.finished = FALSE /\ s.collected = FALSE
         \/ /\ s.worker = "answered" /\ Answered(i, turn, s)
            /\ s.queue = << >> /\ s.finished = FALSE /\ s.collected = FALSE
         \/ /\ s.worker = "drained" /\ Answered(i, turn, s) /\ s.finished = FALSE
            /\ \/ s.queue = <<"sample">> /\ s.collected = FALSE
               \/ s.queue = << >> /\ s.collected = TRUE
         \/ /\ s.worker = "idle" /\ s.finished = TRUE
            /\ \/ /\ Answered(i, turn, s)
                  /\ s.queue = <<"sample", "worker_done">> /\ s.collected = FALSE
               \/ Answered(i, turn, s) /\ s.queue = <<"worker_done">> /\ s.collected = TRUE
               \/ s.queue = <<"error", "worker_done">> /\ s.collected = FALSE

\* Once the rows are handed to the trainer the coroutines are gone.
CoroutineInv ==
    asyncEngine = TRUE /\ rollout # "handed" =>
        /\ DOMAIN rows = Sample /\ DOMAIN pc = Sample /\ DOMAIN stream = Sample
        /\ \A i \in Sample :
               /\ pc[i] \in {"wait", "step", "done"}
               /\ HistoryTo(i, rows[i], pc[i])
               /\ StreamAt(i, rows[i].turn, stream[i], pc[i])

LEMMA Appended ==
    ASSUME NEW x, NEW y, NEW e, IsAList(x), y = Append(x, e)
    PROVE  /\ IsAList(y) /\ Len(x) \in Nat /\ Len(y) = Len(x) + 1
           /\ \A k \in 1..Len(x) : y[k] = x[k]
           /\ y[Len(x) + 1] = e
<1> DEFINE S == {x[i] : i \in DOMAIN x} \cup {e}
<1>1. x \in Seq(S) /\ e \in S
  BY DEF IsAList
<1> HIDE DEF S
<1>2. /\ y \in Seq(S) /\ Len(x) \in Nat /\ Len(y) = Len(x) + 1
      /\ \A k \in 1..Len(x) : y[k] = x[k]
      /\ y[Len(x) + 1] = e
  BY <1>1
<1>3. y \in Seq({y[i] : i \in DOMAIN y})
  BY <1>2, SMTT(20)
<1> QED BY <1>2, <1>3 DEF IsAList

\* The engine's answer to the question of this turn, or the dummy in its place.
Responded(i, row, message, new, at) ==
    /\ message.of = <<i, row.turn>>
    /\ DOMAIN new = RowFields /\ new.log = Append(row.log, message)
    /\ new.turn = row.turn /\ new.rewards = row.rewards
    /\ new.stops = row.stops /\ new.info = row.info
    /\ \/ message.role = "assistant" /\ at = "step"
       \/ message.role = "dummy" /\ new.truncated = TRUE /\ at = "done"

LEMMA ResponseIsOwn ==
    ASSUME NEW i, NEW row, NEW message, NEW new, NEW at,
           HistoryTo(i, row, "wait"), Responded(i, row, message, new, at)
    PROVE  HistoryTo(i, new, at)
<1> DEFINE n == Len(row.log)
           turn == row.turn
<1>1. turn \in Nat \ {0} /\ IsAList(row.log) /\ n = 2 * (turn - 1)
  BY DEF HistoryTo
<1>2. /\ IsAList(new.log) /\ n \in Nat /\ Len(new.log) = n + 1
      /\ \A k \in 1..n : new.log[k] = row.log[k]
      /\ new.log[n + 1] = message
  <2>1. new.log = Append(row.log, message)
    BY DEF Responded
  <2>2. /\ IsAList(new.log) /\ Len(row.log) \in Nat /\ Len(new.log) = Len(row.log) + 1
        /\ \A k \in 1..Len(row.log) : new.log[k] = row.log[k]
        /\ new.log[Len(row.log) + 1] = message
    <3>1. IsAList(row.log)
      BY <1>1
    <3> QED BY <2>1, <3>1, Appended
  <2> QED BY <2>2
<1>3. \A k \in 1..n : /\ row.log[k].of = <<i, (k + 1) \div 2>>
                      /\ (k % 2) = 0 <=> row.log[k].role = "environment"
                      /\ row.log[k].role # "dummy"
  BY DEF HistoryTo
<1>4. row.rewards = [t \in 1..(n \div 2) |-> <<i, t>>]
  BY DEF HistoryTo
<1>5. /\ row.stops = << >> \/ \E t \in 1..turn : row.stops = <<i, t>>
      /\ row.info = << >> \/ \E t \in 1..turn : row.info = <<i, t>>
  BY DEF HistoryTo
<1>6. /\ message.of = <<i, turn>> /\ new.turn = turn /\ new.rewards = row.rewards
      /\ new.stops = row.stops /\ new.info = row.info /\ DOMAIN new = RowFields
  BY DEF Responded
<1>7. \/ message.role = "assistant" /\ at = "step"
      \/ message.role = "dummy" /\ new.truncated = TRUE /\ at = "done"
  BY Zenon DEF Responded
<1> HIDE DEF n, turn
<1>8. (n + 1 + 1) \div 2 = turn /\ ((n + 1) % 2) = 1 /\ (n + 1) \div 2 = n \div 2
      /\ n + 1 = 2 * turn - 1
  BY <1>1
<1>9. ASSUME NEW k \in 1..(n + 1)
      PROVE  /\ new.log[k].of = <<i, (k + 1) \div 2>>
             /\ (k % 2) = 0 <=> new.log[k].role = "environment"
             /\ new.log[k].role = "dummy" => k = n + 1 /\ new.truncated = TRUE /\ at = "done"
  <2>1. CASE k = n + 1
    <3>1. new.log[k].of = <<i, (k + 1) \div 2>> /\ (k % 2) = 1
      BY <1>2, <1>6, <1>8, <2>1
    <3> QED BY <1>2, <1>7, <2>1, <3>1, SMTT(20)
  <2>2. CASE k \in 1..n
    BY <1>2, <1>3, <2>2
  <2>3. k = n + 1 \/ k \in 1..n
    BY <1>2
  <2> QED BY <2>1, <2>2, <2>3
<1>10. new.rewards = [t \in 1..(Len(new.log) \div 2) |-> <<i, t>>]
  BY <1>2, <1>4, <1>6, <1>8
<1>11. /\ new.stops = << >> \/ \E t \in 1..new.turn : new.stops = <<i, t>>
       /\ new.info = << >> \/ \E t \in 1..new.turn : new.info = <<i, t>>
  BY <1>5, <1>6
<1>12. at # "wait" /\ Len(new.log) = 2 * new.turn - 1
  BY <1>2, <1>6, <1>7, <1>8
<1>13. \A k \in 1..Len(new.log) :
           /\ new.log[k].of = <<i, (k + 1) \div 2>>
           /\ (k % 2) = 0 <=> new.log[k].role = "environment"
           /\ new.log[k].role = "dummy" =>
                  k = Len(new.log) /\ new.truncated = TRUE /\ at = "done"
  BY <1>2, <1>9
<1>14. DOMAIN new = RowFields /\ IsAList(new.log) /\ new.turn \in Nat \ {0}
  BY <1>1, <1>2, <1>6
<1> QED BY <1>10, <1>11, <1>12, <1>13, <1>14 DEF HistoryTo

\* The environment's answer, after which the sample ends or asks its next question.
Observed(i, row, message, new, at) ==
    /\ message.of = <<i, row.turn>> /\ message.role = "environment"
    /\ DOMAIN new = RowFields /\ new.log = Append(row.log, message)
    /\ new.rewards = Append(row.rewards, message.of)
    /\ new.stops \in {row.stops, message.of} /\ new.info \in {row.info, message.of}
    /\ \/ new.turn = row.turn /\ at = "done"
       \/ new.turn = row.turn + 1 /\ at = "wait"

LEMMA FeedbackIsOwn ==
    ASSUME NEW i, NEW row, NEW message, NEW new, NEW at,
           HistoryTo(i, row, "step"), Observed(i, row, message, new, at)
    PROVE  HistoryTo(i, new, at)
<1> DEFINE n == Len(row.log)
           turn == row.turn
<1>1. turn \in Nat \ {0} /\ IsAList(row.log) /\ n = 2 * turn - 1
  BY DEF HistoryTo
<1>turn. \/ new.turn = turn /\ at = "done"
         \/ new.turn = turn + 1 /\ at = "wait"
  BY Zenon DEF Observed
<1>2. /\ IsAList(new.log) /\ n \in Nat /\ Len(new.log) = n + 1
      /\ \A k \in 1..n : new.log[k] = row.log[k]
      /\ new.log[n + 1] = message
  <2>1. new.log = Append(row.log, message)
    BY DEF Observed
  <2>2. /\ IsAList(new.log) /\ Len(row.log) \in Nat /\ Len(new.log) = Len(row.log) + 1
        /\ \A k \in 1..Len(row.log) : new.log[k] = row.log[k]
        /\ new.log[Len(row.log) + 1] = message
    <3>1. IsAList(row.log)
      BY <1>1
    <3> QED BY <2>1, <3>1, Appended
  <2> QED BY <2>2
<1>3. \A k \in 1..n : /\ row.log[k].of = <<i, (k + 1) \div 2>>
                      /\ (k % 2) = 0 <=> row.log[k].role = "environment"
                      /\ row.log[k].role # "dummy"
  BY DEF HistoryTo
<1>4. row.rewards = [t \in 1..(n \div 2) |-> <<i, t>>]
  BY DEF HistoryTo
<1>5. /\ row.stops = << >> \/ \E t \in 1..turn : row.stops = <<i, t>>
      /\ row.info = << >> \/ \E t \in 1..turn : row.info = <<i, t>>
  BY DEF HistoryTo
<1>msg. message.of = <<i, turn>> /\ message.role = "environment"
  BY DEF Observed
<1> HIDE DEF n, turn
<1>6. (n + 1 + 1) \div 2 = turn /\ ((n + 1) % 2) = 0 /\ n \div 2 = turn - 1
      /\ (n + 1) \div 2 = turn /\ n + 1 = 2 * turn
  BY <1>1
<1>7. ASSUME NEW k \in 1..(n + 1)
      PROVE  /\ new.log[k].of = <<i, (k + 1) \div 2>>
             /\ (k % 2) = 0 <=> new.log[k].role = "environment"
             /\ new.log[k].role # "dummy"
  <2>1. CASE k = n + 1
    BY <1>2, <1>6, <1>msg, <2>1
  <2>2. CASE k \in 1..n
    BY <1>2, <1>3, <2>2
  <2> QED BY <1>2, <2>1, <2>2
<1>8. new.rewards = [t \in 1..(Len(new.log) \div 2) |-> <<i, t>>]
  <2> DEFINE S == {<<i, t>> : t \in 1..turn}
             old == [t \in 1..(turn - 1) |-> <<i, t>>]
             e == <<i, turn>>
  <2>1. old \in Seq(S) /\ Len(old) = turn - 1 /\ e \in S
        /\ \A t \in 1..(turn - 1) : old[t] = <<i, t>>
    <3>1. turn - 1 \in Nat /\ 1..(turn - 1) \subseteq 1..turn /\ turn \in 1..turn
      BY <1>1
    <3>2. old \in [1..(turn - 1) -> S] /\ DOMAIN old = 1..(turn - 1) /\ e \in S
          /\ \A t \in 1..(turn - 1) : old[t] = <<i, t>>
      BY <3>1
    <3> HIDE DEF S, old, e
    <3>3. old \in Seq(S) /\ Len(old) = turn - 1
      BY <3>1, <3>2, SMTT(20)
    <3> QED BY <3>2, <3>3
  <2>2. new.rewards = Append(old, e)
    <3>1. new.rewards = Append(row.rewards, message.of)
      BY DEF Observed
    <3> QED BY <1>4, <1>6, <1>msg, <3>1
  <2> HIDE DEF S, old, e
  <2>3. /\ new.rewards \in Seq(S) /\ Len(new.rewards) = turn
        /\ \A t \in 1..turn : new.rewards[t] = IF t = turn THEN e ELSE old[t]
    BY <1>1, <2>1, <2>2
  <2>4. new.rewards = [t \in 1..turn |-> <<i, t>>]
    <3>1. DOMAIN new.rewards = 1..turn
      BY <1>1, <2>3
    <3>2. \A t \in 1..turn : new.rewards[t] = <<i, t>>
      <4> SUFFICES ASSUME NEW t \in 1..turn PROVE new.rewards[t] = <<i, t>>
        OBVIOUS
      <4>1. CASE t = turn
        BY <2>3, <4>1 DEF e
      <4>2. CASE t # turn
        <5>1. t \in 1..(turn - 1)
          BY <1>1, <4>2
        <5> QED BY <2>1, <2>3, <4>2, <5>1
      <4> QED BY <4>1, <4>2
    <3>3. \E S2 : new.rewards \in Seq(S2)
      BY <2>3
    <3>4. new.rewards = [t \in 1..turn |-> new.rewards[t]]
      BY <2>3, <3>1
    <3> QED BY <3>2, <3>4
  <2> QED BY <1>2, <1>6, <2>4
<1>9. new.turn \in Nat \ {0} /\ 1..turn \subseteq 1..new.turn /\ turn \in 1..new.turn
  BY <1>1, <1>turn
<1>10. /\ new.stops = << >> \/ \E t \in 1..new.turn : new.stops = <<i, t>>
       /\ new.info = << >> \/ \E t \in 1..new.turn : new.info = <<i, t>>
  <2>1. new.stops \in {row.stops, <<i, turn>>} /\ new.info \in {row.info, <<i, turn>>}
    BY <1>msg DEF Observed
  <2> QED BY <1>5, <1>9, <2>1
<1>11. /\ at \in {"wait", "done"} /\ at = "wait" => Len(new.log) = 2 * (new.turn - 1)
       /\ at = "done" => Len(new.log) = 2 * new.turn
  BY <1>1, <1>2, <1>6, <1>turn
<1>12. DOMAIN new = RowFields
  BY DEF Observed
<1>13. \A k \in 1..Len(new.log) :
           /\ new.log[k].of = <<i, (k + 1) \div 2>>
           /\ (k % 2) = 0 <=> new.log[k].role = "environment"
           /\ new.log[k].role # "dummy"
  BY <1>2, <1>7
<1>14. at # "step" /\ IsAList(new.log) /\ new.turn \in Nat \ {0}
  <2>1. at # "step"
    BY <1>turn
  <2> QED BY <1>2, <1>9, <2>1
<1> QED BY <1>8, <1>10, <1>11, <1>12, <1>13, <1>14 DEF HistoryTo

\* A step of one sample that keeps its part of the invariant.
Moves(i) ==
    /\ DOMAIN rows' = Sample /\ DOMAIN pc' = Sample /\ DOMAIN stream' = Sample
    /\ \A j \in Sample \ {i} : rows'[j] = rows[j] /\ pc'[j] = pc[j] /\ stream'[j] = stream[j]
    /\ pc'[i] \in {"wait", "step", "done"}
    /\ HistoryTo(i, rows'[i], pc'[i])
    /\ StreamAt(i, rows'[i].turn, stream'[i], pc'[i])

\* The state in which a coroutine runs.
Runs(i) ==
    /\ DOMAIN rows = Sample /\ DOMAIN pc = Sample /\ DOMAIN stream = Sample
    /\ i \in Sample /\ pc[i] \in {"wait", "step", "done"}
    /\ HistoryTo(i, rows[i], pc[i])
    /\ StreamAt(i, rows[i].turn, stream[i], pc[i])

LEMMA WorkerMoves ==
    ASSUME NEW i, Runs(i), WorkerAnswers(i) \/ WorkerFails(i) PROVE Moves(i)
<1>1. /\ UNCHANGED <<rows, pc>> /\ DOMAIN stream' = Sample
      /\ \A j \in Sample \ {i} : stream'[j] = stream[j]
  BY DEF Runs, WorkerAnswers, WorkerFails
<1> DEFINE s == stream[i]
           t == stream'[i]
<1>2. s.worker = "running" /\ pc[i] = "wait" /\ DOMAIN s = StreamFields
      /\ s.queue = << >> /\ s.finished = FALSE /\ s.collected = FALSE
  <2>1. s.worker = "running"
    BY DEF WorkerAnswers, WorkerFails
  <2> QED BY <2>1 DEF Runs, StreamAt
<1>3. CASE WorkerFails(i)
  <2>1. t = [s EXCEPT !.worker = "failed"]
    BY <1>3 DEF WorkerFails, Runs
  <2> HIDE DEF s, t
  <2>2. /\ DOMAIN t = StreamFields /\ t.worker = "failed" /\ t.queue = << >>
        /\ t.finished = FALSE /\ t.collected = FALSE
    BY <1>2, <2>1 DEF StreamFields
  <2>3. StreamAt(i, rows[i].turn, t, "wait")
    BY <2>2 DEF StreamAt
  <2> QED BY <1>1, <1>2, <2>3 DEF Moves, Runs, t
<1>4. CASE WorkerAnswers(i)
  <2>1. PICK r \in Response(i) : t = [s EXCEPT !.worker = "answered", !.output = <<r>>]
    BY <1>4 DEF WorkerAnswers, Runs
  <2>2. r.of = <<i, rows[i].turn>> /\ r.role = "assistant"
    BY <2>1 DEF Response
  <2> HIDE DEF s, t
  <2>3. /\ DOMAIN t = StreamFields /\ t.worker = "answered" /\ t.queue = << >>
        /\ t.finished = FALSE /\ t.collected = FALSE /\ t.output = <<r>>
    BY <1>2, <2>1 DEF StreamFields
  <2>4. t.output # << >> /\ t.output[1] = r
    BY <2>3
  <2>5. StreamAt(i, rows[i].turn, t, "wait")
    BY <2>2, <2>3, <2>4 DEF StreamAt, Answered
  <2> QED BY <1>1, <1>2, <2>5 DEF Moves, Runs, t
<1> QED BY <1>3, <1>4

LEMMA TwoMessages == \A x, y : <<x>> \o <<y>> = <<x, y>>
<1> TAKE x, y
<1> DEFINE s == <<x>> \o <<y>>
<1>1. s \in Seq({x, y}) /\ Len(s) = 2 /\ s[1] = x /\ s[2] = y
  OBVIOUS
<1>2. <<x, y>> \in Seq({x, y}) /\ Len(<<x, y>>) = 2
  OBVIOUS
<1> HIDE DEF s
<1>3. s = <<x, y>>
  BY <1>1, <1>2
<1> QED BY <1>3 DEF s

LEMMA ReaderMoves ==
    ASSUME NEW i, Runs(i), ReaderPuts(i) \/ ReaderEnds(i) PROVE Moves(i)
<1>1. /\ UNCHANGED <<rows, pc>> /\ DOMAIN stream' = Sample
      /\ \A j \in Sample \ {i} : stream'[j] = stream[j]
  BY DEF Runs, ReaderPuts, ReaderEnds
<1> DEFINE s == stream[i]
           t == stream'[i]
<1>2. s.worker \in {"answered", "drained", "failed"} /\ pc[i] = "wait" /\ DOMAIN s = StreamFields
  <2>1. s.worker \in {"answered", "drained", "failed"}
    BY DEF ReaderPuts, ReaderEnds
  <2> QED BY <2>1 DEF Runs, StreamAt
<1>3. CASE ReaderPuts(i)
  <2>1. t = [s EXCEPT !.worker = "drained", !.queue = Append(@, "sample")] /\ s.worker = "answered"
    BY <1>3 DEF ReaderPuts, Runs
  <2>2. /\ Answered(i, rows[i].turn, s) /\ s.queue = << >>
        /\ s.finished = FALSE /\ s.collected = FALSE
    BY <1>2, <2>1 DEF Runs, StreamAt
  <2> HIDE DEF s, t
  <2>3. /\ DOMAIN t = StreamFields /\ t.worker = "drained" /\ t.queue = <<"sample">>
        /\ t.finished = FALSE /\ t.collected = FALSE /\ t.output = s.output
    BY <1>2, <2>1, <2>2 DEF StreamFields
  <2>4. Answered(i, rows[i].turn, t)
    BY <2>2, <2>3 DEF Answered
  <2>5. StreamAt(i, rows[i].turn, t, "wait")
    BY <2>3, <2>4 DEF StreamAt
  <2> QED BY <1>1, <1>2, <2>5 DEF Moves, Runs, t
<1>4. CASE ReaderEnds(i)
  <2> DEFINE q == s.queue \o (IF s.worker = "failed" THEN <<"error">> ELSE << >>)
                          \o <<"worker_done">>
  <2>1. /\ s.worker \in {"drained", "failed"}
        /\ t = [s EXCEPT !.worker = "idle", !.finished = TRUE, !.queue = q]
    BY <1>4 DEF ReaderEnds, Runs
  <2>2. \/ s.worker = "failed" /\ s.queue = << >> /\ s.collected = FALSE
        \/ /\ s.worker = "drained" /\ Answered(i, rows[i].turn, s)
           /\ \/ s.queue = <<"sample">> /\ s.collected = FALSE
              \/ s.queue = << >> /\ s.collected = TRUE
    BY <1>2, <2>1 DEF Runs, StreamAt
  <2> HIDE DEF s, t
  <2>3. /\ s.worker = "failed" /\ s.queue = << >> => q = <<"error", "worker_done">>
        /\ s.worker = "drained" /\ s.queue = <<"sample">> => q = <<"sample", "worker_done">>
        /\ s.worker = "drained" /\ s.queue = << >> => q = <<"worker_done">>
    <3>1. << >> \o <<"error">> \o <<"worker_done">> = <<"error", "worker_done">>
      <4>1. << >> \o <<"error">> = <<"error">>
        OBVIOUS
      <4> QED BY <4>1, TwoMessages, Zenon
    <3>2. <<"sample">> \o << >> \o <<"worker_done">> = <<"sample", "worker_done">>
      <4>1. <<"sample">> \o << >> = <<"sample">>
        OBVIOUS
      <4> QED BY <4>1, TwoMessages, Zenon
    <3>3. << >> \o << >> \o <<"worker_done">> = <<"worker_done">>
      OBVIOUS
    <3> QED BY <3>1, <3>2, <3>3, Zenon
  <2> HIDE DEF q
  <2>4. /\ DOMAIN t = StreamFields /\ t.worker = "idle" /\ t.queue = q
        /\ t.finished = TRUE /\ t.collected = s.collected /\ t.output = s.output
    BY <1>2, <2>1 DEF StreamFields
  <2>5. Answered(i, rows[i].turn, s) => Answered(i, rows[i].turn, t)
    BY <2>4 DEF Answered
  <2>6. StreamAt(i, rows[i].turn, t, "wait")
    BY <2>2, <2>3, <2>4, <2>5 DEF StreamAt
  <2> QED BY <1>1, <1>2, <2>6 DEF Moves, Runs, t
<1> QED BY <1>3, <1>4

\* A request that is over leaves nothing behind.
LEMMA NothingLeft == \A i, turn, at : at # "wait" => StreamAt(i, turn, NoStream, at)
  BY DEF NoStream, StreamAt, StreamFields

LEMMA GiveUpMoves ==
    ASSUME NEW i, Runs(i), pc[i] = "wait", GiveUp(i) PROVE Moves(i)
<1> DEFINE message == [role |-> "dummy", of |-> <<i, rows[i].turn>>, tokens |-> 1]
<1>1. /\ DOMAIN rows' = Sample /\ DOMAIN pc' = Sample /\ DOMAIN stream' = Sample
      /\ \A j \in Sample \ {i} : rows'[j] = rows[j] /\ pc'[j] = pc[j] /\ stream'[j] = stream[j]
      /\ pc'[i] = "done" /\ stream'[i] = NoStream
  BY DEF Runs, GiveUp
<1>2. rows'[i] = [rows[i] EXCEPT !.log = Append(@, message), !.truncated = TRUE]
  BY DEF Runs, GiveUp
<1>3. HistoryTo(i, rows[i], "wait") /\ DOMAIN rows[i] = RowFields
  BY DEF Runs, HistoryTo
<1>4. message.of = <<i, rows[i].turn>> /\ message.role = "dummy"
  OBVIOUS
<1> HIDE DEF message
<1>5. Responded(i, rows[i], message, rows'[i], "done")
  BY <1>2, <1>3, <1>4 DEF Responded, RowFields
<1>6. HistoryTo(i, rows'[i], "done")
  BY <1>3, <1>5, ResponseIsOwn, Zenon
<1> QED BY <1>1, <1>6, NothingLeft DEF Moves

LEMMA UseMoves ==
    ASSUME NEW i, Runs(i), pc[i] = "wait", Answered(i, rows[i].turn, stream[i]), UseResponse(i)
    PROVE  Moves(i)
<1> DEFINE response == stream[i].output[1]
           message == Message(response)
<1>1. /\ DOMAIN rows' = Sample /\ DOMAIN pc' = Sample /\ DOMAIN stream' = Sample
      /\ \A j \in Sample \ {i} : rows'[j] = rows[j] /\ pc'[j] = pc[j] /\ stream'[j] = stream[j]
      /\ pc'[i] = "step" /\ stream'[i] = NoStream
  BY DEF Runs, UseResponse
<1>2. rows'[i] = [rows[i] EXCEPT !.log = Append(@, message), !.truncated = response.cut]
  BY DEF Runs, UseResponse, Respond
<1>3. HistoryTo(i, rows[i], "wait") /\ DOMAIN rows[i] = RowFields
  BY DEF Runs, HistoryTo
<1>4. message.of = <<i, rows[i].turn>> /\ message.role = "assistant"
  BY DEF Message, Answered
<1> HIDE DEF message, response
<1>5. Responded(i, rows[i], message, rows'[i], "step")
  BY <1>2, <1>3, <1>4 DEF Responded, RowFields
<1>6. HistoryTo(i, rows'[i], "step")
  BY <1>3, <1>5, ResponseIsOwn, Zenon
<1> QED BY <1>1, <1>6, NothingLeft DEF Moves

LEMMA ReceiveMoves ==
    ASSUME NEW i, Runs(i), Receive(i) \/ TimeOut(i) PROVE Moves(i)
<1>1. pc[i] = "wait"
  BY DEF Receive, TimeOut
<1> DEFINE s == stream[i]
           t == stream'[i]
           message == Head(s.queue)
           collected == s.collected \/ message = "sample"
<1>2. CASE GiveUp(i)
  BY <1>1, <1>2, GiveUpMoves
<1>3. CASE /\ s.queue # << >> /\ message # "error" /\ ~s.finished
           /\ stream' = [stream EXCEPT ![i].queue = Tail(@), ![i].collected = collected]
           /\ UNCHANGED <<rows, pc>>
  <2>1. DOMAIN s = StreamFields
    BY DEF Runs, StreamAt
  <2>2. Answered(i, rows[i].turn, s) /\ s.worker = "drained" /\ s.queue = <<"sample">>
        /\ s.finished = FALSE
    BY <1>1, <1>3 DEF Runs, StreamAt
  <2>3. t = [s EXCEPT !.queue = Tail(@), !.collected = collected]
    BY <1>3 DEF Runs
  <2>4. collected = TRUE /\ Tail(s.queue) = << >>
    BY <2>2
  <2>5. /\ DOMAIN stream' = Sample /\ \A j \in Sample \ {i} : stream'[j] = stream[j]
    BY <1>3 DEF Runs
  <2> HIDE DEF s, t, collected
  <2>6. /\ DOMAIN t = StreamFields /\ t.worker = "drained" /\ t.queue = << >>
        /\ t.finished = FALSE /\ t.collected = TRUE /\ t.output = s.output
    BY <2>1, <2>2, <2>3, <2>4 DEF StreamFields
  <2>7. Answered(i, rows[i].turn, t)
    BY <2>2, <2>6 DEF Answered
  <2>8. StreamAt(i, rows[i].turn, t, "wait")
    BY <2>6, <2>7 DEF StreamAt
  <2> QED BY <1>1, <1>3, <2>5, <2>8 DEF Moves, Runs, t
<1>4. CASE /\ s.queue # << >> /\ message # "error" /\ s.finished
           /\ IF collected THEN UseResponse(i) ELSE GiveUp(i)
  <2>1. s.worker = "idle" /\ Answered(i, rows[i].turn, s)
        /\ (s.queue = <<"sample", "worker_done">> \/ s.collected = TRUE)
    BY <1>1, <1>4 DEF Runs, StreamAt
  <2>2. collected
    BY <2>1
  <2> QED BY <1>1, <1>4, <2>1, <2>2, UseMoves
<1> QED BY <1>2, <1>3, <1>4 DEF Receive, TimeOut

LEMMA TurnMoves ==
    ASSUME NEW i, Runs(i), TakeSampleTurn(i) PROVE Moves(i)
<1>1. PICK f \in Feedback(i) :
          LET row == Observe(rows[i], f)
              ends == f.terminated \/ row.truncated
              kept == [row EXCEPT !.info = IF f.metadata THEN f.of ELSE @,
                                  !.stops = IF ends THEN @ ELSE f.of]
          IN  IF ends \/ row.turn = MaxTurns
              THEN /\ rows' = [rows EXCEPT ![i] = kept]
                   /\ pc' = [pc EXCEPT ![i] = "done"]
                   /\ UNCHANGED stream
              ELSE /\ rows' = [rows EXCEPT ![i] = [kept EXCEPT !.turn = @ + 1]]
                   /\ pc' = [pc EXCEPT ![i] = "wait"]
                   /\ stream' = [stream EXCEPT ![i] = Asked]
  BY DEF TakeSampleTurn
<1>2. f.of = <<i, rows[i].turn>>
  BY DEF Feedback
<1>3. pc[i] = "step" /\ HistoryTo(i, rows[i], "step") /\ DOMAIN rows[i] = RowFields
      /\ stream[i].worker = "idle" /\ DOMAIN stream[i] = StreamFields
  BY DEF TakeSampleTurn, Runs, HistoryTo, StreamAt
<1> DEFINE message == [role |-> "environment", of |-> f.of, tokens |-> Observation(rows[i], f)]
           row == Observe(rows[i], f)
           ends == f.terminated \/ row.truncated
           kept == [row EXCEPT !.info = IF f.metadata THEN f.of ELSE @,
                               !.stops = IF ends THEN @ ELSE f.of]
<1>4. message.of = <<i, rows[i].turn>> /\ message.role = "environment" /\ message.of = f.of
  BY <1>2
<1>5. row = [rows[i] EXCEPT !.log = Append(@, message), !.rewards = Append(@, f.of),
                            !.truncated = @ \/ Overflows(rows[i], f)]
  BY DEF Observe
<1> HIDE DEF message, row
<1>6. /\ DOMAIN row = RowFields /\ row.log = Append(rows[i].log, message)
      /\ row.rewards = Append(rows[i].rewards, message.of) /\ row.turn = rows[i].turn
      /\ row.stops = rows[i].stops /\ row.info = rows[i].info
  BY <1>3, <1>4, <1>5 DEF RowFields
<1> HIDE DEF ends
<1>7. /\ DOMAIN kept = RowFields /\ kept.log = row.log /\ kept.rewards = row.rewards
      /\ kept.turn = row.turn
      /\ kept.stops \in {row.stops, f.of} /\ kept.info \in {row.info, f.of}
  BY <1>6 DEF RowFields
<1>8. CASE ends \/ row.turn = MaxTurns
  <2>1. /\ rows' = [rows EXCEPT ![i] = kept] /\ pc' = [pc EXCEPT ![i] = "done"]
        /\ UNCHANGED stream
    BY <1>1, <1>8 DEF row, ends
  <2> HIDE DEF kept
  <2>2. Observed(i, rows[i], message, kept, "done")
    BY <1>4, <1>6, <1>7 DEF Observed
  <2>3. HistoryTo(i, kept, "done")
    BY <1>3, <2>2, FeedbackIsOwn, Zenon
  <2>4. StreamAt(i, kept.turn, stream[i], "done")
    BY <1>3 DEF StreamAt
  <2> QED BY <2>1, <2>3, <2>4 DEF Moves, Runs
<1>9. CASE ~(ends \/ row.turn = MaxTurns)
  <2> DEFINE new == [kept EXCEPT !.turn = @ + 1]
  <2>1. /\ rows' = [rows EXCEPT ![i] = new] /\ pc' = [pc EXCEPT ![i] = "wait"]
        /\ stream' = [stream EXCEPT ![i] = Asked]
    BY <1>1, <1>9 DEF row, ends
  <2> HIDE DEF kept
  <2>2. /\ DOMAIN new = RowFields /\ new.log = kept.log /\ new.rewards = kept.rewards
        /\ new.turn = kept.turn + 1 /\ new.stops = kept.stops /\ new.info = kept.info
    BY <1>7 DEF RowFields
  <2> HIDE DEF new
  <2>3. Observed(i, rows[i], message, new, "wait")
    BY <1>4, <1>6, <1>7, <2>2 DEF Observed
  <2>4. HistoryTo(i, new, "wait")
    BY <1>3, <2>3, FeedbackIsOwn, Zenon
  <2>5. StreamAt(i, new.turn, Asked, "wait")
    BY DEF StreamAt, Asked, NoStream, StreamFields
  <2> QED BY <2>1, <2>4, <2>5 DEF Moves, Runs
<1> QED BY <1>8, <1>9

LEMMA CoroutineStep == CoroutineInv /\ [Next]_vars => CoroutineInv'
<1> SUFFICES ASSUME CoroutineInv, [Next]_vars, asyncEngine' = TRUE, rollout' # "handed"
             PROVE  CoroutineInv'
  BY DEF CoroutineInv
<1>1. ASSUME UNCHANGED <<asyncEngine, rows, pc, stream>>, rollout # "handed" PROVE CoroutineInv'
  BY <1>1 DEF CoroutineInv, Sample
<1>2. ASSUME AsyncRollout(AsyncStep) \/ AsyncRollout(AsyncWorld) PROVE CoroutineInv'
  <2>1. asyncEngine = TRUE /\ asyncEngine' = TRUE /\ rollout # "handed" /\ Sample' = Sample
    BY <1>2 DEF AsyncRollout, Sample
  <2>2. \A i \in Sample : Runs(i)
    BY <2>1 DEF CoroutineInv, Runs
  <2>3. ASSUME NEW i \in Sample, Moves(i) PROVE CoroutineInv'
    <3> SUFFICES ASSUME NEW j \in Sample
                 PROVE  /\ pc'[j] \in {"wait", "step", "done"}
                        /\ HistoryTo(j, rows'[j], pc'[j])
                        /\ StreamAt(j, rows'[j].turn, stream'[j], pc'[j])
      BY <2>1, <2>3 DEF CoroutineInv, Moves
    <3>1. CASE j = i
      BY <2>3, <3>1 DEF Moves
    <3>2. CASE j # i
      BY <2>2, <2>3, <3>2 DEF Moves, Runs
    <3> QED BY <3>1, <3>2
  <2>4. ASSUME NEW i \in Sample, Coroutine(i) PROVE CoroutineInv'
    BY <2>2, <2>3, <2>4, ReaderMoves, ReceiveMoves, TurnMoves DEF Coroutine
  <2>5. ASSUME NEW i \in Sample, WorkerAnswers(i) \/ WorkerFails(i) PROVE CoroutineInv'
    BY <2>2, <2>3, <2>5, WorkerMoves
  <2>6. ASSUME NEW i \in Sample, EnvironmentFails(i) PROVE CoroutineInv'
    BY <1>1, <2>1, <2>6 DEF EnvironmentFails
  <2>7. CASE Gather
    BY <1>1, <2>1, <2>7 DEF Gather
  <2> QED BY <1>2, <2>4, <2>5, <2>6, <2>7 DEF AsyncRollout, AsyncStep, AsyncWorld
<1>3. CASE MakeRows(RolloutNext)
  <2>1. CASE SyncRollout
    BY <2>1 DEF SyncRollout
  <2> QED BY <1>2, <1>3, <2>1 DEF MakeRows, RolloutNext
<1>4. CASE Flatten \/ Collate
  BY <1>4 DEF Flatten, Collate, Hand
<1>5. CASE UseRows(PolicyNext) \/ Finished \/ UNCHANGED vars
  <2>1. UNCHANGED <<asyncEngine, rollout, rows, pc, stream>>
    BY <1>5 DEF UseRows, Finished, vars, rolloutVars, syncVars, asyncVars
  <2> QED BY <1>1, <2>1
<1> QED BY <1>3, <1>4, <1>5 DEF Next

LEMMA AllAsked == Init => CoroutineInv
<1> SUFFICES ASSUME Init, asyncEngine = TRUE PROVE CoroutineInv
  BY DEF CoroutineInv
<1>1. /\ rows = [i \in Sample |-> [NewRow EXCEPT !.turn = 1]]
      /\ pc = [i \in Sample |-> "wait"] /\ stream = [i \in Sample |-> Asked]
  BY DEF Init, RolloutInit, NoRollouts
<1> DEFINE first == [NewRow EXCEPT !.turn = 1]
<1>2. /\ DOMAIN first = RowFields /\ first.log = << >> /\ first.turn = 1
      /\ first.rewards = << >> /\ first.stops = << >> /\ first.info = << >>
  BY DEF NewRow, RowFields
<1>3. IsAList(first.log) /\ Len(first.log) = 0 /\ 0 \div 2 = 0
  <2> HIDE DEF first
  <2>1. << >> \in Seq({}) /\ {<< >>[i] : i \in DOMAIN << >>} = {}
    OBVIOUS
  <2>2. 0 \div 2 = 0 /\ Len(<< >>) = 0
    OBVIOUS
  <2> QED BY <1>2, <2>1, <2>2 DEF IsAList
<1> HIDE DEF first
<1>4. \A i \in Sample : HistoryTo(i, first, "wait")
  <2>1. \A i \in Sample : first.rewards = [t \in 1..(Len(first.log) \div 2) |-> <<i, t>>]
    BY <1>2, <1>3
  <2> QED BY <1>2, <1>3, <2>1 DEF HistoryTo
<1>5. \A i \in Sample : StreamAt(i, first.turn, Asked, "wait")
  BY DEF StreamAt, Asked, NoStream, StreamFields
<1> QED BY <1>1, <1>4, <1>5 DEF CoroutineInv, first

LEMMA HistoriesAreOwn == CoroutineInv => OwnCoroutine
<1> SUFFICES ASSUME CoroutineInv, asyncEngine = TRUE, rollout # "handed", NEW i \in Sample
             PROVE  OwnHistory(i) /\ ResponseKept(i)
  BY DEF OwnCoroutine
<1>1. /\ HistoryTo(i, rows[i], pc[i])
      /\ StreamAt(i, rows[i].turn, stream[i], pc[i])
  BY DEF CoroutineInv
<1>2. OwnHistory(i)
  <2>1. DOMAIN rows[i].log = 1..Len(rows[i].log)
    BY <1>1 DEF HistoryTo, IsAList
  <2>2. {rows[i].stops, rows[i].info} \subseteq {<<i, t>> : t \in 1..rows[i].turn} \cup {<< >>}
    <3>1. \/ rows[i].stops = << >>
          \/ \E t \in 1..rows[i].turn : rows[i].stops = <<i, t>>
      BY <1>1, Zenon DEF HistoryTo
    <3>2. \/ rows[i].info = << >>
          \/ \E t \in 1..rows[i].turn : rows[i].info = <<i, t>>
      BY <1>1, Zenon DEF HistoryTo
    <3> DEFINE own == {<<i, t>> : t \in 1..rows[i].turn}
    <3>3. \A x : x = << >> \/ (\E t \in 1..rows[i].turn : x = <<i, t>>) => x \in own \cup {<< >>}
      OBVIOUS
    <3>4. rows[i].stops \in own \cup {<< >>} /\ rows[i].info \in own \cup {<< >>}
      <4> HIDE DEF own
      <4> QED BY <3>1, <3>2, <3>3, Zenon
    <3> HIDE DEF own
    <3>5. {rows[i].stops, rows[i].info} \subseteq own \cup {<< >>}
      BY <3>4
    <3> QED BY <3>5 DEF own
  <2>3. rows[i].rewards = [t \in 1..(Len(rows[i].log) \div 2) |-> <<i, t>>]
    BY <1>1 DEF HistoryTo
  <2>4. \A n \in DOMAIN rows[i].log :
           /\ rows[i].log[n].of = <<i, (n + 1) \div 2>>
           /\ (n % 2) = 0 <=> rows[i].log[n].role = "environment"
           /\ rows[i].log[n].role = "dummy" => n = Len(rows[i].log) /\ rows[i].truncated
    BY <1>1, <2>1 DEF HistoryTo
  <2> QED BY <2>2, <2>3, <2>4 DEF OwnHistory
<1>3. ResponseKept(i)
  <2> SUFFICES ASSUME pc[i] = "wait", stream[i].finished = TRUE, stream[i].collected # TRUE
               PROVE  Head(stream[i].queue) \in {"sample", "error"}
    BY <1>1 DEF ResponseKept, StreamAt
  <2>1. stream[i].queue \in {<<"sample", "worker_done">>, <<"error", "worker_done">>}
    BY <1>1 DEF StreamAt
  <2> QED BY <2>1
<1> QED BY <1>2, <1>3

\* Every coroutine of an asynchronous rollout, however worker, reader, queue and timeout
\* interleave with those of the other samples, writes one history: answer and feedback of
\* turn t of its own sample at places 2t - 1 and 2t, a reward for each feedback, a dummy at
\* the very end only; and never takes a finished stream for an empty one.
THEOREM CoroutinesKeepTheirOwn == Spec => []OwnCoroutine
BY AllAsked, CoroutineStep, HistoriesAreOwn, PTL DEF Spec

-----------------------------------------------------------------------------
(* The length of a row. *)

\* The length of a row is its prompt and, one after the other, its messages.
LEMMA LengthIsSum ==
    ASSUME NEW row, NEW n \in Nat, DOMAIN row.log = 1..n,
           NEW tokens, tokens \in [1..n -> Nat], \A k \in 1..n : row.log[k].tokens = tokens[k]
    PROVE  \E h : Steps(h, Nat, PromptLength, Plus, tokens, n) /\ Length(row) = h[n]
<1> DEFINE Is(f) == f = [s \in SUBSET (1..n) |->
                       IF s = {} THEN PromptLength
                       ELSE f[s \ {Max(s)}] + row.log[Max(s)].tokens]
           C == CHOOSE f : Is(f)
<1>1. Length(row) = C[1..n]
  <2>1. DOMAIN row.log = 1..n
    OBVIOUS
  <2> QED BY <2>1, Zenon DEF Length, FoldLeft, MapThenFoldSet
<1>2. PromptLength \in Nat
  OBVIOUS
<1>max. \A s \in SUBSET (1..n) : s # {} => Max(s) \in 1..n /\ s \ {Max(s)} \in SUBSET (1..n)
  BY Largest
<1> HIDE DEF Max
<1>3. \E f : Is(f)
  <2>1. PICK f : FoldsTo(f, Nat, PromptLength, Plus, tokens, n)
    BY <1>2, PlusAdds, Folded
  <2>2. \A s \in SUBSET (1..n) : f[s] = IF s = {} THEN PromptLength
                       ELSE f[s \ {Max(s)}] + row.log[Max(s)].tokens
    <3> SUFFICES ASSUME NEW s \in SUBSET (1..n), s # {}
                 PROVE  f[s] = f[s \ {Max(s)}] + row.log[Max(s)].tokens
      BY <2>1 DEF FoldsTo
    <3>1. f[s \ {Max(s)}] \in Nat /\ Max(s) \in 1..n
      BY <1>max, <2>1 DEF FoldsTo
    <3>2. f[s] = Plus[<<f[s \ {Max(s)}], tokens[Max(s)]>>]
      BY <2>1 DEF FoldsTo
    <3>3. tokens[Max(s)] \in Nat /\ row.log[Max(s)].tokens = tokens[Max(s)]
      BY <3>1
    <3>4. Plus[<<f[s \ {Max(s)}], tokens[Max(s)]>>] = f[s \ {Max(s)}] + tokens[Max(s)]
      BY PlusAdds, <3>1, <3>3
    <3> QED BY <3>2, <3>3, <3>4
  <2>3. f = [s \in SUBSET (1..n) |-> f[s]]
    BY <2>1 DEF FoldsTo
  <2>4. Is(f)
    BY <2>2, <2>3
  <2> QED BY <2>4
<1>4. Is(C)
  <2> HIDE DEF Is
  <2> QED BY <1>3
<1> HIDE DEF C
<1>5. C[{}] = PromptLength
  BY <1>4
<1>6. ASSUME NEW s \in SUBSET (1..n), s # {}, C[s \ {Max(s)}] \in Nat
      PROVE  C[s] = Plus[<<C[s \ {Max(s)}], tokens[Max(s)]>>]
  <2>1. C[s] = C[s \ {Max(s)}] + row.log[Max(s)].tokens
    BY <1>4, <1>6
  <2> HIDE DEF Is
  <2>2. tokens[Max(s)] \in Nat /\ row.log[Max(s)].tokens = tokens[Max(s)]
    BY <1>max, <1>6
  <2>3. Plus[<<C[s \ {Max(s)}], tokens[Max(s)]>>] = C[s \ {Max(s)}] + tokens[Max(s)]
    BY PlusAdds, <1>6, <2>2
  <2> QED BY <2>1, <2>2, <2>3
<1> HIDE DEF Is
<1>7. PICK h : Steps(h, Nat, PromptLength, Plus, tokens, n) /\ Ends(h, n, C[1..n])
  <2>1. Plus \in [Nat \X Nat -> Nat]
    BY PlusAdds
  <2>2. Unfolds(C, Nat, PromptLength, Plus, tokens, n)
    BY <1>5, <1>6 DEF Unfolds
  <2> QED BY <1>2, <2>1, <2>2, FoldedSteps
<1> QED BY <1>1, <1>7 DEF Ends

\* A message makes a row longer by its tokens.
Counted(row) == \A k \in DOMAIN row.log : row.log[k].tokens \in Nat

\* The log of y is that of x and the message m.
OneLonger(x, y, m, n) ==
    /\ n \in Nat /\ DOMAIN x.log = 1..n /\ DOMAIN y.log = 1..(n + 1)
    /\ \A k \in 1..n : y.log[k] = x.log[k]
    /\ y.log[n + 1] = m /\ m.tokens \in Nat

\* Appending a message adds its tokens to the length.
LEMMA LengthAppended ==
    ASSUME NEW x, NEW y, NEW m, NEW n, OneLonger(x, y, m, n), Counted(x)
    PROVE  Counted(y) /\ Length(x) \in Nat /\ Length(y) = Length(x) + m.tokens
<1>0. /\ n \in Nat /\ DOMAIN x.log = 1..n /\ DOMAIN y.log = 1..(n + 1)
      /\ \A k \in 1..n : y.log[k] = x.log[k]
      /\ y.log[n + 1] = m /\ m.tokens \in Nat
  BY DEF OneLonger
<1>1. \A k \in 1..n : x.log[k].tokens \in Nat
  BY <1>0 DEF Counted
<1>2. \A k \in 1..(n + 1) : y.log[k].tokens \in Nat
  <2> SUFFICES ASSUME NEW k \in 1..(n + 1) PROVE y.log[k].tokens \in Nat
    OBVIOUS
  <2>1. k = n + 1 \/ k \in 1..n
    BY <1>0
  <2> QED BY <1>0, <1>1, <2>1
<1> DEFINE a == [k \in 1..n |-> x.log[k].tokens]
           b == [k \in 1..(n + 1) |-> y.log[k].tokens]
<1>t. a \in [1..n -> Nat] /\ b \in [1..(n + 1) -> Nat] /\ n + 1 \in Nat
  BY <1>0, <1>1, <1>2
<1>3. PICK h : Steps(h, Nat, PromptLength, Plus, a, n) /\ Length(x) = h[n]
  <2>1. \A k \in 1..n : x.log[k].tokens = a[k]
    OBVIOUS
  <2> HIDE DEF a, b
  <2> QED BY <1>0, <1>t, <2>1, LengthIsSum
<1>4. PICK g :
          Steps(g, Nat, PromptLength, Plus, b, n + 1) /\ Length(y) = g[n + 1]
  <2>1. \A k \in 1..(n + 1) : y.log[k].tokens = b[k]
    OBVIOUS
  <2> HIDE DEF a, b
  <2> QED BY <1>0, <1>t, <2>1, LengthIsSum
<1>5. \A k \in 1..n : a[k] = b[k]
  <2>1. \A k \in 1..n : x.log[k].tokens = y.log[k].tokens /\ k \in 1..(n + 1)
    BY ONLY <1>0
  <2> QED BY <2>1
<1>6. b[n + 1] = m.tokens
  BY <1>0
<1> HIDE DEF a, b
<1>7. h[n] = g[n]
  <2>1. n + 1 \in Nat /\ n <= n + 1 /\ n \in 0..n
    BY <1>0
  <2>2. \A k \in 0..n : h[k] = g[k]
    BY <1>0, <1>3, <1>4, <1>5, <2>1, SameSteps
  <2> QED BY <2>1, <2>2
<1>8. g[n + 1] = Plus[<<g[n], b[n + 1]>>] /\ h[n] \in Nat
  BY <1>0, <1>3, <1>4 DEF Steps
<1>9. Plus[<<h[n], m.tokens>>] = h[n] + m.tokens
  BY <1>0, <1>8, PlusAdds
<1> QED BY <1>0, <1>2, <1>3, <1>4, <1>6, <1>7, <1>8, <1>9 DEF Counted

\* A row without messages is its prompt.
LEMMA LengthOfNew ==
    ASSUME NEW row, row.log = << >>
    PROVE  Counted(row) /\ Length(row) = PromptLength
<1> DEFINE none == [k \in 1..0 |-> 0]
<1>1. DOMAIN row.log = 1..0 /\ 0 \in Nat /\ none \in [1..0 -> Nat]
      /\ \A k \in 1..0 : row.log[k].tokens = none[k]
  OBVIOUS
<1> HIDE DEF none
<1>2. PICK h : Steps(h, Nat, PromptLength, Plus, none, 0) /\ Length(row) = h[0]
  BY <1>1, LengthIsSum
<1> QED BY <1>1, <1>2 DEF Steps, Counted

-----------------------------------------------------------------------------
(* Workers and their coordinates. *)

\* The axes of a layout of workers.
Axes == [name : {"data_parallel", "pipeline_parallel", "context_parallel", "tensor_parallel"},
         size : Nat]

\* The span of an axis is a product of sizes, made one factor at a time.
LEMMA SpanIsProduct ==
    ASSUME NEW seq, NEW layout, NEW a, seq = SubSeq(layout, a, Len(layout)),
           NEW n \in Nat, DOMAIN seq = 1..n,
           NEW sizes, sizes \in [1..n -> Nat], \A k \in 1..n : seq[k].size = sizes[k]
    PROVE  \E h : Steps(h, Nat, 1, Times, sizes, n) /\ Ends(h, n, Span(layout, a))
BY SizesMultiply DEF Span, SizeProduct

\* The span of an axis is its size times the span of the next one.
LEMMA SpanInside ==
    ASSUME NEW layout \in Seq(Axes), NEW a \in 1..(Len(layout) + 1)
    PROVE  /\ Span(layout, a) \in Nat
           /\ a = Len(layout) + 1 => Span(layout, a) = 1
           /\ a <= Len(layout) => Span(layout, a) = layout[a].size * Span(layout, a + 1)
<1> DEFINE L == Len(layout)
           Part(b) == SubSeq(layout, b, L)
           Sizes(b) == [k \in 1..(L - b + 1) |-> layout[b + k - 1].size]
<1>1. L \in Nat
  OBVIOUS
<1>2. ASSUME NEW b \in 1..(L + 1)
      PROVE  /\ L - b + 1 \in Nat /\ DOMAIN Part(b) = 1..(L - b + 1)
             /\ Sizes(b) \in [1..(L - b + 1) -> Nat]
             /\ \A k \in 1..(L - b + 1) : Part(b)[k].size = Sizes(b)[k]
  <2>1. L - b + 1 \in Nat
    BY <1>1
  <2>2. \A k \in 1..(L - b + 1) : b + k - 1 \in 1..L
    BY <1>1
  <2>3. /\ DOMAIN Part(b) = 1..(L - b + 1)
        /\ \A k \in 1..(L - b + 1) : Part(b)[k] = layout[b + k - 1]
    BY <1>1, SubSeqProperties
  <2>4. \A k \in 1..(L - b + 1) : layout[b + k - 1].size \in Nat
    <3> SUFFICES ASSUME NEW k \in 1..(L - b + 1) PROVE layout[b + k - 1].size \in Nat
      OBVIOUS
    <3>1. layout[b + k - 1] \in Axes
      BY <2>2
    <3> QED BY <3>1 DEF Axes
  <2> QED BY <2>1, <2>3, <2>4
<1>3. ASSUME NEW b \in 1..(L + 1)
      PROVE  \E h : Steps(h, Nat, 1, Times, Sizes(b), L - b + 1) /\ Span(layout, b) = h[L - b + 1]
  <2> DEFINE sizes == Sizes(b)
             n == L - b + 1
             part == Part(b)
  <2>1. /\ n \in Nat /\ DOMAIN part = 1..n /\ sizes \in [1..n -> Nat]
        /\ \A k \in 1..n : part[k].size = sizes[k]
    BY <1>2
  <2>2. part = SubSeq(layout, b, Len(layout))
    OBVIOUS
  <2> HIDE DEF sizes, n, part
  <2>3. PICK h : Steps(h, Nat, 1, Times, sizes, n) /\ Ends(h, n, Span(layout, b))
    BY <2>1, <2>2, SpanIsProduct
  <2>4. Span(layout, b) = h[n]
    BY <2>3 DEF Ends
  <2> QED BY <2>3, <2>4 DEF sizes, n
<1>4. PICK h : Steps(h, Nat, 1, Times, Sizes(a), L - a + 1) /\ Span(layout, a) = h[L - a + 1]
  BY <1>3
<1>5. Span(layout, a) \in Nat /\ (a = L + 1 => Span(layout, a) = 1)
  <2>1. h \in [0..(L - a + 1) -> Nat] /\ h[0] = 1
    BY <1>4 DEF Steps
  <2>2. L - a + 1 \in 0..(L - a + 1) /\ (a = L + 1 => L - a + 1 = 0)
    BY <1>1
  <2> QED BY <1>4, <2>1, <2>2
<1>6. ASSUME a <= L PROVE Span(layout, a) = layout[a].size * Span(layout, a + 1)
  <2>1. a + 1 \in 1..(L + 1)
    BY <1>1, <1>6
  <2>2. PICK g : Steps(g, Nat, 1, Times, Sizes(a + 1), L - a) /\ Span(layout, a + 1) = g[L - a]
    <3>1. L - (a + 1) + 1 = L - a
      BY <1>1
    <3>2. \E g : Steps(g, Nat, 1, Times, Sizes(a + 1), L - (a + 1) + 1)
                 /\ Span(layout, a + 1) = g[L - (a + 1) + 1]
      BY <1>3, <2>1
    <3> QED BY <3>1, <3>2
  <2> DEFINE n == L - a
             x == layout[a].size
             S == {k \in 0..n : h[k + 1] = x * g[k]}
             A == Sizes(a)
             B == Sizes(a + 1)
  <2>3. /\ n \in Nat /\ x \in Nat /\ A[1] = x
        /\ \A k \in 1..n : A[k + 1] = B[k] /\ B[k] \in Nat
    <3>1. n \in Nat /\ a + 1 - 1 = a /\ 1 \in 1..(L - a + 1)
      BY <1>1, <1>6
    <3>2. A[1] = x /\ x \in Nat
      <4>1. layout[a] \in Axes
        BY <1>1, <1>6
      <4> QED BY <3>1, <4>1 DEF Axes
    <3>3. ASSUME NEW k \in 1..n PROVE A[k + 1] = B[k] /\ B[k] \in Nat
      <4>1. k + 1 \in 1..(L - a + 1) /\ k \in 1..(L - (a + 1) + 1)
            /\ a + (k + 1) - 1 = (a + 1) + k - 1
        BY <1>1, <1>6
      <4>2. A[k + 1] = layout[a + (k + 1) - 1].size /\ B[k] = layout[(a + 1) + k - 1].size
        BY <4>1
      <4>3. B[k] \in Nat
        BY <1>2, <2>1, <4>1
      <4> HIDE DEF A, B
      <4> QED BY <4>1, <4>2, <4>3
    <3> HIDE DEF A, B, x, n
    <3> QED BY <3>1, <3>2, <3>3
  <2>4. L - a + 1 = n + 1
    BY <1>1
  <2>5. Steps(h, Nat, 1, Times, A, n + 1) /\ Steps(g, Nat, 1, Times, B, n)
    BY <1>4, <2>2, <2>4
  <2> HIDE DEF n, x, A, B
  <2>6. /\ h[0] = 1 /\ g[0] = 1 /\ \A k \in 0..n : g[k] \in Nat /\ h[k + 1] = Times[<<h[k], A[k + 1]>>]
        /\ \A k \in 0..n : h[k] \in Nat
        /\ \A k \in 0..(n - 1) : g[k + 1] = Times[<<g[k], B[k + 1]>>]
    BY <2>3, <2>5, SMTT(30) DEF Steps
  <2>7. 0 \in S
    <3>1. 0 \in 0..n /\ 0 + 1 = 1
      BY <2>3
    <3>2. h[1] = Times[<<h[0], A[1]>>]
      BY <2>6, <3>1
    <3>3. Times[<<1, x>>] = 1 * x
      BY <2>3, TimesMultiplies
    <3>4. h[1] = x * 1
      BY <2>3, <2>6, <3>2, <3>3
    <3> QED BY <2>6, <3>1, <3>4
  <2>8. ASSUME NEW k \in 0..(n - 1), k \in S PROVE k + 1 \in S
    <3>1. k + 1 \in 0..n /\ k + 1 \in 1..n /\ k \in 0..n
      BY <2>3
    <3>2. h[k + 1 + 1] = Times[<<h[k + 1], A[k + 1 + 1]>>]
      BY <2>6, <3>1
    <3>3. g[k + 1] = Times[<<g[k], B[k + 1]>>]
      BY <2>6
    <3>4. A[k + 1 + 1] = B[k + 1] /\ B[k + 1] \in Nat
      BY <2>3, <3>1
    <3>5. g[k] \in Nat /\ h[k + 1] \in Nat /\ h[k + 1] = x * g[k]
      BY <2>6, <2>8, <3>1
    <3>6. h[k + 1 + 1] = h[k + 1] * B[k + 1] /\ g[k + 1] = g[k] * B[k + 1]
      BY <3>2, <3>3, <3>4, <3>5, TimesMultiplies
    <3>7. (x * g[k]) * B[k + 1] = x * (g[k] * B[k + 1])
      <4>1. \A p, q, r \in Nat : (p * q) * r = p * (q * r)
        OBVIOUS
      <4>2. x \in Nat /\ g[k] \in Nat /\ B[k + 1] \in Nat
        BY <2>3, <3>4, <3>5
      <4> DEFINE q == g[k]
                 r == B[k + 1]
      <4> HIDE DEF q, r
      <4>3. x \in Nat /\ q \in Nat /\ r \in Nat
        BY <4>2 DEF q, r
      <4>4. (x * q) * r = x * (q * r)
        BY <4>3
      <4> QED BY <4>4 DEF q, r
    <3> QED BY <3>1, <3>5, <3>6, <3>7
  <2> HIDE DEF S
  <2>9. 0..n \subseteq S
    BY <2>3, <2>7, <2>8, UpTo
  <2>10. h[n + 1] = x * g[n]
    BY <2>3, <2>9 DEF S
  <2> QED BY <1>4, <2>2, <2>4, <2>10 DEF n, x
<1> QED BY <1>5, <1>6

\* The same, with a name for the next axis.
LEMMA SpanAt ==
    ASSUME NEW layout, layout \in Seq(Axes), NEW a, NEW b, a \in 1..Len(layout), b = a + 1
    PROVE  Span(layout, b) \in Nat /\ Span(layout, a) = layout[a].size * Span(layout, b)
<1>1. a \in 1..(Len(layout) + 1) /\ b \in 1..(Len(layout) + 1) /\ a <= Len(layout)
  OBVIOUS
<1> QED BY <1>1, SpanInside

\* Past the last axis there is nothing left to span.
LEMMA SpanEnd ==
    ASSUME NEW layout, layout \in Seq(Axes), NEW a, a = Len(layout) + 1
    PROVE  Span(layout, a) = 1
<1>1. a \in 1..(Len(layout) + 1)
  OBVIOUS
<1> QED BY <1>1, SpanInside

\* The axis a has the name, and no other one.
IsNamed(layout, a, name) ==
    /\ a \in 1..Len(layout) /\ layout[a].name = name
    /\ \A b \in 1..Len(layout) : layout[b].name = name => b = a

\* The coordinate on an axis, from the span of the axes inside it.
LEMMA CoordinateAt ==
    ASSUME NEW layout, NEW a, NEW c, c = a + 1, NEW name, IsNamed(layout, a, name), NEW w
    PROVE  Coordinate(layout, w, name) = (w \div Span(layout, c)) % layout[a].size
<1> USE DEF IsNamed
<1>1. {b \in 1..Len(layout) : layout[b].name = name} = {a}
  OBVIOUS
<1>2. Min({a}) = a
  BY DEF Min
<1>3. SelectInSeq(layout, LAMBDA axis : axis.name = name) = a
  BY <1>1, <1>2, Zenon DEF SelectInSeq
<1> QED BY <1>3, Zenon DEF Coordinate


\* The axes of the generation workers.
LEMMA EngineAxes ==
    /\ EngineLayout \in Seq(Axes) /\ Len(EngineLayout) = 3
    /\ EngineLayout[1] = Axis("data_parallel", NumShards)
    /\ EngineLayout[2] = Axis("pipeline_parallel", 1)
    /\ EngineLayout[3] = Axis("tensor_parallel", EngineTensor)
    /\ NumShards \in Nat \ {0} /\ EngineTensor \in Nat \ {0}
<1>1. NumShards \in Nat \ {0} /\ EngineTensor \in Nat \ {0}
  OBVIOUS
<1>2. \A size \in Nat : /\ Axis("data_parallel", size) \in Axes
                        /\ Axis("pipeline_parallel", size) \in Axes
                        /\ Axis("tensor_parallel", size) \in Axes
  BY DEF Axis, Axes
<1>3. Axis("data_parallel", NumShards) \in Axes /\ Axis("pipeline_parallel", 1) \in Axes
      /\ Axis("tensor_parallel", EngineTensor) \in Axes
  BY <1>1, <1>2
<1>4. \A x, y, z \in Axes : <<x, y, z>> \in Seq(Axes) /\ Len(<<x, y, z>>) = 3
          /\ <<x, y, z>>[1] = x /\ <<x, y, z>>[2] = y /\ <<x, y, z>>[3] = z
  OBVIOUS
<1> QED BY <1>1, <1>3, <1>4, Zenon DEF EngineLayout

\* The engine of shard s is the first worker of its tensor-parallel group.
LEMMA EngineNumbers ==
    /\ Span(EngineLayout, 1) = EngineTensor * NumShards
    /\ Engines = {EngineTensor * (s - 1) : s \in 1..NumShards}
    /\ \A s \in 1..NumShards :
           Coordinate(EngineLayout, EngineTensor * (s - 1), "data_parallel") = s - 1
    /\ Returning(EngineLayout, Engines, {}) = Engines
<1>1. /\ EngineLayout \in Seq(Axes) /\ Len(EngineLayout) = 3
      /\ NumShards \in Nat \ {0} /\ EngineTensor \in Nat \ {0}
  BY EngineAxes
<1>2. /\ EngineLayout[1].name = "data_parallel" /\ EngineLayout[1].size = NumShards
      /\ EngineLayout[2].name = "pipeline_parallel" /\ EngineLayout[2].size = 1
      /\ EngineLayout[3].name = "tensor_parallel" /\ EngineLayout[3].size = EngineTensor
  BY EngineAxes DEF Axis
<1>3. /\ Span(EngineLayout, 4) = 1 /\ Span(EngineLayout, 3) = EngineTensor
      /\ Span(EngineLayout, 2) = EngineTensor /\ Span(EngineLayout, 1) = EngineTensor * NumShards
  <2>1. Span(EngineLayout, 4) = 1
    <3>1. 4 = Len(EngineLayout) + 1
      BY <1>1
    <3> QED BY <1>1, <3>1, SpanEnd, Zenon
  <2>n. /\ 3 \in 1..Len(EngineLayout) /\ 2 \in 1..Len(EngineLayout) /\ 1 \in 1..Len(EngineLayout)
        /\ 4 = 3 + 1 /\ 3 = 2 + 1 /\ 2 = 1 + 1
    BY <1>1
  <2>2. Span(EngineLayout, 3) = EngineTensor * Span(EngineLayout, 4)
    BY <1>1, <1>2, <2>n, SpanAt, Zenon
  <2>3. Span(EngineLayout, 2) = 1 * Span(EngineLayout, 3)
    <3>1. Span(EngineLayout, 2) = EngineLayout[2].size * Span(EngineLayout, 3)
      BY <1>1, <2>n, SpanAt, Zenon
    <3> QED BY <1>2, <3>1
  <2>4. Span(EngineLayout, 1) = NumShards * Span(EngineLayout, 2)
    BY <1>1, <1>2, <2>n, SpanAt, Zenon
  <2> QED BY <1>1, <2>1, <2>2, <2>3, <2>4
<1>4. \A w \in Nat :
          /\ Coordinate(EngineLayout, w, "data_parallel") = (w \div EngineTensor) % NumShards
          /\ Coordinate(EngineLayout, w, "pipeline_parallel") = 0
          /\ Coordinate(EngineLayout, w, "tensor_parallel") = w % EngineTensor
  <2> TAKE w \in Nat
  <2>1. \A b \in 1..Len(EngineLayout) : b = 1 \/ b = 2 \/ b = 3
    BY <1>1
  <2>n. /\ 3 \in 1..Len(EngineLayout) /\ 2 \in 1..Len(EngineLayout) /\ 1 \in 1..Len(EngineLayout)
        /\ 4 = 3 + 1 /\ 3 = 2 + 1 /\ 2 = 1 + 1
    BY <1>1
  <2>names. /\ IsNamed(EngineLayout, 1, "data_parallel")
            /\ IsNamed(EngineLayout, 2, "pipeline_parallel")
            /\ IsNamed(EngineLayout, 3, "tensor_parallel")
    BY <1>2, <2>1, <2>n DEF IsNamed
  <2>2. Coordinate(EngineLayout, w, "data_parallel")
            = (w \div Span(EngineLayout, 2)) % EngineLayout[1].size
    BY <2>n, <2>names, CoordinateAt
  <2>3. Coordinate(EngineLayout, w, "pipeline_parallel")
            = (w \div Span(EngineLayout, 3)) % EngineLayout[2].size
    BY <2>n, <2>names, CoordinateAt
  <2>4. Coordinate(EngineLayout, w, "tensor_parallel")
            = (w \div Span(EngineLayout, 4)) % EngineLayout[3].size
    BY <2>n, <2>names, CoordinateAt
  <2>5. w \div 1 = w /\ (w \div EngineTensor) % 1 = 0
    <3>1. w \div EngineTensor \in Nat
      BY <1>1, Division
    <3> QED BY <3>1
  <2> QED BY <1>2, <1>3, <2>2, <2>3, <2>4, <2>5
<1>5. Names(EngineLayout) = {"data_parallel", "pipeline_parallel", "tensor_parallel"}
  <2>1. DOMAIN EngineLayout = 1..3
    BY <1>1
  <2>2. \A b \in 1..3 : b = 1 \/ b = 2 \/ b = 3
    OBVIOUS
  <2> QED BY <1>2, <2>1, <2>2 DEF Names
<1>6. Workers(EngineLayout) = 0..(EngineTensor * NumShards - 1)
  BY <1>3 DEF Workers
<1>7. Engines = {w \in 0..(EngineTensor * NumShards - 1) : w % EngineTensor = 0}
  <2>1. Names(EngineLayout) \ ({"data_parallel"} \cup {}) = {"pipeline_parallel", "tensor_parallel"}
    BY <1>5
  <2>2. \A w \in 0..(EngineTensor * NumShards - 1) :
            (\A name \in {"pipeline_parallel", "tensor_parallel"} :
                 Coordinate(EngineLayout, w, name) = 0) <=> w % EngineTensor = 0
    BY <1>4
  <2> QED BY <1>6, <2>1, <2>2 DEF Engines, Called
<1>8. ASSUME NEW s \in 1..NumShards
      PROVE  /\ EngineTensor * (s - 1) \in 0..(EngineTensor * NumShards - 1)
             /\ (EngineTensor * (s - 1)) % EngineTensor = 0
             /\ (EngineTensor * (s - 1)) \div EngineTensor = s - 1
             /\ (s - 1) % NumShards = s - 1
  <2>1. s - 1 \in 0..(NumShards - 1)
    BY <1>1
  <2>2. /\ (EngineTensor * (s - 1) + 0) \div EngineTensor = s - 1
        /\ (EngineTensor * (s - 1) + 0) % EngineTensor = 0
    <3>1. s - 1 \in Nat /\ 0 \in 0..(EngineTensor - 1)
      BY <1>1, <2>1
    <3> QED BY <1>1, <3>1, Quotient
  <2>3. (NumShards * 0 + (s - 1)) % NumShards = s - 1
    BY <1>1, <2>1, Quotient
  <2>4. EngineTensor * (s - 1) \in Nat /\ EngineTensor * s \in Nat
        /\ EngineTensor * (s - 1) + EngineTensor = EngineTensor * s
        /\ s * EngineTensor <= NumShards * EngineTensor
    BY <1>1, <2>1, Order
  <2> QED BY <1>1, <2>1, <2>2, <2>3, <2>4
<1>9. ASSUME NEW w \in 0..(EngineTensor * NumShards - 1), w % EngineTensor = 0
      PROVE  \E s \in 1..NumShards : w = EngineTensor * (s - 1)
  <2>1. w \in Nat /\ w < EngineTensor * NumShards
    BY <1>1
  <2>2. w \div EngineTensor \in Nat /\ w = EngineTensor * (w \div EngineTensor) + 0
    BY <1>1, <1>9, <2>1, Division
  <2>3. w \div EngineTensor < NumShards
    BY <1>1, <2>1, QuotientBelow
  <2> DEFINE s == w \div EngineTensor + 1
  <2>4. s \in 1..NumShards /\ s - 1 = w \div EngineTensor
    BY <1>1, <2>2, <2>3
  <2>5. w = EngineTensor * (s - 1)
    BY <2>2, <2>4
  <2> QED BY <2>4, <2>5
<1>10. Engines = {EngineTensor * (s - 1) : s \in 1..NumShards}
  BY <1>7, <1>8, <1>9
<1>11. \A s \in 1..NumShards :
           Coordinate(EngineLayout, EngineTensor * (s - 1), "data_parallel") = s - 1
  <2> SUFFICES ASSUME NEW s \in 1..NumShards
               PROVE  Coordinate(EngineLayout, EngineTensor * (s - 1), "data_parallel") = s - 1
    OBVIOUS
  <2> DEFINE w == EngineTensor * (s - 1)
  <2>1. w \in Nat /\ w \div EngineTensor = s - 1 /\ (s - 1) % NumShards = s - 1
    BY <1>8
  <2> HIDE DEF w
  <2>2. Coordinate(EngineLayout, w, "data_parallel") = (w \div EngineTensor) % NumShards
    BY <1>4, <2>1
  <2> QED BY <2>1, <2>2 DEF w
<1>12. Returning(EngineLayout, Engines, {}) = Engines
  BY DEF Returning
<1> QED BY <1>3, <1>10, <1>11, <1>12

HIDE RolloutConstants

\* The shards cut the active samples where their bounds are.
Cap(x) == IF x < Len(active) THEN x ELSE Len(active)

\* The samples of a full shard.
ShardSize == (Len(active) + NumShards - 1) \div NumShards

\* A shard is a run of the active samples; the shards meet, and the last one ends them.
LEMMA ShardsCut ==
    ASSUME NEW X, active \in Seq(X)
    PROVE  /\ ShardSize \in Nat /\ Cap(ShardSize * NumShards) = Len(active)
           /\ \A s \in 1..NumShards :
                  /\ ShardOf(s) \in Seq(X) /\ (s - 1) * ShardSize \in Nat
                  /\ Len(ShardOf(s)) = Cap(s * ShardSize) - Cap((s - 1) * ShardSize)
                  /\ \A j \in 1..Len(ShardOf(s)) :
                         /\ ShardOf(s)[j] = active[(s - 1) * ShardSize + j]
                         /\ Cap((s - 1) * ShardSize) = (s - 1) * ShardSize
<1> DEFINE L == Len(active)
           size == ShardSize
<1>1. L \in Nat /\ NumShards \in Nat \ {0}
  BY EngineAxes
<1>2. size \in Nat /\ L <= NumShards * size
  <2>1. L + NumShards - 1 \in Nat
    BY <1>1
  <2>2. /\ size \in Nat /\ (L + NumShards - 1) % NumShards \in 0..(NumShards - 1)
        /\ L + NumShards - 1 = NumShards * size + ((L + NumShards - 1) % NumShards)
    BY <1>1, <2>1, Division DEF ShardSize
  <2> HIDE DEF size
  <2>3. NumShards * size \in Nat
    BY <1>1, <2>2
  <2> QED BY <1>1, <2>2, <2>3
<1> HIDE DEF size
<1>3. Cap(size * NumShards) = L
  <2>1. size * NumShards = NumShards * size
    BY <1>1, <1>2
  <2> HIDE DEF L
  <2> QED BY <1>1, <1>2, <2>1 DEF Cap, L
<1>4. ASSUME NEW s \in 1..NumShards
      PROVE  /\ ShardOf(s) \in Seq(X) /\ (s - 1) * size \in Nat
             /\ Len(ShardOf(s)) = Cap(s * size) - Cap((s - 1) * size)
             /\ \A j \in 1..Len(ShardOf(s)) :
                    /\ ShardOf(s)[j] = active[(s - 1) * size + j]
                    /\ Cap((s - 1) * size) = (s - 1) * size
  <2> DEFINE a == (s - 1) * size
             b == s * size
             end == IF b < L THEN b ELSE L
  <2>1. a \in Nat /\ b \in Nat /\ b = a + size
    <3>1. s - 1 \in Nat /\ s \in Nat
      OBVIOUS
    <3> QED BY <1>2, <3>1
  <2>2. ShardOf(s) = SubSeq(active, a + 1, end)
    BY DEF ShardOf, size, ShardSize
  <2> HIDE DEF a, b
  <2>3. end \in Nat /\ end <= L
    BY <1>1, <2>1
  <2>4. /\ ShardOf(s) \in Seq(X)
        /\ Len(ShardOf(s)) = IF a + 1 <= end THEN end - a ELSE 0
        /\ \A j \in 1..Len(ShardOf(s)) : ShardOf(s)[j] = active[a + j]
    <3>1. \A i \in (a + 1)..end : i \in 1..L
      BY <2>1, <2>3
    <3>2. \A i \in (a + 1)..end : i \in 1..L /\ active[i] \in X
      BY <3>1
    <3> DEFINE part == SubSeq(active, a + 1, end)
    <3>3. /\ part \in Seq(X)
          /\ Len(part) = IF a + 1 <= end THEN end - (a + 1) + 1 ELSE 0
          /\ \A j \in 1..Len(part) : part[j] = active[(a + 1) + j - 1]
      BY <2>1, <2>3, <3>1, SubSeqProperties
    <3>4. \A j \in 1..Len(part) : (a + 1) + j - 1 = a + j
      BY <2>1, <3>3
    <3>5. end - (a + 1) + 1 = end - a
      BY <2>1, <2>3
    <3> QED BY <2>2, <3>3, <3>4, <3>5
  <2>5. Len(ShardOf(s)) = Cap(b) - Cap(a)
    <3>1. Cap(b) = end /\ Cap(a) = IF a < L THEN a ELSE L
      BY DEF Cap
    <3> HIDE DEF L
    <3>2. (IF a + 1 <= end THEN end - a ELSE 0) = end - (IF a < L THEN a ELSE L)
      <4>1. a \in Nat /\ b \in Nat /\ L \in Nat /\ a <= b
        BY <1>1, <1>2, <2>1
      <4>2. CASE a < L
        BY <4>1, <4>2
      <4>3. CASE ~(a < L)
        BY <4>1, <4>3
      <4> QED BY <4>2, <4>3
    <3> QED BY <2>4, <3>1, <3>2, Zenon
  <2>6. ASSUME NEW j \in 1..Len(ShardOf(s)) PROVE Cap(a) = a
    BY <1>1, <2>1, <2>4 DEF Cap
  <2> QED BY <2>1, <2>4, <2>5, <2>6 DEF a, b
<1> QED BY <1>2, <1>3, <1>4 DEF size

-----------------------------------------------------------------------------
(* What engines and environments return. *)

\* How many engines there are among the first k workers.
EnginesBelow(k) == (k + EngineTensor - 1) \div EngineTensor

\* Every EngineTensor-th worker is an engine, and no other one.
LEMMA EnginesCounted ==
    /\ EnginesBelow(0) = 0 /\ EnginesBelow(EngineTensor * NumShards) = NumShards
    /\ EngineTensor * NumShards \in Nat
    /\ \A k \in 0..(EngineTensor * NumShards - 1) :
           /\ EnginesBelow(k) \in Nat
           /\ k \in Engines =>
                  /\ EnginesBelow(k + 1) = EnginesBelow(k) + 1
                  /\ EnginesBelow(k) + 1 \in 1..NumShards
                  /\ k = EngineTensor * EnginesBelow(k)
           /\ k \notin Engines => EnginesBelow(k + 1) = EnginesBelow(k)
<1> DEFINE T == EngineTensor
           S == NumShards
<1>1. S \in Nat \ {0} /\ T \in Nat \ {0}
  BY EngineAxes
<1>2. Engines = {T * (s - 1) : s \in 1..S}
  BY EngineNumbers
<1> HIDE DEF T, S
<1> USE DEF EnginesBelow
<1>3. ASSUME NEW q \in Nat, NEW r \in 0..(T - 1)
      PROVE  /\ r = 0 => (T * q + r + T - 1) \div T = q
             /\ r # 0 => (T * q + r + T - 1) \div T = q + 1
  <2>1. T * q \in Nat /\ T * (q + 1) = T * q + T
    BY <1>1
  <2>2. T - 1 \in 0..(T - 1) /\ (r # 0 => r - 1 \in 0..(T - 1)) /\ q + 1 \in Nat
    BY <1>1
  <2>3. (T * q + (T - 1)) \div T = q
    BY <1>1, <2>2, Quotient
  <2>4. r # 0 => (T * (q + 1) + (r - 1)) \div T = q + 1
    BY <1>1, <2>2, Quotient
  <2>5. r = 0 => T * q + r + T - 1 = T * q + (T - 1)
    BY <1>1, <2>1
  <2>6. r # 0 => T * q + r + T - 1 = T * (q + 1) + (r - 1)
    BY <1>1, <2>1
  <2> QED BY <2>3, <2>4, <2>5, <2>6
<1>4. T * S \in Nat /\ EnginesBelow(0) = 0 /\ EnginesBelow(T * S) = S
  <2>1. 0 \in 0..(T - 1) /\ 0 \in Nat /\ S \in Nat
    BY <1>1
  <2>2. (T * 0 + 0 + T - 1) \div T = 0 /\ (T * S + 0 + T - 1) \div T = S
    BY <1>3, <2>1
  <2>3. T * S \in Nat /\ T * 0 + 0 + T - 1 = 0 + T - 1 /\ T * S + 0 + T - 1 = T * S + T - 1
    BY <1>1
  <2> QED BY <2>2, <2>3 DEF T
<1>5. ASSUME NEW k \in 0..(T * S - 1)
      PROVE  /\ EnginesBelow(k) \in Nat
             /\ k \in Engines =>
                    /\ EnginesBelow(k + 1) = EnginesBelow(k) + 1
                    /\ EnginesBelow(k) + 1 \in 1..S
                    /\ k = T * EnginesBelow(k)
             /\ k \notin Engines => EnginesBelow(k + 1) = EnginesBelow(k)
  <2> DEFINE q == k \div T
             r == k % T
  <2>1. k \in Nat /\ k < T * S
    BY <1>1, <1>4
  <2>2. q \in Nat /\ r \in 0..(T - 1) /\ k = T * q + r /\ q < S
    BY <1>1, <2>1, Division, QuotientBelow
  <2>3. k \in Engines <=> r = 0
    <3>1. ASSUME NEW s \in 1..S, k = T * (s - 1) PROVE r = 0
      <4>1. s - 1 \in Nat /\ 0 \in 0..(T - 1)
        BY <1>1
      <4>2. (T * (s - 1) + 0) % T = 0
        BY <1>1, <4>1, Quotient
      <4>3. T * (s - 1) + 0 = k
        BY <2>1, <3>1
      <4> QED BY <4>2, <4>3
    <3>2. ASSUME r = 0 PROVE k \in Engines
      <4> HIDE DEF q, r
      <4>1. q + 1 \in 1..S /\ (q + 1) - 1 = q /\ T * q \in Nat
        BY <1>1, <2>2
      <4>2. k = T * ((q + 1) - 1)
        BY <2>2, <3>2, <4>1
      <4> QED BY <1>2, <4>1, <4>2
    <3> QED BY <1>2, <3>1, <3>2
  <2> HIDE DEF q, r
  <2>4. EnginesBelow(k) = IF r = 0 THEN q ELSE q + 1
    BY <1>3, <2>2 DEF T
  <2>5. EnginesBelow(k + 1) = q + 1
    <3>1. EnginesBelow(k + 1) = (k + T) \div T
      <4>1. k + 1 + T - 1 = k + T
        BY <1>1, <2>1
      <4> QED BY <4>1 DEF T
    <3>2. (T * (q + 1) + r) \div T = q + 1
      <4>1. q + 1 \in Nat
        BY <2>2
      <4> QED BY <1>1, <2>2, <4>1, Quotient
    <3>3. T * (q + 1) + r = k + T
      BY <1>1, <2>2
    <3> QED BY <3>1, <3>2, <3>3
  <2>6. r = 0 => k = T * q
    <3>1. T * q \in Nat
      BY <1>1, <2>2
    <3> QED BY <2>2, <3>1
  <2>7. q + 1 \in Nat /\ q + 1 \in 1..S
    BY <1>1, <2>2
  <2> HIDE DEF EnginesBelow
  <2>8. CASE r = 0
    BY <2>2, <2>3, <2>4, <2>5, <2>6, <2>7, <2>8
  <2>9. CASE r # 0
    BY <2>2, <2>3, <2>4, <2>5, <2>6, <2>7, <2>9
  <2> QED BY <2>8, <2>9
<1> QED BY <1>4, <1>5 DEF T, S

\* A list answers the samples of a source, one by one.
Fits(a, samples, R) == a \in Seq(R) /\ Len(a) = Len(samples)

\* The answers of the engines, one after the other, are those to the active samples.
LEMMA CollectedInOrder ==
    ASSUME NEW X, active \in Seq(X), NEW R,
           \A s \in 1..NumShards : Fits(answers[EngineTensor * (s - 1)], ShardOf(s), R)
    PROVE  /\ Collected \in Seq(R) /\ Len(Collected) = Len(active)
           /\ \A p \in 1..Len(active) : \E s \in 1..NumShards : \E j \in 1..Len(ShardOf(s)) :
                  /\ active[p] = ShardOf(s)[j]
                  /\ Collected[p] = answers[EngineTensor * (s - 1)][j]
<1> DEFINE n == EngineTensor * NumShards
           L == Len(active)
           Bound(c) == Cap(c * ShardSize)
           start == [k \in 0..n |-> Bound(EnginesBelow(k))]
           pieces == [k \in 1..n |-> IF k - 1 \in Engines THEN answers[k - 1] ELSE << >>]
<1>1. Collected = FlattenSeq(pieces)
  BY EngineNumbers DEF Collected, Gathered
<1>2. n \in Nat /\ L \in Nat /\ ShardSize \in Nat
  BY EnginesCounted, ShardsCut
<1>3. ASSUME NEW c \in Nat PROVE Bound(c) \in 0..L
  <2>1. c * ShardSize \in Nat
    BY <1>2, <1>3
  <2> HIDE DEF L
  <2>2. c * ShardSize \in Nat /\ L \in Nat
    BY <1>2, <2>1
  <2> QED BY <2>2 DEF Cap, L
<1>4. ASSUME NEW s \in 1..NumShards
      PROVE  /\ Fits(answers[EngineTensor * (s - 1)], ShardOf(s), R)
             /\ Len(ShardOf(s)) = Bound(s) - Bound(s - 1)
             /\ \A j \in 1..Len(ShardOf(s)) : ShardOf(s)[j] = active[Bound(s - 1) + j]
  BY ShardsCut
<1>5. ASSUME NEW k \in 0..(n - 1)
      PROVE  /\ EnginesBelow(k) \in Nat
             /\ k \in Engines =>
                  /\ EnginesBelow(k) + 1 \in 1..NumShards
                  /\ EnginesBelow(k + 1) = EnginesBelow(k) + 1
                  /\ pieces[k + 1] = answers[EngineTensor * EnginesBelow(k)]
             /\ k \notin Engines =>
                  pieces[k + 1] = << >> /\ EnginesBelow(k + 1) = EnginesBelow(k)
  <2>1. k + 1 \in 1..n /\ k + 1 - 1 = k
    BY <1>2
  <2>2. pieces[k + 1] = IF k \in Engines THEN answers[k] ELSE << >>
    BY <2>1
  <2> HIDE DEF pieces
  <2> QED BY <2>2, EnginesCounted
<1> HIDE DEF pieces, Bound
<1>6. ASSUME NEW k \in 0..(n - 1)
      PROVE  /\ pieces[k + 1] \in Seq(R)
             /\ Bound(EnginesBelow(k + 1)) = Bound(EnginesBelow(k)) + Len(pieces[k + 1])
  <2> DEFINE c == EnginesBelow(k)
  <2>1. CASE k \in Engines
    <3>1. /\ c \in Nat /\ c + 1 \in 1..NumShards /\ EnginesBelow(k + 1) = c + 1
          /\ pieces[k + 1] = answers[EngineTensor * c]
      BY <1>5, <2>1
    <3> HIDE DEF c
    <3>2. /\ Fits(answers[EngineTensor * ((c + 1) - 1)], ShardOf(c + 1), R)
          /\ Len(ShardOf(c + 1)) = Bound(c + 1) - Bound((c + 1) - 1)
      BY <1>4, <3>1
    <3>3. (c + 1) - 1 = c
      BY <3>1
    <3>4. Bound(c) \in 0..L /\ Bound(c + 1) \in 0..L
      BY <1>3, <3>1
    <3>5. pieces[k + 1] \in Seq(R) /\ Len(pieces[k + 1]) = Bound(c + 1) - Bound(c)
      BY <3>1, <3>2, <3>3 DEF Fits
    <3>6. Bound(c + 1) = Bound(c) + Len(pieces[k + 1])
      BY <1>2, <3>4, <3>5
    <3> QED BY <3>1, <3>5, <3>6 DEF c
  <2>2. CASE k \notin Engines
    <3>1. c \in Nat /\ pieces[k + 1] = << >> /\ EnginesBelow(k + 1) = c
      BY <1>5, <2>2
    <3> HIDE DEF c
    <3>2. Bound(c) \in 0..L /\ << >> \in Seq(R) /\ Len(<< >>) = 0
      BY <1>3, <3>1
    <3> QED BY <1>2, <3>1, <3>2 DEF c
  <2> QED BY <2>1, <2>2
<1>7. pieces \in [1..n -> Seq(R)]
  <2>1. ASSUME NEW k \in 1..n PROVE pieces[k] \in Seq(R)
    <3>1. k - 1 \in 0..(n - 1) /\ (k - 1) + 1 = k
      BY <1>2
    <3>2. pieces[(k - 1) + 1] \in Seq(R)
      BY <1>6, <3>1
    <3> QED BY <3>1, <3>2
  <2>2. pieces = [k \in 1..n |-> pieces[k]]
    BY DEF pieces
  <2> QED BY <2>1, <2>2
<1>8. \A k \in 0..n : EnginesBelow(k) \in Nat
  <2> SUFFICES ASSUME NEW k \in 0..n PROVE EnginesBelow(k) \in Nat
    OBVIOUS
  <2>1. k = n \/ k \in 0..(n - 1)
    BY <1>2
  <2>2. EnginesBelow(n) \in Nat
    BY EnginesCounted, EngineAxes
  <2> QED BY <1>5, <2>1, <2>2
<1>9. StartsOf(start, pieces, n)
  <2>1. start \in [0..n -> Nat]
    <3> SUFFICES ASSUME NEW k \in 0..n PROVE Bound(EnginesBelow(k)) \in Nat
      OBVIOUS
    <3>1. Bound(EnginesBelow(k)) \in 0..L
      BY <1>3, <1>8
    <3> QED BY <1>2, <3>1
  <2>2. start[0] = 0
    <3>1. start[0] = Bound(0)
      BY <1>2, EnginesCounted
    <3>2. 0 * ShardSize = 0
      BY <1>2
    <3>3. Bound(0) = 0
      BY <1>2, <3>2 DEF Bound, Cap
    <3> QED BY <3>1, <3>3
  <2>3. ASSUME NEW k \in 0..(n - 1) PROVE start[k + 1] = start[k] + Len(pieces[k + 1])
    <3>1. k \in 0..n /\ k + 1 \in 0..n
      BY <1>2
    <3>2. start[k] = Bound(EnginesBelow(k)) /\ start[k + 1] = Bound(EnginesBelow(k + 1))
      BY <3>1
    <3> HIDE DEF start
    <3> QED BY <1>6, <3>2
  <2> HIDE DEF start
  <2> QED BY <2>1, <2>2, <2>3 DEF StartsOf
<1>10. FlattenSeq(pieces) \in Seq(R) /\ LaysOut(FlattenSeq(pieces), pieces, start, n)
  <2> HIDE DEF start, n
  <2> QED BY <1>2, <1>7, <1>9, Flattened
<1>11. start[n] = L
  <2>1. start[n] = Bound(NumShards)
    BY <1>2, EnginesCounted
  <2>2. Cap(ShardSize * NumShards) = L
    BY ShardsCut
  <2>3. NumShards * ShardSize = ShardSize * NumShards
    BY <1>2, EngineAxes
  <2> HIDE DEF start
  <2> QED BY <2>1, <2>2, <2>3 DEF Bound
<1>12. ASSUME NEW p \in 1..L
       PROVE  \E s \in 1..NumShards : \E j \in 1..Len(ShardOf(s)) :
                  /\ active[p] = ShardOf(s)[j]
                  /\ Collected[p] = answers[EngineTensor * (s - 1)][j]
  <2>1. PICK i \in 1..n : \E j \in 1..Len(pieces[i]) : p = start[i - 1] + j
    BY <1>10, <1>11 DEF LaysOut
  <2>2. PICK j \in 1..Len(pieces[i]) : p = start[i - 1] + j
    BY <2>1
  <2> DEFINE k == i - 1
             c == EnginesBelow(k)
  <2>3. k \in 0..(n - 1) /\ k + 1 = i /\ k \in 0..n
    BY <1>2
  <2>4. Collected[p] = pieces[i][j]
    BY <1>1, <1>10, <2>2 DEF LaysOut
  <2>5. start[k] = Bound(c)
    BY <2>3
  <2> HIDE DEF start, k
  <2>6. k \in Engines
    <3>1. ASSUME k \notin Engines PROVE FALSE
      <4>1. pieces[i] = << >>
        BY <1>5, <2>3, <3>1
      <4> QED BY <4>1
    <3> QED BY <3>1
  <2>7. /\ c \in Nat /\ c + 1 \in 1..NumShards
        /\ pieces[i] = answers[EngineTensor * c]
    BY <1>5, <2>3, <2>6
  <2>8. p = Bound(c) + j
    BY <2>2, <2>5 DEF k
  <2> HIDE DEF c
  <2> DEFINE s == c + 1
  <2>9. s \in 1..NumShards /\ s - 1 = c
    BY <2>7
  <2> HIDE DEF s
  <2>10. j \in 1..Len(ShardOf(s))
    BY <1>4, <2>7, <2>9 DEF Fits
  <2>11. ShardOf(s)[j] = active[p]
    BY <1>4, <2>8, <2>9, <2>10
  <2>12. Collected[p] = answers[EngineTensor * (s - 1)][j]
    BY <2>4, <2>7, <2>9
  <2> QED BY <2>9, <2>10, <2>11, <2>12
<1>13. Collected \in Seq(R) /\ Len(Collected) = L
  BY <1>1, <1>10, <1>11 DEF LaysOut
<1> QED BY <1>12, <1>13

\* Every sample has a task.
LEMMA TaskTyped == \A i : TaskOf(i) \in Task
  BY DEF TaskOf, Task

\* The group of a task is made of its active samples, and has them all.
LEMMA Grouped ==
    ASSUME NEW X, active \in Seq(X), NEW task
    PROVE  /\ GroupOf(task) \in Seq(X)
           /\ \A p \in 1..Len(GroupOf(task)) : TaskOf(GroupOf(task)[p]) = task
           /\ \A k \in 1..Len(active) : TaskOf(active[k]) = task =>
                  \E p \in 1..Len(GroupOf(task)) : GroupOf(task)[p] = active[k]
<1> DEFINE n == Len(active)
           keep == [k \in 1..n |-> TaskOf(active[k]) = task]
           flat == FlattenSeq([k \in 1..n |-> IF keep[k] THEN <<active[k]>> ELSE << >>])
<1>1. n \in Nat /\ DOMAIN active = 1..n /\ active \in [1..n -> X] /\ keep \in [1..n -> BOOLEAN]
  OBVIOUS
<1>2. GroupOf(task) = flat
  <2>1. GroupOf(task) = FlattenSeq([k \in DOMAIN active |->
            IF TaskOf(active[k]) = task THEN <<active[k]>> ELSE << >>])
    BY Zenon DEF GroupOf, Those
  <2>2. [k \in DOMAIN active |-> IF TaskOf(active[k]) = task THEN <<active[k]>> ELSE << >>]
            = [k \in 1..n |-> IF keep[k] THEN <<active[k]>> ELSE << >>]
    BY <1>1
  <2> QED BY <2>1, <2>2
<1>3. \A k \in 1..n : keep[k] <=> TaskOf(active[k]) = task
  OBVIOUS
<1>4. flat \in Seq(X) /\ KeepsThose(flat, active, keep, n)
  <2>1. n \in Nat /\ active \in [1..n -> X] /\ keep \in [1..n -> BOOLEAN]
    BY <1>1
  <2> HIDE DEF n, keep
  <2> QED BY <2>1, Kept
<1> HIDE DEF flat, keep
<1>5. \A p \in 1..Len(GroupOf(task)) : TaskOf(GroupOf(task)[p]) = task
  <2> SUFFICES ASSUME NEW p \in 1..Len(GroupOf(task)) PROVE TaskOf(GroupOf(task)[p]) = task
    OBVIOUS
  <2>1. PICK k \in 1..n : keep[k] /\ GroupOf(task)[p] = active[k]
    BY <1>2, <1>4, Zenon DEF KeepsThose
  <2> QED BY <1>3, <2>1, Zenon
<1>6. \A k \in 1..n : TaskOf(active[k]) = task =>
          \E p \in 1..Len(GroupOf(task)) : GroupOf(task)[p] = active[k]
  BY <1>2, <1>3, <1>4, Zenon DEF KeepsThose
<1>7. GroupOf(task) \in Seq(X)
  BY <1>2, <1>4
<1> QED BY <1>5, <1>6, <1>7

\* Sorted by the samples' places, the answers are those to the active samples.
LEMMA FeedbackSorted ==
    ASSUME NEW X, active \in Seq(X), NEW R,
           DOMAIN answers = {TaskOf(i) : i \in ToSet(active)},
           \A task \in DOMAIN answers : Fits(answers[task], GroupOf(task), R)
    PROVE  \A k \in 1..Len(active) : \E task \in DOMAIN answers :
               \E j \in 1..Len(GroupOf(task)) :
                   active[k] = GroupOf(task)[j] /\ FeedbackInOrder[k] = answers[task][j]
<1> SUFFICES ASSUME NEW k \in 1..Len(active)
             PROVE  \E task \in DOMAIN answers : \E j \in 1..Len(GroupOf(task)) :
                        active[k] = GroupOf(task)[j] /\ FeedbackInOrder[k] = answers[task][j]
  OBVIOUS
<1> DEFINE tasks == GroupsInOrder
           n == Len(tasks)
           a == [g \in DOMAIN tasks |-> answers[tasks[g]]]
           b == [g \in DOMAIN tasks |-> GroupOf(tasks[g])]
<1>1. DOMAIN answers \subseteq Task /\ TaskOf(active[k]) \in DOMAIN answers
      /\ TaskOf(Head(active)) \in DOMAIN answers
  <2>1. DOMAIN active = 1..Len(active) /\ Head(active) = active[1] /\ 1 \in 1..Len(active)
    OBVIOUS
  <2>2. active[k] \in ToSet(active) /\ Head(active) \in ToSet(active)
    BY <2>1 DEF ToSet
  <2> QED BY <2>2, TaskTyped
<1>2. /\ n \in Nat /\ DOMAIN tasks = 1..n /\ tasks \in [1..n -> DOMAIN answers]
      /\ \E g \in 1..n : tasks[g] = TaskOf(active[k])
  <2> DEFINE first == TaskOf(Head(active))
             other == CHOOSE task \in Task : task # first
  <2>1. other \in Task /\ other # first
    <3>1. \E task \in Task : task # first
      BY DEF Task, Grader, Game
    <3> QED BY <3>1
  <2>2. TaskOf(active[k]) \in {first, other}
    <3>1. first \in Task /\ TaskOf(active[k]) \in Task
      BY TaskTyped
    <3> QED BY <2>1, <3>1 DEF Task
  <2>3. tasks = IF other \in DOMAIN answers THEN <<first, other>> ELSE <<first>>
    BY DEF GroupsInOrder
  <2> HIDE DEF first, other, tasks
  <2>4. first \in DOMAIN answers
    BY <1>1 DEF first
  <2>5. CASE other \in DOMAIN answers
    <3>1. tasks = <<first, other>>
      BY <2>3, <2>5
    <3>2. n = 2 /\ tasks[1] = first /\ tasks[2] = other /\ DOMAIN tasks = 1..2
          /\ tasks \in [1..2 -> DOMAIN answers]
      BY <2>4, <2>5, <3>1
    <3> QED BY <2>2, <3>2
  <2>6. CASE other \notin DOMAIN answers
    <3>1. tasks = <<first>>
      BY <2>3, <2>6
    <3>2. n = 1 /\ tasks[1] = first /\ DOMAIN tasks = 1..1 /\ tasks \in [1..1 -> DOMAIN answers]
      BY <2>4, <3>1
    <3>3. TaskOf(active[k]) = first
      BY <1>1, <2>2, <2>6
    <3> QED BY <3>2, <3>3
  <2> QED BY <2>5, <2>6
<1> HIDE DEF tasks
<1>3. /\ a \in [1..n -> Seq(R)] /\ b \in [1..n -> Seq(X)]
      /\ \A g \in 1..n : /\ a[g] = answers[tasks[g]] /\ b[g] = GroupOf(tasks[g])
                         /\ Len(a[g]) = Len(b[g]) /\ tasks[g] \in DOMAIN answers
  <2>1. \A g \in 1..n : /\ tasks[g] \in DOMAIN answers
                        /\ Fits(answers[tasks[g]], GroupOf(tasks[g]), R)
    BY <1>2
  <2>2. \A g \in 1..n : answers[tasks[g]] \in Seq(R) /\ GroupOf(tasks[g]) \in Seq(X)
                        /\ Len(answers[tasks[g]]) = Len(GroupOf(tasks[g]))
    BY <2>1, Grouped DEF Fits
  <2> QED BY <1>2, <2>1, <2>2
<1>4. GroupAnswers = FlattenSeq(a) /\ GroupPlaces = FlattenSeq(b)
  BY Zenon DEF GroupAnswers, GroupPlaces, tasks
<1> HIDE DEF a, b, n
<1>5. /\ Len(FlattenSeq(a)) = Len(FlattenSeq(b)) /\ Len(FlattenSeq(a)) \in Nat
      /\ \A p \in 1..Len(FlattenSeq(a)) : \E i \in 1..n : \E j \in 1..Len(a[i]) :
             FlattenSeq(a)[p] = a[i][j] /\ FlattenSeq(b)[p] = b[i][j]
      /\ \A i \in 1..n : \A j \in 1..Len(a[i]) : \E p \in 1..Len(FlattenSeq(a)) :
             FlattenSeq(a)[p] = a[i][j] /\ FlattenSeq(b)[p] = b[i][j]
  <2>1. n \in Nat /\ a \in [1..n -> Seq(R)] /\ b \in [1..n -> Seq(X)]
        /\ \A g \in 1..n : Len(a[g]) = Len(b[g])
    BY <1>2, <1>3
  <2>2. FlattenSeq(a) \in Seq(R)
    BY <2>1, SideBySide
  <2>3. Alongside(FlattenSeq(a), FlattenSeq(b), a, b, n)
    BY <2>1, SideBySide
  <2>4. Len(FlattenSeq(a)) \in Nat
    BY <2>2
  <2> QED BY <2>3, <2>4, Zenon DEF Alongside
<1> DEFINE m == Len(FlattenSeq(a))
           at == {p \in 1..m : FlattenSeq(b)[p] = active[k]}
           p == SelectInSeq(GroupPlaces, LAMBDA i : i = active[k])
<1>6. at # {}
  <2>1. PICK g \in 1..n : tasks[g] = TaskOf(active[k])
    BY <1>2 DEF n
  <2>2. PICK j \in 1..Len(b[g]) : b[g][j] = active[k]
    BY <1>3, <2>1, Grouped
  <2>3. j \in 1..Len(a[g])
    BY <1>3
  <2>4. PICK q \in 1..m : FlattenSeq(b)[q] = b[g][j]
    BY <1>5, <2>3
  <2> QED BY <2>2, <2>4
<1>7. p \in at
  <2>1. p = Min(at)
    BY <1>4, <1>5, <1>6, Zenon DEF SelectInSeq
  <2>2. at \in SUBSET Nat
    OBVIOUS
  <2> HIDE DEF at
  <2>3. Min(at) \in at
    BY <1>6, <2>2, Smallest DEF Min
  <2> QED BY <2>1, <2>3
<1>8. FeedbackInOrder[k] = FlattenSeq(a)[p]
  <2>1. k \in DOMAIN active
    OBVIOUS
  <2>2. FeedbackInOrder[k] = GroupAnswers[SelectInSeq(GroupPlaces, LAMBDA i : i = active[k])]
    BY <2>1, Zenon DEF FeedbackInOrder
  <2> QED BY <1>4, <2>2, Zenon
<1> HIDE DEF p
<1>9. PICK i \in 1..n : \E j \in 1..Len(a[i]) :
          FlattenSeq(a)[p] = a[i][j] /\ FlattenSeq(b)[p] = b[i][j]
  BY <1>5, <1>7
<1>10. PICK j \in 1..Len(a[i]) : FlattenSeq(a)[p] = a[i][j] /\ FlattenSeq(b)[p] = b[i][j]
  BY <1>9
<1>11. /\ tasks[i] \in DOMAIN answers /\ j \in 1..Len(GroupOf(tasks[i]))
       /\ FeedbackInOrder[k] = answers[tasks[i]][j] /\ FlattenSeq(b)[p] = GroupOf(tasks[i])[j]
  BY <1>3, <1>8, <1>10
<1>12. FlattenSeq(b)[p] = active[k]
  BY <1>7
<1> QED BY <1>11, <1>12

USE RolloutConstants

-----------------------------------------------------------------------------
(* The synchronous rollout, one sample. *)

\* A row fits the context, and its types.
WithinContext(row) ==
    /\ Counted(row) /\ Length(row) \in 1..MaxSeqLen
    /\ row.turn \in 0..MaxTurns /\ row.truncated \in BOOLEAN

\* A row whose length is at most the context outgrows it by no message that fits.
LEMMA GrowsWithin ==
    ASSUME NEW row, NEW new, NEW message, IsAList(row.log), new.log = Append(row.log, message),
           WithinContext(row), message.tokens \in Nat,
           Length(row) + message.tokens <= MaxSeqLen,
           new.turn \in 0..MaxTurns, new.truncated \in BOOLEAN
    PROVE  WithinContext(new)
<1>1. /\ IsAList(new.log) /\ Len(row.log) \in Nat /\ Len(new.log) = Len(row.log) + 1
      /\ \A k \in 1..Len(row.log) : new.log[k] = row.log[k]
      /\ new.log[Len(row.log) + 1] = message
  <2>1. IsAList(row.log) /\ new.log = Append(row.log, message)
    OBVIOUS
  <2> QED BY ONLY <2>1, Appended
<1>2. DOMAIN row.log = 1..Len(row.log) /\ DOMAIN new.log = 1..(Len(row.log) + 1)
  BY <1>1 DEF IsAList
<1>3. Counted(new) /\ Length(new) = Length(row) + message.tokens
  <2>1. OneLonger(row, new, message, Len(row.log)) /\ Counted(row)
    BY <1>1, <1>2 DEF OneLonger, WithinContext
  <2> QED BY <2>1, LengthAppended
<1>4. Length(row) \in 1..MaxSeqLen /\ MaxSeqLen \in Nat
  BY DEF WithinContext
<1>5. Length(new) \in 1..MaxSeqLen
  BY <1>3, <1>4
<1> QED BY <1>3, <1>5 DEF WithinContext

\* What an engine answers fits the context.
LEMMA ResponseFits ==
    ASSUME NEW i, NEW r \in Response(i), WithinContext(rows[i])
    PROVE  /\ r.tokens \in Nat /\ Length(rows[i]) + r.tokens <= MaxSeqLen
           /\ Length(rows[i]) < MaxSeqLen
           /\ r.role = "assistant" /\ r.of = <<i, rows[i].turn>> /\ r.cut \in BOOLEAN
<1>1. /\ r.tokens \in 1..Remaining(rows[i]) /\ r.role = "assistant"
      /\ r.of = <<i, rows[i].turn>> /\ r.cut \in BOOLEAN
  BY DEF Response
<1>2. Length(rows[i]) \in 1..MaxSeqLen /\ MaxSeqLen \in Nat /\ MaxNewTokens \in Nat
  BY DEF WithinContext
<1>3. Remaining(rows[i]) \in Int /\ Remaining(rows[i]) <= MaxSeqLen - Length(rows[i])
  BY <1>2 DEF Remaining
<1> QED BY <1>1, <1>2, <1>3

\* What is kept of an observation fits the context.
LEMMA ObservationFits ==
    ASSUME NEW i, NEW f \in Feedback(i), NEW row, WithinContext(row)
    PROVE  /\ Observation(row, f) \in Nat /\ Length(row) + Observation(row, f) <= MaxSeqLen
           /\ Overflows(row, f) \in BOOLEAN
           /\ f.of = <<i, rows[i].turn>> /\ f.terminated \in BOOLEAN /\ f.metadata \in BOOLEAN
<1>1. /\ f.tokens \in Nat /\ f.of = <<i, rows[i].turn>>
      /\ f.terminated \in BOOLEAN /\ f.metadata \in BOOLEAN
  BY DEF Feedback
<1>2. Length(row) \in 1..MaxSeqLen /\ MaxSeqLen \in Nat
  BY DEF WithinContext
<1> QED BY <1>1, <1>2 DEF Observation, Overflows

\* Between two turns, as many responses as feedbacks.
Between(i, row) ==
    \/ row = NewRow
    \/ HistoryTo(i, row, "done") /\ Len(row.log) = 2 * row.turn

\* An empty log is a list.
LEMMA EmptyList == IsAList(<< >>)
<1>1. << >> \in Seq({}) /\ {<< >>[i] : i \in DOMAIN << >>} = {}
  OBVIOUS
<1> QED BY <1>1 DEF IsAList

\* A row without messages fits the context.
LEMMA NewFits == ASSUME NEW row, row.log = << >>, row.turn \in 0..MaxTurns, row.truncated \in BOOLEAN
                 PROVE  WithinContext(row)
<1>1. Counted(row) /\ Length(row) = PromptLength
  BY LengthOfNew
<1> QED BY <1>1 DEF WithinContext

\* A sample starts its next turn.
LEMMA SampleStarts ==
    ASSUME NEW i, NEW row, NEW new, Between(i, row), WithinContext(row), row.turn < MaxTurns,
           new = [row EXCEPT !.turn = @ + 1]
    PROVE  HistoryTo(i, new, "wait") /\ WithinContext(new) /\ new.turn = row.turn + 1
<1>1. DOMAIN row = RowFields /\ IsAList(row.log) /\ row.turn \in Nat
  <2>1. CASE row = NewRow
    BY <2>1, EmptyList DEF NewRow, RowFields
  <2>2. CASE HistoryTo(i, row, "done")
    BY <2>2 DEF HistoryTo
  <2> QED BY <2>1, <2>2 DEF Between
<1>2. /\ DOMAIN new = RowFields /\ new.log = row.log /\ new.rewards = row.rewards
      /\ new.truncated = row.truncated /\ new.stops = row.stops /\ new.info = row.info
      /\ new.turn = row.turn + 1
  BY <1>1 DEF RowFields
<1>3. WithinContext(new)
  <2>1. DOMAIN row.log = 1..Len(row.log) /\ Len(row.log) \in Nat
    BY <1>1 DEF IsAList
  <2>2. Length(new) = Length(row) /\ Counted(new)
    <3>1. Length(new) = Length(row)
      BY <1>2 DEF Length
    <3> QED BY <1>2, <3>1 DEF Counted, WithinContext
  <2>3. new.turn \in 0..MaxTurns /\ new.truncated \in BOOLEAN /\ Length(row) \in 1..MaxSeqLen
    BY <1>1, <1>2 DEF WithinContext
  <2> QED BY <2>2, <2>3 DEF WithinContext
<1>4. CASE row = NewRow
  <2>1. row.log = << >> /\ row.turn = 0 /\ row.rewards = << >> /\ row.stops = << >> /\ row.info = << >>
    BY <1>4 DEF NewRow
  <2>2. new.log = << >> /\ new.turn = 1 /\ new.rewards = << >> /\ new.stops = << >> /\ new.info = << >>
    BY <1>2, <2>1
  <2>3. Len(new.log) = 0 /\ 0 \div 2 = 0
    BY <2>2
  <2>4. new.rewards = [t \in 1..(Len(new.log) \div 2) |-> <<i, t>>]
    <3>1. << >> = [t \in 1..0 |-> <<i, t>>]
      OBVIOUS
    <3> QED BY <2>2, <2>3, <3>1
  <2>5. /\ \A k \in 1..Len(new.log) : FALSE
        /\ Len(new.log) = 2 * (new.turn - 1) /\ new.turn \in Nat \ {0} /\ IsAList(new.log)
    BY ONLY <2>2, <2>3, EmptyList
  <2>6. HistoryTo(i, new, "wait")
    BY ONLY <1>2, <2>2, <2>4, <2>5 DEF HistoryTo
  <2> QED BY <1>2, <1>3, <2>6
<1>5. CASE HistoryTo(i, row, "done") /\ Len(row.log) = 2 * row.turn
  <2> DEFINE turn == row.turn
             n == Len(row.log)
  <2>1. turn \in Nat \ {0} /\ n = 2 * turn /\ new.turn = turn + 1 /\ Len(new.log) = n
    BY <1>2, <1>5 DEF HistoryTo
  <2>2. \A k \in 1..n : /\ row.log[k].of = <<i, (k + 1) \div 2>>
                        /\ (k % 2) = 0 <=> row.log[k].role = "environment"
                        /\ row.log[k].role = "dummy" => k = n
    BY <1>5 DEF HistoryTo
  <2>3. row.rewards = [t \in 1..(n \div 2) |-> <<i, t>>]
    BY <1>5 DEF HistoryTo
  <2>4. /\ row.stops = << >> \/ \E t \in 1..turn : row.stops = <<i, t>>
        /\ row.info = << >> \/ \E t \in 1..turn : row.info = <<i, t>>
    BY <1>5 DEF HistoryTo
  <2> HIDE DEF turn, n
  <2>5. \A k \in 1..n : row.log[k].role # "dummy"
    <3> SUFFICES ASSUME NEW k \in 1..n, row.log[k].role = "dummy" PROVE FALSE
      OBVIOUS
    <3>1. (k % 2) = 0
      BY <2>1, <2>2
    <3> QED BY <2>2, <3>1
  <2>6. 1..turn \subseteq 1..new.turn
    BY <2>1
  <2>7. /\ new.stops = << >> \/ \E t \in 1..new.turn : new.stops = <<i, t>>
        /\ new.info = << >> \/ \E t \in 1..new.turn : new.info = <<i, t>>
    BY <1>2, <2>4, <2>6
  <2>8. new.rewards = [t \in 1..(Len(new.log) \div 2) |-> <<i, t>>]
    BY <1>2, <2>1, <2>3
  <2>9. \A k \in 1..Len(new.log) :
           /\ new.log[k].of = <<i, (k + 1) \div 2>>
           /\ (k % 2) = 0 <=> new.log[k].role = "environment"
           /\ new.log[k].role # "dummy"
    BY <1>2, <2>1, <2>2, <2>5
  <2>10. new.turn \in Nat \ {0} /\ Len(new.log) = 2 * (new.turn - 1)
    <3> DEFINE next == new.turn
               m == Len(new.log)
    <3>1. turn \in Nat \ {0} /\ next = turn + 1 /\ m = 2 * turn
      BY <2>1
    <3> HIDE DEF next, m
    <3>2. next \in Nat \ {0} /\ m = 2 * (next - 1)
      BY <3>1
    <3> QED BY <3>2 DEF next, m
  <2>11. HistoryTo(i, new, "wait")
    BY <1>1, <1>2, <2>7, <2>8, <2>9, <2>10 DEF HistoryTo
  <2> QED BY <1>2, <1>3, <2>11
<1> QED BY <1>4, <1>5 DEF Between

\* The engine answers a sample.
LEMMA SampleResponds ==
    ASSUME NEW i, NEW r \in Response(i), HistoryTo(i, rows[i], "wait"), WithinContext(rows[i]),
           NEW new, new = [Respond(rows[i], r) EXCEPT !.truncated = @ \/ r.cut]
    PROVE  HistoryTo(i, new, "step") /\ WithinContext(new) /\ new.turn = rows[i].turn
<1> DEFINE row == rows[i]
           message == Message(r)
<1>1. /\ r.tokens \in Nat /\ Length(row) + r.tokens <= MaxSeqLen
      /\ r.role = "assistant" /\ r.of = <<i, row.turn>> /\ r.cut \in BOOLEAN
  BY ResponseFits
<1>2. message.tokens = r.tokens /\ message.role = "assistant" /\ message.of = <<i, row.turn>>
  BY <1>1 DEF Message
<1>3. DOMAIN row = RowFields /\ IsAList(row.log)
  BY DEF HistoryTo
<1>4. row.turn \in 0..MaxTurns /\ row.truncated \in BOOLEAN
  BY DEF WithinContext
<1> HIDE DEF message, row
<1>5. /\ DOMAIN new = RowFields /\ new.log = Append(row.log, message)
      /\ new.turn = row.turn /\ new.rewards = row.rewards
      /\ new.stops = row.stops /\ new.info = row.info
      /\ new.truncated = (row.truncated \/ r.cut)
  BY <1>3 DEF Respond, RowFields, message, row
<1>6. Responded(i, row, message, new, "step")
  BY <1>2, <1>5 DEF Responded
<1>7. HistoryTo(i, new, "step")
  BY <1>6, ResponseIsOwn DEF row
<1>8. WithinContext(row)
  BY DEF row
<1>9. WithinContext(new)
  <2>1. /\ new.truncated \in BOOLEAN /\ new.turn \in 0..MaxTurns
        /\ message.tokens \in Nat /\ Length(row) + message.tokens <= MaxSeqLen
    BY <1>1, <1>2, <1>4, <1>5
  <2> QED BY ONLY <1>3, <1>5, <1>8, <2>1, GrowsWithin
<1> QED BY <1>5, <1>7, <1>9 DEF row

\* What a turn leaves of a row.
AfterTurn(row, f, ends) ==
    IF ends THEN Observe(row, f)
    ELSE [Observe(row, f) EXCEPT !.stops = f.of,
                                 !.info = IF f.metadata THEN f.of ELSE @]

\* The environment answers a sample.
LEMMA SampleObserves ==
    ASSUME NEW i, NEW f \in Feedback(i), HistoryTo(i, rows[i], "step"), WithinContext(rows[i]),
           NEW ends, NEW new, new = AfterTurn(rows[i], f, ends)
    PROVE  Between(i, new) /\ WithinContext(new) /\ new.turn = rows[i].turn
<1> DEFINE row == rows[i]
           message == [role |-> "environment", of |-> f.of, tokens |-> Observation(row, f)]
           seen == Observe(row, f)
<1>1. /\ Observation(row, f) \in Nat /\ Length(row) + Observation(row, f) <= MaxSeqLen
      /\ Overflows(row, f) \in BOOLEAN /\ f.of = <<i, row.turn>>
  BY ObservationFits
<1>2. message.tokens = Observation(row, f) /\ message.role = "environment"
      /\ message.of = <<i, row.turn>> /\ message.of = f.of
  BY <1>1
<1>3. DOMAIN row = RowFields /\ IsAList(row.log) /\ row.turn \in Nat \ {0}
      /\ Len(row.log) = 2 * row.turn - 1
  BY DEF HistoryTo
<1>4. row.turn \in 0..MaxTurns /\ row.truncated \in BOOLEAN /\ WithinContext(row)
  BY DEF WithinContext
<1>5. seen = [row EXCEPT !.log = Append(@, message), !.rewards = Append(@, f.of),
                         !.truncated = @ \/ Overflows(row, f)]
  BY DEF Observe
<1> HIDE DEF message, row, seen
<1>6. /\ DOMAIN seen = RowFields /\ seen.log = Append(row.log, message)
      /\ seen.rewards = Append(row.rewards, message.of) /\ seen.turn = row.turn
      /\ seen.stops = row.stops /\ seen.info = row.info
      /\ seen.truncated = (row.truncated \/ Overflows(row, f))
  BY <1>2, <1>3, <1>5 DEF RowFields
<1>new. new = IF ends THEN seen
              ELSE [seen EXCEPT !.stops = f.of, !.info = IF f.metadata THEN f.of ELSE @]
  BY DEF AfterTurn, seen, row
<1>7. /\ DOMAIN new = RowFields /\ new.log = seen.log /\ new.rewards = seen.rewards
      /\ new.turn = seen.turn /\ new.truncated = seen.truncated
      /\ new.stops \in {seen.stops, f.of} /\ new.info \in {seen.info, f.of}
  <2>1. CASE ends
    BY <1>6, <1>new, <2>1
  <2>2. CASE ~ends
    <3> DEFINE info == IF f.metadata THEN f.of ELSE seen.info
    <3>1. new = [seen EXCEPT !.stops = f.of, !.info = info]
      BY <1>new, <2>2
    <3>2. info \in {seen.info, f.of}
      OBVIOUS
    <3> HIDE DEF info
    <3> QED BY <1>6, <3>1, <3>2 DEF RowFields
  <2> QED BY <2>1, <2>2
<1>8. Observed(i, row, message, new, "done")
  BY <1>2, <1>6, <1>7 DEF Observed
<1>9. HistoryTo(i, new, "done")
  BY <1>8, FeedbackIsOwn, Zenon DEF row
<1>10. Len(new.log) = 2 * new.turn
  <2>1. Len(new.log) = Len(row.log) + 1
    BY <1>3, <1>6, <1>7, Appended
  <2> QED BY <1>3, <1>6, <1>7, <2>1
<1>11. WithinContext(new)
  <2>1. new.log = Append(row.log, message) /\ new.truncated \in BOOLEAN /\ new.turn \in 0..MaxTurns
    BY <1>1, <1>4, <1>6, <1>7
  <2> QED BY ONLY <1>1, <1>2, <1>3, <1>4, <2>1, GrowsWithin
<1> QED BY <1>6, <1>7, <1>9, <1>10, <1>11 DEF Between, row

-----------------------------------------------------------------------------
(* The synchronous rollout, the batch. *)

\* The answers to the given samples, in their order.
Responses(a, samples) ==
    /\ Fits(a, samples, UNION {Response(i) : i \in Sample})
    /\ \A j \in 1..Len(samples) : a[j] \in Response(samples[j])

\* The feedback on the given samples, in their order.
Feedbacks(a, samples) ==
    /\ Fits(a, samples, UNION {Feedback(i) : i \in Sample})
    /\ \A j \in 1..Len(samples) : a[j] \in Feedback(samples[j])

\* The active samples are all at the same place of the same turn.
RowsInv ==
    /\ DOMAIN rows = Sample /\ active \in Seq(Sample)
    /\ \A i \in Sample : WithinContext(rows[i])
    /\ \A i \in Sample : i \notin ToSet(active) \/ stage \in {"turn", "end"} => Between(i, rows[i])
    /\ \A i \in ToSet(active) : /\ stage = "generate" => HistoryTo(i, rows[i], "wait")
                                /\ stage = "step" => HistoryTo(i, rows[i], "step")
    /\ \A i, j \in ToSet(active) : rows[i].turn = rows[j].turn

\* Who has answered, has answered for its own samples.
AnswersInv ==
    /\ stage \in {"turn", "generate", "step", "end"}
    /\ stage \in {"turn", "end"} => waitingFor = {} /\ answers = << >>
    /\ stage = "generate" =>
           /\ waitingFor \cup DOMAIN answers = Engines
           /\ \A s \in 1..NumShards : EngineTensor * (s - 1) \in DOMAIN answers =>
                  Responses(answers[EngineTensor * (s - 1)], ShardOf(s))
    /\ stage = "step" =>
           /\ waitingFor \cup DOMAIN answers = {TaskOf(i) : i \in ToSet(active)}
           /\ \A task \in DOMAIN answers : Feedbacks(answers[task], GroupOf(task))

\* Both hold as long as the synchronous rollout runs.
SyncInv == asyncEngine = FALSE /\ rollout # "handed" => RowsInv /\ AnswersInv

\* The state in which the loop over turns runs, and what a step of it leaves alone.
Loops == asyncEngine = FALSE /\ asyncEngine' = FALSE /\ RowsInv /\ AnswersInv

\* At the start of a turn nobody has answered.
LEMMA NoAnswers == DOMAIN << >> = {}
OBVIOUS

\* A turn starts: each active sample waits for its response.
LEMMA TurnStarts == Loops /\ StartTurn => RowsInv' /\ AnswersInv'
<1> SUFFICES ASSUME Loops, StartTurn PROVE RowsInv' /\ AnswersInv'
  OBVIOUS
<1>1. /\ stage = "turn" /\ stage' = "generate" /\ waitingFor' = Engines
      /\ active' = active /\ answers' = answers
      /\ rows' = [i \in Sample |-> IF i \in ToSet(active) THEN [rows[i] EXCEPT !.turn = @ + 1]
                                   ELSE rows[i]]
  BY DEF StartTurn
<1>2. Sample' = Sample /\ Engines' = Engines
  BY DEF Loops, Sample, Engines
<1>3. PICK first \in ToSet(active) : rows[first].turn < MaxTurns
  BY DEF StartTurn
<1>4. /\ DOMAIN rows = Sample /\ active \in Seq(Sample)
      /\ \A i \in Sample : WithinContext(rows[i]) /\ Between(i, rows[i])
      /\ \A i, j \in ToSet(active) : rows[i].turn = rows[j].turn
      /\ answers = << >>
  BY <1>1 DEF Loops, RowsInv, AnswersInv
<1>5. ToSet(active) \subseteq Sample
  BY <1>4 DEF ToSet
<1>6. \A i \in ToSet(active) : rows[i].turn = rows[first].turn /\ rows[i].turn < MaxTurns
  BY <1>3, <1>4
<1>7. ASSUME NEW i \in ToSet(active)
      PROVE  /\ HistoryTo(i, rows'[i], "wait") /\ WithinContext(rows'[i])
             /\ rows'[i].turn = rows[first].turn + 1
  <2>1. rows'[i] = [rows[i] EXCEPT !.turn = @ + 1]
    BY <1>1, <1>5, <1>7
  <2>2. Between(i, rows[i]) /\ WithinContext(rows[i])
    BY <1>4, <1>5
  <2>3. /\ HistoryTo(i, rows'[i], "wait") /\ WithinContext(rows'[i])
        /\ rows'[i].turn = rows[i].turn + 1
    BY <1>6, <2>1, <2>2, SampleStarts
  <2> QED BY <1>6, <2>3
<1>8. \A i \in Sample : i \notin ToSet(active) => rows'[i] = rows[i]
  BY <1>1
<1>9. RowsInv'
  <2>1. DOMAIN rows' = Sample /\ ToSet(active)' = ToSet(active)
    BY <1>1
  <2>2. \A i \in Sample : WithinContext(rows'[i])
    BY <1>4, <1>7, <1>8
  <2>3. \A i \in Sample : i \notin ToSet(active) => Between(i, rows'[i])
    BY <1>4, <1>8
  <2>4. \A i, j \in ToSet(active) : rows'[i].turn = rows'[j].turn
    BY <1>7
  <2> QED BY <1>1, <1>2, <1>4, <1>7, <2>1, <2>2, <2>3, <2>4 DEF RowsInv
<1>10. AnswersInv'
  <2>1. DOMAIN answers' = {}
    BY <1>1, <1>4, NoAnswers
  <2> QED BY <1>1, <1>2, <2>1 DEF AnswersInv
<1> QED BY <1>9, <1>10

\* The loop ends.
LEMMA LoopEnds == Loops /\ EndRollout => RowsInv' /\ AnswersInv'
<1> SUFFICES ASSUME Loops, EndRollout PROVE RowsInv' /\ AnswersInv'
  OBVIOUS
<1>1. stage = "turn" /\ stage' = "end" /\ active' = << >> /\ UNCHANGED <<rows, waitingFor, answers>>
  BY DEF EndRollout
<1>2. Sample' = Sample
  BY DEF Loops, Sample
<1>3. /\ DOMAIN rows = Sample /\ \A i \in Sample : WithinContext(rows[i]) /\ Between(i, rows[i])
      /\ waitingFor = {} /\ answers = << >>
  BY <1>1 DEF Loops, RowsInv, AnswersInv
<1>4. << >> \in Seq(Sample) /\ ToSet(active)' = {}
  BY <1>1 DEF ToSet
<1> QED BY <1>1, <1>2, <1>3, <1>4 DEF RowsInv, AnswersInv

\* An answer is a sequence of what the source may answer for each of its samples.
LEMMA Answers ==
    ASSUME NEW R, NEW samples \in Seq(R), NEW a, NEW choices, NEW T,
           a \in [DOMAIN samples -> UNION ToSet(choices)],
           \A k \in DOMAIN samples : a[k] \in choices[k],
           \A k \in DOMAIN samples : choices[k] \subseteq T
    PROVE  Fits(a, samples, T)
<1>1. DOMAIN samples = 1..Len(samples) /\ Len(samples) \in Nat /\ DOMAIN a = 1..Len(samples)
      /\ a = [k \in 1..Len(samples) |-> a[k]]
  OBVIOUS
<1>2. \A k \in 1..Len(samples) : a[k] \in T
  BY <1>1
<1>3. a \in [1..Len(samples) -> T]
  BY <1>1, <1>2
<1> QED BY <1>1, <1>3 DEF Fits

\* An engine answers its shard.
LEMMA ShardAnswers ==
    ASSUME NEW w \in Engines, Loops, GenerateShard(w) PROVE RowsInv' /\ AnswersInv'
<1>1. PICK s \in 1..NumShards : w = EngineTensor * (s - 1)
  BY EngineNumbers
<1>2. Coordinate(EngineLayout, w, "data_parallel") + 1 = s
  <2>1. Coordinate(EngineLayout, w, "data_parallel") = s - 1
    BY <1>1, EngineNumbers
  <2> QED BY <2>1
<1>3. stage = "generate" /\ AnswerFrom(w, ShardOf(s), Response)
  BY <1>2, Zenon DEF GenerateShard
<1> DEFINE samples == ShardOf(s)
           choices == [k \in DOMAIN samples |-> Response(samples[k])]
<1>4. /\ w \in waitingFor /\ waitingFor' = waitingFor \ {w}
      /\ UNCHANGED <<stage, active, rollout, rows>>
      /\ \E a \in [DOMAIN samples -> UNION ToSet(choices)] :
             /\ \A k \in DOMAIN samples : a[k] \in choices[k]
             /\ answers' = [x \in DOMAIN answers \cup {w} |-> IF x = w THEN a ELSE answers[x]]
  BY <1>3, Zenon DEF AnswerFrom
<1>5. PICK a \in [DOMAIN samples -> UNION ToSet(choices)] :
             /\ \A k \in DOMAIN samples : a[k] \in choices[k]
             /\ answers' = [x \in DOMAIN answers \cup {w} |-> IF x = w THEN a ELSE answers[x]]
  BY <1>4
<1>6. Sample' = Sample /\ Engines' = Engines
  BY DEF Loops, Sample, Engines
<1>7. active \in Seq(Sample)
  BY DEF Loops, RowsInv
<1>8. samples \in Seq(Sample)
  BY <1>7, ShardsCut
<1>9. Responses(a, samples)
  <2> DEFINE T == UNION {Response(i) : i \in Sample}
  <2>1. \A k \in DOMAIN samples : choices[k] = Response(samples[k]) /\ samples[k] \in Sample
    BY <1>8
  <2>2. \A k \in DOMAIN samples : choices[k] \subseteq T
    BY <2>1
  <2>3. DOMAIN samples = 1..Len(samples)
    BY <1>8
  <2>4. \A k \in 1..Len(samples) : a[k] \in Response(samples[k])
    BY <1>5, <2>1, <2>3
  <2> HIDE DEF choices, T, samples
  <2>5. Fits(a, samples, T)
    BY <1>5, <1>8, <2>2, Answers
  <2> QED BY <2>4, <2>5 DEF Responses, T
<1> HIDE DEF choices
<1>10. RowsInv'
  BY <1>4, <1>6 DEF Loops, RowsInv, ToSet
<1>11. \A i : Response(i)' = Response(i)
  BY <1>4 DEF Response, Remaining
<1>12. \A t : ShardOf(t)' = ShardOf(t)
  BY <1>4 DEF ShardOf
<1>13. (UNION {Response(i) : i \in Sample})' = UNION {Response(i) : i \in Sample}
  BY <1>6, <1>11
<1>14. AnswersInv'
  <2>1. /\ waitingFor \cup DOMAIN answers = Engines
        /\ \A t \in 1..NumShards : EngineTensor * (t - 1) \in DOMAIN answers =>
                  Responses(answers[EngineTensor * (t - 1)], ShardOf(t))
    BY <1>3 DEF Loops, AnswersInv
  <2>2. /\ DOMAIN answers' = DOMAIN answers \cup {w} /\ answers'[w] = a
        /\ \A x \in DOMAIN answers \ {w} : answers'[x] = answers[x]
    BY <1>5
  <2>3. waitingFor' \cup DOMAIN answers' = Engines
    BY <1>4, <2>1, <2>2
  <2>4. ASSUME NEW t \in 1..NumShards, EngineTensor * (t - 1) \in DOMAIN answers'
        PROVE  Responses(answers'[EngineTensor * (t - 1)], ShardOf(t))
    <3>1. CASE EngineTensor * (t - 1) = w
      <4>1. t - 1 = s - 1
        <5>1. Coordinate(EngineLayout, EngineTensor * (t - 1), "data_parallel") = t - 1
          BY EngineNumbers
        <5>2. Coordinate(EngineLayout, EngineTensor * (s - 1), "data_parallel") = s - 1
          BY EngineNumbers
        <5> QED BY <1>1, <3>1, <5>1, <5>2
      <4>2. t = s
        BY <4>1
      <4> QED BY <1>9, <2>2, <3>1, <4>2
    <3>2. CASE EngineTensor * (t - 1) # w
      BY <2>1, <2>2, <2>4, <3>2
    <3> QED BY <3>1, <3>2
  <2>5. (\A t \in 1..NumShards : EngineTensor * (t - 1) \in DOMAIN answers =>
            Responses(answers[EngineTensor * (t - 1)], ShardOf(t)))'
    BY <1>11, <1>12, <1>13, <2>4 DEF Responses, Fits
  <2> QED BY <1>3, <1>4, <1>6, <2>3, <2>5 DEF AnswersInv
<1> QED BY <1>10, <1>14

\* An environment answers the samples of its task.
LEMMA TaskAnswers ==
    ASSUME NEW task \in Task, Loops, StepEnvironment(task) PROVE RowsInv' /\ AnswersInv'
<1> DEFINE samples == GroupOf(task)
           choices == [k \in DOMAIN samples |-> Feedback(samples[k])]
<1>3. stage = "step" /\ AnswerFrom(task, samples, Feedback)
  BY Zenon DEF StepEnvironment
<1>4. /\ task \in waitingFor /\ waitingFor' = waitingFor \ {task}
      /\ UNCHANGED <<stage, active, rollout, rows>>
      /\ \E a \in [DOMAIN samples -> UNION ToSet(choices)] :
             /\ \A k \in DOMAIN samples : a[k] \in choices[k]
             /\ answers' = [x \in DOMAIN answers \cup {task} |->
                               IF x = task THEN a ELSE answers[x]]
  BY <1>3, Zenon DEF AnswerFrom
<1>5. PICK a \in [DOMAIN samples -> UNION ToSet(choices)] :
             /\ \A k \in DOMAIN samples : a[k] \in choices[k]
             /\ answers' = [x \in DOMAIN answers \cup {task} |->
                               IF x = task THEN a ELSE answers[x]]
  BY <1>4
<1>6. Sample' = Sample
  BY DEF Loops, Sample
<1>7. active \in Seq(Sample)
  BY DEF Loops, RowsInv
<1>8. samples \in Seq(Sample)
  BY <1>7, Grouped
<1>9. Feedbacks(a, samples)
  <2> DEFINE T == UNION {Feedback(i) : i \in Sample}
  <2>1. \A k \in DOMAIN samples : choices[k] = Feedback(samples[k]) /\ samples[k] \in Sample
    BY <1>8
  <2>2. \A k \in DOMAIN samples : choices[k] \subseteq T
    BY <2>1
  <2>3. DOMAIN samples = 1..Len(samples)
    BY <1>8
  <2>4. \A k \in 1..Len(samples) : a[k] \in Feedback(samples[k])
    BY <1>5, <2>1, <2>3
  <2> HIDE DEF choices, T, samples
  <2>5. Fits(a, samples, T)
    BY <1>5, <1>8, <2>2, Answers
  <2> QED BY <2>4, <2>5 DEF Feedbacks, T
<1> HIDE DEF choices
<1>10. RowsInv'
  BY <1>4, <1>6 DEF Loops, RowsInv, ToSet
<1>11. \A i : Feedback(i)' = Feedback(i)
  BY <1>4 DEF Feedback
<1>12. \A t : GroupOf(t)' = GroupOf(t)
  BY <1>4 DEF GroupOf, Those
<1>13. (UNION {Feedback(i) : i \in Sample})' = UNION {Feedback(i) : i \in Sample}
  BY <1>6, <1>11
<1>14. AnswersInv'
  <2>1. /\ waitingFor \cup DOMAIN answers = {TaskOf(i) : i \in ToSet(active)}
        /\ \A t \in DOMAIN answers : Feedbacks(answers[t], GroupOf(t))
    BY <1>3 DEF Loops, AnswersInv
  <2>2. /\ DOMAIN answers' = DOMAIN answers \cup {task} /\ answers'[task] = a
        /\ \A x \in DOMAIN answers \ {task} : answers'[x] = answers[x]
    BY <1>5
  <2>3. waitingFor' \cup DOMAIN answers' = {TaskOf(i) : i \in ToSet(active')}
    BY <1>4, <2>1, <2>2
  <2>4. ASSUME NEW t \in DOMAIN answers' PROVE Feedbacks(answers'[t], GroupOf(t))
    BY <1>9, <2>1, <2>2, <2>4
  <2>5. (\A t \in DOMAIN answers : Feedbacks(answers[t], GroupOf(t)))'
    BY <1>11, <1>12, <1>13, <2>4 DEF Feedbacks, Fits
  <2> QED BY <1>3, <1>4, <1>6, <2>3, <2>5 DEF AnswersInv
<1> QED BY <1>10, <1>14

\* Where a sample is among the active ones, 0 if it is not.
PlaceOf(i) == SelectInSeq(active, LAMBDA j : j = i)

\* The place is that of the sample.
LEMMA PlaceFound ==
    ASSUME NEW X, active \in Seq(X), NEW i
    PROVE  \/ PlaceOf(i) = 0 /\ i \notin ToSet(active)
           \/ PlaceOf(i) \in 1..Len(active) /\ active[PlaceOf(i)] = i /\ i \in ToSet(active)
<1> DEFINE at == {k \in 1..Len(active) : active[k] = i}
<1>1. PlaceOf(i) = IF at # {} THEN Min(at) ELSE 0
  BY Zenon DEF PlaceOf, SelectInSeq
<1>2. at \in SUBSET Nat /\ (at = {} <=> i \notin ToSet(active))
  BY DEF ToSet
<1>3. at # {} => Min(at) \in at
  <2> HIDE DEF at
  <2> QED BY <1>2, Smallest DEF Min
<1>4. \A k \in at : k \in 1..Len(active) /\ active[k] = i
  OBVIOUS
<1> HIDE DEF at
<1> QED BY <1>1, <1>2, <1>3, <1>4

\* The responses are put together and every active sample gets its own.
LEMMA TurnCollected == Loops /\ CollectResponses => RowsInv' /\ AnswersInv'
<1> SUFFICES ASSUME Loops, CollectResponses PROVE RowsInv' /\ AnswersInv'
  OBVIOUS
<1>1. /\ stage = "generate" /\ waitingFor = {} /\ stage' = "step"
      /\ waitingFor' = {TaskOf(i) : i \in ToSet(active)}
      /\ answers' = << >> /\ active' = active
  BY DEF CollectResponses
<1>2. rows' = [i \in Sample |->
          IF PlaceOf(i) = 0 THEN rows[i]
          ELSE [Respond(rows[i], Collected[PlaceOf(i)]) EXCEPT
                   !.truncated = @ \/ Collected[PlaceOf(i)].cut]]
  BY Zenon DEF CollectResponses, PlaceOf
<1>3. Sample' = Sample
  BY DEF Loops, Sample
<1>4. /\ DOMAIN rows = Sample /\ active \in Seq(Sample)
      /\ \A i \in Sample : WithinContext(rows[i])
      /\ \A i \in Sample : i \notin ToSet(active) => Between(i, rows[i])
      /\ \A i \in ToSet(active) : HistoryTo(i, rows[i], "wait")
      /\ \A i, j \in ToSet(active) : rows[i].turn = rows[j].turn
  BY <1>1 DEF Loops, RowsInv
<1>5. \A s \in 1..NumShards : Responses(answers[EngineTensor * (s - 1)], ShardOf(s))
  <2>1. /\ waitingFor \cup DOMAIN answers = Engines
        /\ \A s \in 1..NumShards : EngineTensor * (s - 1) \in DOMAIN answers =>
                  Responses(answers[EngineTensor * (s - 1)], ShardOf(s))
    BY <1>1 DEF Loops, AnswersInv
  <2>2. \A s \in 1..NumShards : EngineTensor * (s - 1) \in DOMAIN answers
    BY <1>1, <2>1, EngineNumbers
  <2> QED BY <2>1, <2>2
<1>6. ASSUME NEW p \in 1..Len(active) PROVE Collected[p] \in Response(active[p])
  <2> DEFINE T == UNION {Response(i) : i \in Sample}
  <2>1. \A s \in 1..NumShards : Fits(answers[EngineTensor * (s - 1)], ShardOf(s), T)
    BY <1>5 DEF Responses
  <2> HIDE DEF T
  <2>2. PICK s \in 1..NumShards : \E j \in 1..Len(ShardOf(s)) :
            active[p] = ShardOf(s)[j] /\ Collected[p] = answers[EngineTensor * (s - 1)][j]
    BY <1>4, <2>1, CollectedInOrder
  <2> QED BY <1>5, <2>2 DEF Responses
<1>7. ASSUME NEW i \in ToSet(active)
      PROVE  i \in Sample /\ HistoryTo(i, rows'[i], "step") /\ WithinContext(rows'[i])
             /\ rows'[i].turn = rows[i].turn
  <2>1. i \in Sample
    BY <1>4 DEF ToSet
  <2> DEFINE r == Collected[PlaceOf(i)]
  <2>2. PlaceOf(i) \in 1..Len(active) /\ active[PlaceOf(i)] = i
    BY <1>4, PlaceFound
  <2>3. r \in Response(i)
    BY <1>6, <2>2
  <2>4. rows'[i] = [Respond(rows[i], r) EXCEPT !.truncated = @ \/ r.cut]
    <3>1. PlaceOf(i) # 0
      BY <2>2
    <3> QED BY <1>2, <2>1, <3>1
  <2>5. HistoryTo(i, rows[i], "wait") /\ WithinContext(rows[i])
    BY <1>4, <2>1
  <2> HIDE DEF r
  <2> QED BY <2>1, <2>3, <2>4, <2>5, SampleResponds
<1>8. \A i \in Sample : i \notin ToSet(active) => rows'[i] = rows[i]
  <2> SUFFICES ASSUME NEW i \in Sample, i \notin ToSet(active) PROVE rows'[i] = rows[i]
    OBVIOUS
  <2>1. PlaceOf(i) = 0
    BY <1>4, PlaceFound
  <2> QED BY <1>2, <2>1
<1>9. RowsInv'
  <2>1. DOMAIN rows' = Sample /\ ToSet(active)' = ToSet(active)
    BY <1>1, <1>2
  <2>2. \A i \in Sample : WithinContext(rows'[i])
    BY <1>4, <1>7, <1>8
  <2>3. \A i \in Sample : i \notin ToSet(active) => Between(i, rows'[i])
    BY <1>4, <1>8
  <2>4. \A i, j \in ToSet(active) : rows'[i].turn = rows'[j].turn
    BY <1>4, <1>7
  <2> QED BY <1>1, <1>3, <1>4, <1>7, <2>1, <2>2, <2>3, <2>4 DEF RowsInv
<1>10. AnswersInv'
  <2>1. DOMAIN answers' = {}
    BY <1>1, NoAnswers
  <2>2. ToSet(active)' = ToSet(active)
    BY <1>1
  <2> QED BY <1>1, <2>1, <2>2 DEF AnswersInv
<1> QED BY <1>9, <1>10

\* The feedback is put together, every active sample gets its own, and some go on.
LEMMA TurnTaken == Loops /\ TakeTurn => RowsInv' /\ AnswersInv'
<1> SUFFICES ASSUME Loops, TakeTurn PROVE RowsInv' /\ AnswersInv'
  OBVIOUS
<1>f. PICK feedback \in {FeedbackInOrder} :
          LET Done(k) == feedback[k].terminated \/ Overflows(rows[active[k]], feedback[k])
              Moved(k) ==
                  LET row == Observe(rows[active[k]], feedback[k])
                  IN  IF Done(k) THEN row
                      ELSE [row EXCEPT !.stops = feedback[k].of,
                                       !.info = IF feedback[k].metadata THEN feedback[k].of
                                                ELSE @]
          IN  /\ rows' = [i \in Sample |->
                     LET k == SelectInSeq(active, LAMBDA j : j = i)
                     IN  IF k = 0 THEN rows[i] ELSE Moved(k)]
              /\ \E going \in {Those([k \in DOMAIN active |-> k], LAMBDA k : ~Done(k))} :
                     active' = [n \in DOMAIN going |-> active[going[n]]]
  BY Zenon DEF TakeTurn
<1> DEFINE Done(k) == feedback[k].terminated \/ Overflows(rows[active[k]], feedback[k])
           keep == [k \in 1..Len(active) |-> ~Done(k)]
           going == FlattenSeq([k \in 1..Len(active) |-> IF keep[k] THEN <<k>> ELSE << >>])
<1>1. /\ stage = "step" /\ waitingFor = {} /\ stage' = "turn" /\ answers' = << >>
      /\ waitingFor' = waitingFor
  BY DEF TakeTurn
<1>2. /\ rows' = [i \in Sample |->
             IF PlaceOf(i) = 0 THEN rows[i]
             ELSE AfterTurn(rows[active[PlaceOf(i)]], feedback[PlaceOf(i)], Done(PlaceOf(i)))]
  BY <1>f, Zenon DEF PlaceOf, AfterTurn
<1>3. active \in Seq(Sample) /\ DOMAIN active = 1..Len(active) /\ Len(active) \in Nat
  BY DEF Loops, RowsInv
<1>4. \E g \in {Those([k \in DOMAIN active |-> k], LAMBDA k : ~Done(k))} :
          active' = [n \in DOMAIN g |-> active[g[n]]]
  BY <1>f, Zenon
<1>5. active' = [n \in DOMAIN going |-> active[going[n]]]
  <2> DEFINE places == [k \in DOMAIN active |-> k]
  <2>1. Those(places, LAMBDA k : ~Done(k))
            = FlattenSeq([k \in DOMAIN places |->
                             IF ~Done(places[k]) THEN <<places[k]>> ELSE << >>])
    BY Zenon DEF Those
  <2>2. [k \in DOMAIN places |-> IF ~Done(places[k]) THEN <<places[k]>> ELSE << >>]
            = [k \in 1..Len(active) |-> IF keep[k] THEN <<k>> ELSE << >>]
    <3> HIDE DEF Done
    <3> QED BY <1>3
  <2>3. Those(places, LAMBDA k : ~Done(k)) = going
    BY <2>1, <2>2
  <2> QED BY <1>4, <2>3, Zenon
<1> HIDE DEF Done
<1>6. going \in Seq(1..Len(active))
  <2> DEFINE places == [k \in 1..Len(active) |-> k]
  <2>1. /\ Len(active) \in Nat /\ places \in [1..Len(active) -> 1..Len(active)]
        /\ keep \in [1..Len(active) -> BOOLEAN]
    BY <1>3
  <2>2. going = FlattenSeq([k \in 1..Len(active) |->
                               IF keep[k] THEN <<places[k]>> ELSE << >>])
    <3>1. [k \in 1..Len(active) |-> IF keep[k] THEN <<k>> ELSE << >>]
              = [k \in 1..Len(active) |-> IF keep[k] THEN <<places[k]>> ELSE << >>]
      OBVIOUS
    <3> QED BY <3>1
  <2> DEFINE m == Len(active)
  <2>3. /\ m \in Nat /\ places \in [1..m -> 1..m] /\ keep \in [1..m -> BOOLEAN]
        /\ going = FlattenSeq([k \in 1..m |-> IF keep[k] THEN <<places[k]>> ELSE << >>])
    BY <2>1, <2>2
  <2> DEFINE flat == FlattenSeq([k \in 1..m |-> IF keep[k] THEN <<places[k]>> ELSE << >>])
  <2>4. going = flat
    BY <2>3
  <2> HIDE DEF going, keep, places, m
  <2> DEFINE P == 1..m
  <2>x. m \in Nat /\ places \in [1..m -> P] /\ keep \in [1..m -> BOOLEAN]
    BY <2>3
  <2> HIDE DEF P
  <2>y. flat \in Seq(P) /\ KeepsThose(flat, places, keep, m)
    BY <2>x, Kept
  <2>5. flat \in Seq(1..m)
    BY <2>y DEF P
  <2> HIDE DEF flat
  <2> QED BY <2>4, <2>5 DEF m
<1> HIDE DEF going, keep
<1>7. active' \in Seq(Sample) /\ ToSet(active') \subseteq ToSet(active)
  <2>1. DOMAIN going = 1..Len(going) /\ Len(going) \in Nat
        /\ \A n \in 1..Len(going) : going[n] \in 1..Len(active)
    BY <1>6
  <2>2. \A n \in 1..Len(going) : active[going[n]] \in Sample
                                /\ active[going[n]] \in ToSet(active)
    BY <1>3, <2>1 DEF ToSet
  <2>3. active' \in [1..Len(going) -> Sample \cap ToSet(active)]
    BY <1>5, <2>1, <2>2
  <2>4. DOMAIN active' = 1..Len(going) /\ \A n \in 1..Len(going) : active'[n] \in ToSet(active)
    BY <2>3
  <2>5. active' \in Seq(Sample)
    <3> DEFINE n == Len(going)
               next == active'
    <3>1. next \in [1..n -> Sample] /\ n \in Nat
      BY <2>1, <2>3
    <3> HIDE DEF n, next
    <3>2. next \in Seq(Sample)
      BY <3>1
    <3> QED BY <3>2 DEF next
  <2> QED BY <2>4, <2>5 DEF ToSet
<1>8. Sample' = Sample
  BY DEF Loops, Sample
<1>9. /\ DOMAIN rows = Sample
      /\ \A i \in Sample : WithinContext(rows[i])
      /\ \A i \in Sample : i \notin ToSet(active) => Between(i, rows[i])
      /\ \A i \in ToSet(active) : HistoryTo(i, rows[i], "step")
      /\ \A i, j \in ToSet(active) : rows[i].turn = rows[j].turn
  BY <1>1 DEF Loops, RowsInv
<1>10. /\ DOMAIN answers = {TaskOf(i) : i \in ToSet(active)}
       /\ \A task \in DOMAIN answers : Feedbacks(answers[task], GroupOf(task))
  BY <1>1 DEF Loops, AnswersInv
<1>11. ASSUME NEW p \in 1..Len(active) PROVE feedback[p] \in Feedback(active[p])
  <2> DEFINE T == UNION {Feedback(i) : i \in Sample}
  <2>1. \A task \in DOMAIN answers : Fits(answers[task], GroupOf(task), T)
    BY <1>10 DEF Feedbacks
  <2> HIDE DEF T
  <2>2. PICK task \in DOMAIN answers : \E j \in 1..Len(GroupOf(task)) :
            active[p] = GroupOf(task)[j] /\ FeedbackInOrder[p] = answers[task][j]
    BY <1>3, <1>10, <2>1, FeedbackSorted
  <2> QED BY <1>10, <2>2 DEF Feedbacks
<1>12. ASSUME NEW i \in ToSet(active)
       PROVE  i \in Sample /\ Between(i, rows'[i]) /\ WithinContext(rows'[i])
              /\ rows'[i].turn = rows[i].turn
  <2>1. i \in Sample
    BY <1>3 DEF ToSet
  <2> DEFINE f == feedback[PlaceOf(i)]
             ends == Done(PlaceOf(i))
  <2>2. PlaceOf(i) \in 1..Len(active) /\ active[PlaceOf(i)] = i
    BY <1>3, PlaceFound
  <2>3. f \in Feedback(i)
    BY <1>11, <2>2
  <2>4. rows'[i] = AfterTurn(rows[i], f, ends)
    <3>1. PlaceOf(i) # 0
      BY <2>2
    <3> QED BY <1>2, <2>1, <2>2, <3>1
  <2>5. HistoryTo(i, rows[i], "step") /\ WithinContext(rows[i])
    BY <1>9, <2>1
  <2> HIDE DEF f, ends
  <2> QED BY <2>1, <2>3, <2>4, <2>5, SampleObserves
<1>13. \A i \in Sample : i \notin ToSet(active) => rows'[i] = rows[i]
  <2> SUFFICES ASSUME NEW i \in Sample, i \notin ToSet(active) PROVE rows'[i] = rows[i]
    OBVIOUS
  <2>1. PlaceOf(i) = 0
    BY <1>3, PlaceFound
  <2> QED BY <1>2, <2>1
<1>14. RowsInv'
  <2>1. DOMAIN rows' = Sample /\ ToSet(active)' = ToSet(active')
    BY <1>2
  <2>2. \A i \in Sample : WithinContext(rows'[i]) /\ Between(i, rows'[i])
    BY <1>9, <1>12, <1>13
  <2>3. \A i, j \in ToSet(active') : rows'[i].turn = rows'[j].turn
    BY <1>7, <1>9, <1>12
  <2> QED BY <1>1, <1>7, <1>8, <2>1, <2>2, <2>3 DEF RowsInv
<1>15. AnswersInv'
  BY <1>1 DEF AnswersInv
<1> QED BY <1>14, <1>15

\* Every step keeps the invariant of the synchronous rollout.
LEMMA SyncInvStep == SyncInv /\ [Next]_vars => SyncInv'
<1> SUFFICES ASSUME SyncInv, [Next]_vars, asyncEngine' = FALSE, rollout' # "handed"
             PROVE  RowsInv' /\ AnswersInv'
  BY DEF SyncInv
<1>1. ASSUME UNCHANGED <<asyncEngine, rows, syncVars>>, rollout # "handed"
      PROVE  RowsInv' /\ AnswersInv'
  <2>1. RowsInv /\ AnswersInv
    BY <1>1 DEF SyncInv
  <2>2. Sample' = Sample /\ Engines' = Engines
    BY <1>1 DEF Sample, Engines
  <2>3. UNCHANGED <<rows, stage, active, waitingFor, answers>>
    BY <1>1 DEF syncVars
  <2>4. RowsInv'
    BY <2>1, <2>2, <2>3 DEF RowsInv, ToSet
  <2>5. /\ \A i : Response(i)' = Response(i) /\ Feedback(i)' = Feedback(i)
        /\ \A s : ShardOf(s)' = ShardOf(s)
        /\ \A t : GroupOf(t)' = GroupOf(t)
    BY <2>3 DEF Response, Remaining, Feedback, ShardOf, GroupOf, Those
  <2>6. /\ (UNION {Feedback(i) : i \in Sample})' = UNION {Feedback(i) : i \in Sample}
        /\ (UNION {Response(i) : i \in Sample})' = UNION {Response(i) : i \in Sample}
    BY <2>2, <2>5
  <2>7. AnswersInv'
    BY <2>1, <2>2, <2>3, <2>5, <2>6 DEF AnswersInv, Responses, Feedbacks, Fits
  <2> QED BY <2>4, <2>7
<1>2. CASE SyncRollout
  <2>1. asyncEngine = FALSE /\ rollout = "running" /\ (SyncStep \/ SourceFails)
    BY <1>2 DEF SyncRollout
  <2>2. Loops
    BY <2>1 DEF SyncInv, Loops
  <2>3. CASE SyncStep
    <3>1. ASSUME NEW w \in Engines, GenerateShard(w) PROVE RowsInv' /\ AnswersInv'
      BY <2>2, <3>1, ShardAnswers
    <3>2. ASSUME NEW task \in Task, StepEnvironment(task) PROVE RowsInv' /\ AnswersInv'
      BY <2>2, <3>2, TaskAnswers
    <3> QED BY <2>2, <2>3, <3>1, <3>2, TurnStarts, TurnCollected, TurnTaken, LoopEnds
        DEF SyncStep
  <2>4. CASE SourceFails
    BY <1>1, <2>1, <2>4 DEF SourceFails
  <2> QED BY <2>1, <2>3, <2>4
<1>3. CASE MakeRows(RolloutNext)
  <2>1. CASE AsyncRollout(AsyncStep) \/ AsyncRollout(AsyncWorld)
    BY <2>1 DEF AsyncRollout
  <2> QED BY <1>2, <1>3, <2>1 DEF MakeRows, RolloutNext
<1>4. CASE Flatten \/ Collate
  BY <1>4 DEF Flatten, Collate, Hand
<1>5. CASE UseRows(PolicyNext) \/ Finished \/ UNCHANGED vars
  <2>1. UNCHANGED <<asyncEngine, rollout, rows, syncVars>>
    BY <1>5 DEF UseRows, Finished, vars, rolloutVars, syncVars
  <2> QED BY <1>1, <2>1
<1> QED BY <1>3, <1>4, <1>5 DEF Next

\* The rows are empty at first.
LEMMA SyncBegins == Init => SyncInv
<1> SUFFICES ASSUME Init, asyncEngine = FALSE PROVE RowsInv /\ AnswersInv
  BY DEF SyncInv
<1>1. /\ rows = [i \in Sample |-> NewRow] /\ stage \in {"turn", "end"}
      /\ waitingFor = {} /\ answers = << >>
      /\ active = << >> \/ active = [i \in Sample |-> i]
  BY DEF Init, RolloutInit, NoRollouts
<1>2. Sample = 1..SyncBatch /\ SyncBatch \in Nat
  BY DEF Sample
<1>3. active \in Seq(Sample)
  <2>1. [i \in 1..SyncBatch |-> i] \in [1..SyncBatch -> 1..SyncBatch]
    OBVIOUS
  <2>2. [i \in 1..SyncBatch |-> i] \in Seq(1..SyncBatch)
    BY <1>2, <2>1
  <2>3. [i \in Sample |-> i] = [i \in 1..SyncBatch |-> i] /\ << >> \in Seq(Sample)
    BY <1>2
  <2> QED BY <1>1, <1>2, <2>2, <2>3
<1>4. WithinContext(NewRow)
  <2>1. NewRow.log = << >> /\ NewRow.turn = 0 /\ NewRow.truncated = FALSE
    BY DEF NewRow
  <2>2. NewRow.turn \in 0..MaxTurns /\ NewRow.truncated \in BOOLEAN
    <3>1. MaxTurns \in Nat
      OBVIOUS
    <3>2. 0 \in 0..MaxTurns /\ FALSE \in BOOLEAN
      BY <3>1
    <3> QED BY <2>1, <3>2
  <2> QED BY <2>1, <2>2, NewFits
<1>5. \A i \in Sample : Between(i, rows[i]) /\ rows[i] = NewRow
  BY <1>1 DEF Between
<1>6. ToSet(active) \subseteq Sample
  BY <1>3 DEF ToSet
<1> HIDE DEF NewRow
<1> QED BY <1>1, <1>3, <1>4, <1>5, <1>6 DEF RowsInv, AnswersInv

-----------------------------------------------------------------------------
(* The length of a row in a coroutine. *)

\* What is asked fits the context with a token to spare, and what is answered fits it.
Sized(i) ==
    /\ WithinContext(rows[i])
    /\ pc[i] = "wait" => Length(rows[i]) < MaxSeqLen
    /\ pc[i] # "wait" => stream[i].output = << >>
    /\ stream[i].output = << >> \/ \E r \in Response(i) : stream[i].output = <<r>>

\* Every coroutine keeps its row within the context.
CoroutinesFit ==
    asyncEngine = TRUE /\ rollout # "handed" => \A i \in Sample : Sized(i)

\* A step that leaves the row alone.
LEMMA RowStays ==
    ASSUME NEW i, Sized(i), rows'[i] = rows[i], pc'[i] = pc[i],
           stream'[i].output = stream[i].output
    PROVE  Sized(i)'
<1>1. Response(i)' = Response(i)
  BY DEF Response, Remaining
<1> QED BY <1>1 DEF Sized

\* A worker answers with what fits, or fails.
LEMMA WorkerFits ==
    ASSUME NEW i, Runs(i), Sized(i), WorkerAnswers(i) \/ WorkerFails(i) PROVE Sized(i)'
<1> DEFINE s == stream[i]
           t == stream'[i]
<1>1. /\ UNCHANGED <<rows, pc>> /\ pc[i] = "wait" /\ DOMAIN s = StreamFields
  <2>1. s.worker = "running" /\ UNCHANGED <<rows, pc>>
    BY DEF WorkerAnswers, WorkerFails
  <2> QED BY <2>1 DEF Runs, StreamAt
<1>2. CASE WorkerFails(i)
  <2>1. t = [s EXCEPT !.worker = "failed"]
    BY <1>2 DEF WorkerFails, Runs
  <2> HIDE DEF s, t
  <2>2. t.output = s.output
    BY <1>1, <2>1 DEF StreamFields
  <2> QED BY <1>1, <2>2, RowStays DEF s, t
<1>3. CASE WorkerAnswers(i)
  <2>1. PICK r \in Response(i) : t = [s EXCEPT !.worker = "answered", !.output = <<r>>]
    BY <1>3 DEF WorkerAnswers, Runs
  <2> HIDE DEF s, t
  <2>2. t.output = <<r>>
    BY <1>1, <2>1 DEF StreamFields
  <2>3. Response(i)' = Response(i)
    BY <1>1 DEF Response, Remaining
  <2> QED BY <1>1, <2>2, <2>3 DEF Sized, t
<1> QED BY <1>2, <1>3

\* The reader moves answers, it makes none.
LEMMA ReaderFits ==
    ASSUME NEW i, Runs(i), Sized(i), ReaderPuts(i) \/ ReaderEnds(i) PROVE Sized(i)'
<1> DEFINE s == stream[i]
           t == stream'[i]
<1>1. UNCHANGED <<rows, pc>> /\ DOMAIN s = StreamFields
  BY DEF Runs, StreamAt, ReaderPuts, ReaderEnds
<1>2. t.output = s.output
  <2>1. CASE ReaderPuts(i)
    <3>1. t = [s EXCEPT !.worker = "drained", !.queue = Append(@, "sample")]
      BY <2>1 DEF ReaderPuts, Runs
    <3> HIDE DEF s, t
    <3> QED BY <1>1, <3>1 DEF StreamFields
  <2>2. CASE ReaderEnds(i)
    <3>1. \E q : t = [s EXCEPT !.worker = "idle", !.finished = TRUE, !.queue = q]
      BY <2>2 DEF ReaderEnds, Runs
    <3> HIDE DEF s, t
    <3> QED BY <1>1, <3>1 DEF StreamFields
  <2> QED BY <2>1, <2>2
<1> QED BY <1>1, <1>2, RowStays

\* A prompt that leaves no room is answered by a dummy of one token.
LEMMA GivenUpFits ==
    ASSUME NEW i, Runs(i), Sized(i), pc[i] = "wait", GiveUp(i) PROVE Sized(i)'
<1> DEFINE row == rows[i]
           new == rows'[i]
           dummy == [role |-> "dummy", of |-> <<i, rows[i].turn>>, tokens |-> 1]
<1>1. DOMAIN row = RowFields /\ IsAList(row.log)
  BY DEF Runs, HistoryTo
<1>2. new = [row EXCEPT !.log = Append(@, dummy), !.truncated = TRUE]
  BY DEF GiveUp, Runs
<1>3. pc'[i] = "done" /\ stream'[i] = NoStream
  BY DEF GiveUp, Runs
<1>4. stream'[i].output = << >>
  BY <1>3 DEF NoStream
<1>5. dummy.tokens = 1
  OBVIOUS
<1>6. WithinContext(row) /\ Length(row) < MaxSeqLen
  BY DEF Sized
<1> HIDE DEF row, new, dummy
<1>7. new.log = Append(row.log, dummy) /\ new.turn = row.turn /\ new.truncated = TRUE
  BY <1>1, <1>2 DEF RowFields
<1>8. /\ dummy.tokens \in Nat /\ Length(row) + dummy.tokens <= MaxSeqLen
      /\ new.turn \in 0..MaxTurns /\ new.truncated \in BOOLEAN
  <2>1. Length(row) \in 1..MaxSeqLen /\ MaxSeqLen \in Nat /\ row.turn \in 0..MaxTurns
    BY <1>6 DEF WithinContext
  <2>2. new.turn \in 0..MaxTurns /\ new.truncated \in BOOLEAN
    BY <1>7, <2>1
  <2> DEFINE size == Length(row)
  <2>3. size \in 1..MaxSeqLen /\ size < MaxSeqLen
    BY <1>6, <2>1
  <2> HIDE DEF size
  <2>4. size + 1 <= MaxSeqLen /\ 1 \in Nat
    BY <2>1, <2>3
  <2> QED BY <1>5, <2>2, <2>4 DEF size
<1>9. WithinContext(new)
  BY <1>1, <1>6, <1>7, <1>8, GrowsWithin
<1> QED BY <1>3, <1>4, <1>9 DEF Sized, new

\* The coroutine takes the answer out of its queue, or gives up waiting.
LEMMA ReceiveFits ==
    ASSUME NEW i, Runs(i), Sized(i), Receive(i) \/ TimeOut(i) PROVE Sized(i)'
<1> DEFINE s == stream[i]
           message == Head(s.queue)
<1>1. pc[i] = "wait"
  BY DEF Receive, TimeOut
<1>2. CASE GiveUp(i)
  BY <1>1, <1>2, GivenUpFits
<1>3. CASE Receive(i) /\ s.finished = FALSE /\ ~GiveUp(i)
  <2>1. /\ stream' = [stream EXCEPT ![i].queue = Tail(@),
                          ![i].collected = (s.collected \/ message = "sample")]
        /\ UNCHANGED <<rows, pc>>
    BY <1>3 DEF Receive
  <2>2. stream'[i] = [s EXCEPT !.queue = Tail(@), !.collected = (s.collected \/ message = "sample")]
    BY <2>1 DEF Runs
  <2>3. DOMAIN s = StreamFields
    BY DEF Runs, StreamAt
  <2> DEFINE t == stream'[i]
             took == s.collected \/ message = "sample"
  <2>t. t = [s EXCEPT !.queue = Tail(@), !.collected = took]
    BY <2>2
  <2> HIDE DEF s, t, took, message
  <2>4. t.output = s.output
    BY <2>t, <2>3 DEF StreamFields
  <2> QED BY <2>1, <2>4, RowStays DEF s, t
<1>4. CASE Receive(i) /\ s.finished # FALSE /\ ~GiveUp(i)
  <2>1. /\ s.collected \/ message = "sample"
        /\ message # "error" /\ UseResponse(i) /\ s.finished = TRUE
    <3>1. s.finished \in BOOLEAN
      BY <1>1 DEF Runs, StreamAt
    <3> QED BY <1>4, <3>1 DEF Receive
  <2>2. s.output # << >>
    <3>1. StreamAt(i, rows[i].turn, s, "wait")
      BY <1>1 DEF Runs
    <3>2. message \in {"sample", "worker_done"} => s.queue # <<"error", "worker_done">>
      <4>1. Head(<<"error", "worker_done">>) = "error"
        OBVIOUS
      <4> QED BY <2>1, <4>1
    <3> HIDE DEF s
    <3>3. s.queue # <<"error", "worker_done">>
      <4>1. Head(<<"error", "worker_done">>) = "error"
        OBVIOUS
      <4> QED BY <2>1, <4>1
    <3> QED BY <2>1, <3>1, <3>3 DEF StreamAt, Answered
  <2>3. PICK r \in Response(i) : s.output = <<r>>
    BY <2>2 DEF Sized
  <2> DEFINE row == rows[i]
             new == rows'[i]
  <2>4. new = [Respond(row, r) EXCEPT !.truncated = r.cut]
        /\ pc'[i] = "step" /\ stream'[i] = NoStream
    <3>1. s.output[1] = r
      BY <2>3
    <3> QED BY <2>1, <3>1 DEF UseResponse, Runs
  <2>5. /\ r.tokens \in Nat /\ Length(row) + r.tokens <= MaxSeqLen
        /\ r.role = "assistant" /\ r.of = <<i, row.turn>> /\ r.cut \in BOOLEAN
        /\ WithinContext(row) /\ row.turn \in 0..MaxTurns
    BY ResponseFits DEF Sized, WithinContext
  <2>6. Message(r).tokens = r.tokens
    BY DEF Message
  <2>7. DOMAIN row = RowFields /\ IsAList(row.log)
    BY DEF Runs, HistoryTo
  <2>8. stream'[i].output = << >>
    BY <2>4 DEF NoStream
  <2> DEFINE m == Message(r)
  <2> HIDE DEF row, new, m
  <2>9. new.log = Append(row.log, m) /\ new.turn = row.turn /\ new.truncated = r.cut
    BY <2>4, <2>7 DEF Respond, RowFields, m
  <2>10. WithinContext(new)
    <3>1. /\ m.tokens \in Nat /\ Length(row) + m.tokens <= MaxSeqLen
          /\ new.turn \in 0..MaxTurns /\ new.truncated \in BOOLEAN
      BY <2>5, <2>6, <2>9 DEF m
    <3> QED BY <2>5, <2>7, <2>9, <3>1, GrowsWithin
  <2> QED BY <2>4, <2>8, <2>10 DEF Sized, new
<1> QED BY <1>2, <1>3, <1>4 DEF TimeOut

\* The environment answers, and the sample goes on or ends.
LEMMA TurnFits ==
    ASSUME NEW i, Runs(i), Sized(i), TakeSampleTurn(i) PROVE Sized(i)'
<1>1. PICK f \in Feedback(i) :
          LET row == Observe(rows[i], f)
              ends == f.terminated \/ row.truncated
              kept == [row EXCEPT !.info = IF f.metadata THEN f.of ELSE @,
                                  !.stops = IF ends THEN @ ELSE f.of]
          IN  IF ends \/ row.turn = MaxTurns
              THEN /\ rows' = [rows EXCEPT ![i] = kept]
                   /\ pc' = [pc EXCEPT ![i] = "done"]
                   /\ UNCHANGED stream
              ELSE /\ rows' = [rows EXCEPT ![i] = [kept EXCEPT !.turn = @ + 1]]
                   /\ pc' = [pc EXCEPT ![i] = "wait"]
                   /\ stream' = [stream EXCEPT ![i] = Asked]
  BY DEF TakeSampleTurn
<1> DEFINE old == rows[i]
           message == [role |-> "environment", of |-> f.of, tokens |-> Observation(rows[i], f)]
           row == Observe(rows[i], f)
           ends == f.terminated \/ row.truncated
           kept == [row EXCEPT !.info = IF f.metadata THEN f.of ELSE @,
                               !.stops = IF ends THEN @ ELSE f.of]
           new == rows'[i]
<1>2. /\ Observation(old, f) \in Nat /\ Length(old) + Observation(old, f) <= MaxSeqLen
      /\ Overflows(old, f) \in BOOLEAN /\ f.tokens \in Nat
  <2>1. f.tokens \in Nat
    BY DEF Feedback
  <2> QED BY <2>1, ObservationFits DEF Sized
<1>3. pc[i] = "step" /\ DOMAIN old = RowFields /\ IsAList(old.log) /\ DOMAIN stream[i] = StreamFields
      /\ stream[i].output = << >>
  BY DEF TakeSampleTurn, Runs, HistoryTo, StreamAt, Sized
<1>4. /\ WithinContext(old) /\ old.turn \in 0..MaxTurns /\ old.truncated \in BOOLEAN
      /\ Length(old) \in 1..MaxSeqLen /\ MaxSeqLen \in Nat /\ MaxTurns \in Nat
  BY DEF Sized, WithinContext
<1>5. message.tokens = Observation(old, f)
  OBVIOUS
<1>6. row = [old EXCEPT !.log = Append(@, message), !.rewards = Append(@, f.of),
                        !.truncated = @ \/ Overflows(old, f)]
  BY DEF Observe
<1> HIDE DEF message, row, old
<1>7. /\ DOMAIN row = RowFields /\ row.log = Append(old.log, message) /\ row.turn = old.turn
      /\ row.truncated = (old.truncated \/ Overflows(old, f))
  BY <1>3, <1>6 DEF RowFields
<1>8. /\ DOMAIN kept = RowFields /\ kept.log = row.log /\ kept.turn = row.turn
      /\ kept.truncated = row.truncated
  <2> HIDE DEF ends
  <2> QED BY <1>7 DEF RowFields
<1>9. /\ new.log = Append(old.log, message) /\ new.turn \in 0..MaxTurns
      /\ new.truncated \in BOOLEAN
      /\ pc'[i] # "wait" => stream'[i].output = << >>
      /\ pc'[i] = "wait" => Overflows(old, f) = FALSE
      /\ stream'[i].output = << >>
  <2>1. CASE ends \/ row.turn = MaxTurns
    <3>1. new = kept /\ pc'[i] = "done" /\ stream'[i] = stream[i]
      BY <1>1, <2>1 DEF row, ends, kept, Runs
    <3>2. row.truncated \in BOOLEAN
      BY <1>2, <1>4, <1>7
    <3> HIDE DEF ends, kept, new
    <3> QED BY <1>3, <1>4, <1>7, <1>8, <3>1, <3>2
  <2>2. CASE ~(ends \/ row.turn = MaxTurns)
    <3>1. new = [kept EXCEPT !.turn = @ + 1] /\ pc'[i] = "wait" /\ stream'[i] = Asked
      BY <1>1, <2>2 DEF row, ends, kept, Runs
    <3>2. row.truncated \in BOOLEAN /\ Overflows(old, f) = FALSE
      BY <1>2, <1>4, <1>7, <2>2
    <3>3. row.turn + 1 \in 0..MaxTurns
      <4>1. row.turn \in 0..MaxTurns /\ row.turn # MaxTurns
        BY <1>4, <1>7, <2>2
      <4> QED BY <1>4, <4>1
    <3>4. stream'[i].output = << >>
      BY <3>1 DEF Asked, NoStream
    <3> HIDE DEF ends, kept, new
    <3>5. new.log = kept.log /\ new.turn = kept.turn + 1 /\ new.truncated = kept.truncated
      BY <1>8, <3>1 DEF RowFields
    <3> QED BY <1>7, <1>8, <3>2, <3>3, <3>4, <3>5
  <2> QED BY <2>1, <2>2
<1> HIDE DEF new, ends, kept
<1>10. WithinContext(new) /\ Length(new) = Length(old) + message.tokens
  <2>1. message.tokens \in Nat /\ Length(old) + message.tokens <= MaxSeqLen
    BY <1>2, <1>5
  <2>2. WithinContext(new)
    BY <1>3, <1>4, <1>9, <2>1, GrowsWithin
  <2>3. OneLonger(old, new, message, Len(old.log))
    <3>1. IsAList(old.log) /\ new.log = Append(old.log, message)
      BY <1>3, <1>9
    <3>2. /\ IsAList(new.log) /\ Len(old.log) \in Nat /\ Len(new.log) = Len(old.log) + 1
          /\ \A k \in 1..Len(old.log) : new.log[k] = old.log[k]
          /\ new.log[Len(old.log) + 1] = message
      BY ONLY <3>1, Appended
    <3>3. DOMAIN old.log = 1..Len(old.log) /\ DOMAIN new.log = 1..(Len(old.log) + 1)
      BY <3>1, <3>2 DEF IsAList
    <3> QED BY ONLY <2>1, <3>2, <3>3 DEF OneLonger
  <2>4. Counted(old)
    BY <1>4 DEF WithinContext
  <2> QED BY <2>2, <2>3, <2>4, LengthAppended
<1>11. pc'[i] = "wait" => Length(new) < MaxSeqLen
  <2> SUFFICES ASSUME pc'[i] = "wait" PROVE Length(new) < MaxSeqLen
    OBVIOUS
  <2>1. Overflows(old, f) = FALSE
    BY <1>9
  <2>2. Length(old) + f.tokens < MaxSeqLen /\ Observation(old, f) = f.tokens
    BY <1>2, <1>4, <2>1 DEF Overflows, Observation
  <2> QED BY <1>5, <1>10, <2>2
<1> QED BY <1>9, <1>10, <1>11 DEF Sized, new

\* Every step keeps the rows of all coroutines within the context.
LEMMA CoroutinesFitStep == CoroutineInv /\ CoroutinesFit /\ [Next]_vars => CoroutinesFit'
<1> SUFFICES ASSUME CoroutineInv, CoroutinesFit, [Next]_vars, asyncEngine' = TRUE,
                    rollout' # "handed"
             PROVE  \A i \in Sample' : Sized(i)'
  BY DEF CoroutinesFit
<1>1. ASSUME UNCHANGED <<asyncEngine, rows, pc, stream>>, rollout # "handed"
      PROVE  \A i \in Sample' : Sized(i)'
  <2>1. Sample' = Sample /\ \A i \in Sample : Sized(i)
    BY <1>1 DEF CoroutinesFit, Sample
  <2>2. \A i : Sized(i) => Sized(i)'
    BY <1>1, RowStays
  <2> QED BY <2>1, <2>2
<1>2. ASSUME AsyncRollout(AsyncStep) \/ AsyncRollout(AsyncWorld)
      PROVE  \A i \in Sample' : Sized(i)'
  <2>1. asyncEngine = TRUE /\ asyncEngine' = TRUE /\ rollout # "handed" /\ Sample' = Sample
    BY <1>2 DEF AsyncRollout, Sample
  <2>2. \A i \in Sample : Runs(i) /\ Sized(i)
    BY <2>1 DEF CoroutineInv, Runs, CoroutinesFit
  <2>3. ASSUME NEW i \in Sample, Moves(i), Sized(i)' PROVE \A j \in Sample' : Sized(j)'
    <3> SUFFICES ASSUME NEW j \in Sample PROVE Sized(j)'
      BY <2>1
    <3>1. CASE j = i
      BY <2>3, <3>1
    <3>2. CASE j # i
      <4>1. rows'[j] = rows[j] /\ pc'[j] = pc[j] /\ stream'[j] = stream[j]
        BY <2>3, <3>2 DEF Moves
      <4> QED BY <2>2, <4>1, RowStays
    <3> QED BY <3>1, <3>2
  <2>4. ASSUME NEW i \in Sample, Coroutine(i) PROVE \A j \in Sample' : Sized(j)'
    <3>1. Moves(i)
      BY <2>2, <2>4, ReaderMoves, ReceiveMoves, TurnMoves DEF Coroutine
    <3>2. Sized(i)'
      BY <2>2, <2>4, ReaderFits, ReceiveFits, TurnFits DEF Coroutine
    <3> QED BY <2>3, <3>1, <3>2
  <2>5. ASSUME NEW i \in Sample, WorkerAnswers(i) \/ WorkerFails(i)
        PROVE  \A j \in Sample' : Sized(j)'
    <3>1. Moves(i)
      BY <2>2, <2>5, WorkerMoves
    <3>2. Sized(i)'
      BY <2>2, <2>5, WorkerFits
    <3> QED BY <2>3, <3>1, <3>2
  <2>6. ASSUME NEW i \in Sample, EnvironmentFails(i) PROVE \A j \in Sample' : Sized(j)'
    BY <1>1, <2>1, <2>6 DEF EnvironmentFails
  <2>7. CASE Gather
    BY <1>1, <2>1, <2>7 DEF Gather
  <2> QED BY <1>2, <2>4, <2>5, <2>6, <2>7 DEF AsyncRollout, AsyncStep, AsyncWorld
<1>3. CASE MakeRows(RolloutNext)
  <2>1. CASE SyncRollout
    BY <2>1 DEF SyncRollout
  <2> QED BY <1>2, <1>3, <2>1 DEF MakeRows, RolloutNext
<1>4. CASE Flatten \/ Collate
  BY <1>4 DEF Flatten, Collate, Hand
<1>5. CASE UseRows(PolicyNext) \/ Finished \/ UNCHANGED vars
  <2>1. UNCHANGED <<asyncEngine, rollout, rows, pc, stream>>
    BY <1>5 DEF UseRows, Finished, vars, rolloutVars, syncVars, asyncVars
  <2> QED BY <1>1, <2>1
<1> QED BY <1>3, <1>4, <1>5 DEF Next

\* A prompt leaves room for a token.
LEMMA PromptsFit == Init => CoroutinesFit
<1> SUFFICES ASSUME Init, asyncEngine = TRUE, NEW i \in Sample PROVE Sized(i)
  BY DEF CoroutinesFit
<1>1. /\ rows[i] = [NewRow EXCEPT !.turn = 1] /\ pc[i] = "wait" /\ stream[i] = Asked
  BY DEF Init, RolloutInit, NoRollouts
<1>2. rows[i].log = << >> /\ rows[i].turn = 1 /\ rows[i].truncated = FALSE
  BY <1>1 DEF NewRow
<1>3. MaxTurns \in Nat \ {0} /\ PromptLength < MaxSeqLen
  OBVIOUS
<1>4. WithinContext(rows[i])
  <2>1. rows[i].turn \in 0..MaxTurns /\ rows[i].truncated \in BOOLEAN
    <3>1. 1 \in 0..MaxTurns /\ FALSE \in BOOLEAN
      BY <1>3
    <3> QED BY <1>2, <3>1
  <2> QED BY <1>2, <2>1, NewFits
<1>5. Length(rows[i]) = PromptLength
  BY <1>2, LengthOfNew
<1>6. stream[i].output = << >>
  BY <1>1 DEF Asked, NoStream
<1> QED BY <1>1, <1>3, <1>4, <1>5, <1>6 DEF Sized

-----------------------------------------------------------------------------
(* Types. *)

\* What the kind of rollout that is not made leaves alone.
IdleInv ==
    /\ asyncEngine \in BOOLEAN
    /\ rollout \in {"none", "running", "done", "failed", "handed"}
    /\ errors \in 0..MaxErrors
    /\ asyncEngine = FALSE \/ rollout = "handed" =>
           pc = [i \in Sample |-> "done"] /\ stream = [i \in Sample |-> NoStream]
    /\ asyncEngine = TRUE \/ rollout = "handed" =>
           active = << >> /\ waitingFor = {} /\ stage \in {"turn", "end"}
    /\ rollout = "handed" => rows = [i \in Sample |-> NewRow]

\* Every step keeps that.
LEMMA IdleStep == IdleInv /\ [Next]_vars => IdleInv'
<1> SUFFICES ASSUME IdleInv, [Next]_vars PROVE IdleInv'
  OBVIOUS
<1>1. ASSUME UNCHANGED rolloutVars PROVE IdleInv'
  BY <1>1 DEF IdleInv, Sample, rolloutVars, syncVars, asyncVars
<1>2. MaxErrors \in Nat
  OBVIOUS
<1>3. ASSUME NEW r \in {"running", "done", "failed"}, rollout # "handed", rollout' = r,
             asyncEngine' = asyncEngine,
             errors' = errors \/ (errors < MaxErrors /\ errors' = errors + 1),
             asyncEngine = FALSE => UNCHANGED <<pc, stream>>,
             asyncEngine = TRUE => UNCHANGED <<active, waitingFor, stage>>
      PROVE  IdleInv'
  <2>1. Sample' = Sample
    BY <1>3 DEF Sample
  <2>2. errors' \in 0..MaxErrors
    BY <1>2, <1>3 DEF IdleInv
  <2> QED BY <1>3, <2>1, <2>2 DEF IdleInv
<1>4. CASE SyncRollout
  <2>1. /\ asyncEngine = FALSE /\ rollout = "running" /\ asyncEngine' = asyncEngine
        /\ UNCHANGED <<pc, stream>>
        /\ (SyncStep /\ errors' = errors) \/ SourceFails
    BY <1>4 DEF SyncRollout, asyncVars, IdleInv
  <2>2. CASE SourceFails
    BY <1>3, <2>1, <2>2 DEF SourceFails
  <2>3. CASE SyncStep /\ errors' = errors
    <3>2. rollout' \in {"running", "done"}
      BY <2>1, <2>3 DEF SyncStep, StartTurn, CollectResponses, TakeTurn, EndRollout,
            GenerateShard, StepEnvironment, AnswerFrom
    <3> QED BY <1>3, <2>1, <2>3, <3>2
  <2> QED BY <2>1, <2>2, <2>3
<1>5. CASE AsyncRollout(AsyncStep) \/ AsyncRollout(AsyncWorld)
  <2>1. /\ asyncEngine = TRUE /\ rollout = "running" /\ asyncEngine' = asyncEngine
        /\ UNCHANGED <<active, waitingFor, stage>>
        /\ AsyncStep \/ AsyncWorld
    BY <1>5 DEF AsyncRollout, syncVars, IdleInv
  <2>2. /\ rollout' \in {"running", "done", "failed"}
        /\ errors' = errors \/ (errors < MaxErrors /\ errors' = errors + 1)
    BY <2>1 DEF AsyncStep, AsyncWorld, Gather, Coroutine, ReaderPuts, ReaderEnds, Receive, TimeOut,
          TakeSampleTurn, WorkerAnswers, WorkerFails, EnvironmentFails
  <2> QED BY <1>3, <2>1, <2>2
<1>6. CASE Flatten \/ Collate
  <2>1. PICK name, batch, count : Hand(name, batch, count)
    BY <1>6 DEF Flatten, Collate
  <2>2. Sample' = Sample
    BY <2>1 DEF Hand, Sample
  <2> QED BY <1>2, <2>1, <2>2 DEF Hand, IdleInv
<1>7. CASE MakeRows(RolloutNext)
  BY <1>4, <1>5, <1>7 DEF MakeRows, RolloutNext
<1>8. CASE UseRows(PolicyNext) \/ Finished \/ UNCHANGED vars
  BY <1>1, <1>8 DEF UseRows, Finished, vars
<1> QED BY <1>6, <1>7, <1>8 DEF Next

\* At first only one kind of rollout is to be made.
LEMMA IdleBegins == Init => IdleInv
<1> SUFFICES ASSUME Init PROVE IdleInv
  OBVIOUS
<1>1. /\ asyncEngine \in BOOLEAN /\ rollout \in {"none", "running"} /\ errors = 0
      /\ stage \in {"turn", "end"} /\ waitingFor = {}
  BY DEF Init, RolloutInit, NoRollouts
<1>2. asyncEngine = FALSE =>
          pc = [i \in Sample |-> "done"] /\ stream = [i \in Sample |-> NoStream]
  BY DEF Init, RolloutInit, NoRollouts
<1>3. asyncEngine = TRUE => active = << >>
  BY DEF Init, RolloutInit, NoRollouts
<1>4. 0 \in 0..MaxErrors
  OBVIOUS
<1> QED BY <1>1, <1>2, <1>3, <1>4 DEF IdleInv

\* The calls of a worker group, and the algorithms that make them.
Calls == LogprobCalls \cup {"get_topk_logits", "train"}
Algorithms == {"none", "grpo", "distillation", "sft", "dpo", "rm"}

\* The types of a step of training, and that it starts when the rows are there.
PolicyTypes ==
    /\ algorithm \in Algorithms
    /\ rollout # "handed" => policy = NoConfiguration /\ call = "none" /\ todo = << >>
    /\ policy \in Configurations(algorithm) \cup {NoConfiguration}
    /\ lengths \in Seq(1..MaxSeqLen) /\ valid \in 0..Len(lengths) /\ evalMode \in BOOLEAN
    /\ todo \in Seq(Calls) /\ DOMAIN outputs \subseteq Calls
    /\ call \in Calls \cup {"none", "error"}

\* The rows of a collated batch.
LEMMA Padded ==
    ASSUME NEW size \in Nat \ {0}, NEW batch \in [1..size -> DatasetLengths],
           NEW multiple \in Nat \ {0}
    PROVE  /\ PadLastBatch(batch, multiple) \in Seq(1..MaxSeqLen)
           /\ size \in 0..Len(PadLastBatch(batch, multiple))
<1> USE ExperienceConstants
<1> DEFINE up == RoundUp(size, multiple)
           more == up - size
           pad == [k \in 1..more |-> batch[size]]
           S == 1..MaxSeqLen
<1>1. batch \in Seq(S) /\ Len(batch) = size /\ batch[size] \in S
  <2>1. batch \in [1..size -> S]
    OBVIOUS
  <2> HIDE DEF S
  <2> QED BY <2>1
<1>2. up \in Nat /\ size <= up
  <2> DEFINE top == size + multiple - 1
             q == top \div multiple
  <2>1. top \in Nat
    OBVIOUS
  <2>2. q \in Nat /\ (top % multiple) \in 0..(multiple - 1) /\ top = multiple * q + (top % multiple)
    BY <2>1, Division
  <2> HIDE DEF q
  <2>3. multiple * q = q * multiple /\ q * multiple \in Nat
    BY <2>2
  <2>4. up = q * multiple
    BY DEF RoundUp, q
  <2> DEFINE product == q * multiple
             rest == top % multiple
  <2>5. /\ product \in Nat /\ rest \in 0..(multiple - 1) /\ top = product + rest
        /\ up = product
    BY <2>2, <2>3, <2>4
  <2> HIDE DEF product, rest, up
  <2>6. size + multiple - 1 = product + rest
    BY <2>5
  <2> QED BY <2>5, <2>6
<1> HIDE DEF up
<1>3. more \in Nat
  BY <1>2
<1> HIDE DEF more
<1>4. pad \in Seq(S) /\ Len(pad) = more
  <2>1. pad \in [1..more -> S]
    BY <1>1
  <2> HIDE DEF pad, S
  <2> QED BY <1>3, <2>1
<1>5. PadLastBatch(batch, multiple) = batch \o pad
  BY <1>1 DEF PadLastBatch, Last, more, up
<1> HIDE DEF pad, S
<1>6. batch \o pad \in Seq(S) /\ Len(batch \o pad) = size + more
  BY <1>1, <1>4, SMTT(30)
<1> QED BY <1>3, <1>5, <1>6 DEF S

\* What a step calls.
LEMMA StepCallsTyped == \A name : StepCalls(name) \subseteq Seq(Calls)
<1> DEFINE a == "get_logprobs"
           b == "get_reference_policy_logprobs"
           c == "get_topk_logits"
           d == "train"
<1>1. a \in Calls /\ b \in Calls /\ c \in Calls /\ d \in Calls
  BY DEF Calls, LogprobCalls
<1>2. \A name : \A x \in StepCalls(name) : x \in {<<a, d>>, <<a, b, d>>, <<c, d>>, <<b, d>>, <<d>>}
  BY DEF StepCalls
<1> HIDE DEF a, b, c, d
<1>3. \A x, y, z \in Calls : <<x>> \in Seq(Calls) /\ <<x, y>> \in Seq(Calls)
                            /\ <<x, y, z>> \in Seq(Calls)
  OBVIOUS
<1> SUFFICES ASSUME NEW name, NEW x \in StepCalls(name) PROVE x \in Seq(Calls)
  OBVIOUS
<1>4. x \in {<<a, d>>, <<a, b, d>>, <<c, d>>, <<b, d>>, <<d>>}
  BY <1>2
<1> QED BY <1>1, <1>3, <1>4

\* Every step keeps the types; the rows a rollout hands over fit the context.
LEMMA PolicyTypesStep ==
    SyncInv /\ CoroutineInv /\ CoroutinesFit /\ IdleInv /\ PolicyTypes /\ [Next]_vars => PolicyTypes'
<1> SUFFICES ASSUME SyncInv, CoroutineInv, CoroutinesFit, IdleInv, PolicyTypes, [Next]_vars
             PROVE  PolicyTypes'
  OBVIOUS
<1>1. ASSUME UNCHANGED policyVars, rollout' # "handed" => rollout # "handed" PROVE PolicyTypes'
  <2>1. Configurations(algorithm)' = Configurations(algorithm)
    BY <1>1 DEF Configurations, Supported, Admitted, policyVars
  <2> QED BY <1>1, <2>1 DEF PolicyTypes, policyVars
<1>2. CASE MakeRows(RolloutNext)
  <2>1. rollout = "running" /\ UNCHANGED policyVars
    BY <1>2 DEF MakeRows, RolloutNext, SyncRollout, AsyncRollout
  <2> QED BY <1>1, <2>1
<1>3. CASE Finished \/ UNCHANGED vars
  BY <1>1, <1>3 DEF Finished, vars, rolloutVars
<1>4. ASSUME NEW name \in Algorithms, NEW batch, NEW count, Hand(name, batch, count),
             rollout # "handed",
             evalMode' \in BOOLEAN, batch \in Seq(1..MaxSeqLen), count \in 0..Len(batch)
      PROVE  PolicyTypes'
  <2>1. /\ algorithm' = name /\ lengths' = batch /\ valid' = count /\ rollout' = "handed"
        /\ todo' \in StepCalls(name) /\ UNCHANGED <<policy, call, outputs>>
    BY <1>4 DEF Hand
  <2>2. policy = NoConfiguration /\ call = "none"
    BY <1>4 DEF PolicyTypes
  <2>3. todo' \in Seq(Calls)
    BY <2>1, StepCallsTyped
  <2> QED BY <1>4, <2>1, <2>2, <2>3 DEF PolicyTypes
<1>5. CASE Flatten
  <2>1. rollout = "done" /\ rollout # "handed" /\ evalMode' = FALSE
    BY <1>5 DEF Flatten
  <2> DEFINE batch == [i \in Sample |-> Length(rows[i])]
             N == IF asyncEngine THEN AsyncBatch ELSE SyncBatch
  <2>2. PICK name \in {"grpo", "distillation"} : Hand(name, batch, Cardinality(Sample))
    BY <1>5 DEF Flatten
  <2>3. \A i \in Sample : WithinContext(rows[i])
    <3>1. CASE asyncEngine = TRUE
      BY <2>1, <3>1 DEF CoroutinesFit, Sized
    <3>2. CASE asyncEngine = FALSE
      BY <2>1, <3>2 DEF SyncInv, RowsInv
    <3> QED BY <3>1, <3>2 DEF IdleInv
  <2>4. Sample = 1..N /\ N \in Nat
    BY DEF Sample, IdleInv
  <2> DEFINE S == 1..MaxSeqLen
  <2>5. batch \in [1..N -> S]
    BY <2>3, <2>4 DEF WithinContext
  <2> HIDE DEF batch, N, S
  <2>6. Cardinality(Sample) = N
    <3>1. 1 \in Int /\ N \in Int
      BY <2>4
    <3>2. Cardinality(1..N) = IF 1 > N THEN 0 ELSE N - 1 + 1
      BY <3>1, FS_Interval
    <3> QED BY <2>4, <3>2
  <2>7. batch \in Seq(S) /\ Len(batch) = N
    BY <2>4, <2>5
  <2>8. N \in 0..Len(batch)
    BY <2>4, <2>7
  <2> QED BY <1>4, <2>1, <2>2, <2>6, <2>7, <2>8 DEF S, Algorithms
<1>6. CASE Collate
  <2>1. rollout = "none" /\ rollout # "handed" /\ evalMode' \in BOOLEAN
    BY <1>6 DEF Collate
  <2>2. PICK name \in {"sft", "dpo", "rm"}, size \in 1..SyncBatch :
            \E batch \in [1..size -> DatasetLengths] :
                Hand(name, PadLastBatch(batch, RowsPerMicroBatch(name) * Shards), size)
    BY <1>6 DEF Collate
  <2>3. PICK batch \in [1..size -> DatasetLengths] :
            Hand(name, PadLastBatch(batch, RowsPerMicroBatch(name) * Shards), size)
    BY <2>2
  <2> DEFINE multiple == RowsPerMicroBatch(name) * Shards
  <2>4. multiple \in Nat \ {0} /\ size \in Nat \ {0}
    <3>1. RowsPerMicroBatch(name) \in Nat \ {0} /\ Shards \in Nat \ {0}
      <4>1. MicroBatchSize \in Nat \ {0} /\ Shards \in Nat \ {0}
        BY PolicyConstants
      <4> QED BY <4>1 DEF RowsPerMicroBatch
    <3> QED BY <3>1
  <2> HIDE DEF multiple
  <2>5. /\ PadLastBatch(batch, multiple) \in Seq(1..MaxSeqLen)
        /\ size \in 0..Len(PadLastBatch(batch, multiple))
    BY <2>4, Padded
  <2>6. Hand(name, PadLastBatch(batch, multiple), size)
    BY <2>3 DEF multiple
  <2> QED BY <1>4, <2>1, <2>5, <2>6 DEF Algorithms
<1>7. ASSUME UNCHANGED rolloutVars, PolicyNext PROVE PolicyTypes'
  <2>1. rollout = "handed" /\ rollout' = rollout
    <3>1. ~(call = "none" /\ todo = << >>)
      BY <1>7 DEF PolicyNext, TurnTo, Start, PolicyStep, ForwardPass, DTensorTrain, DTensorLogprobs,
            DTensorTopk, AutomodelTrain, AutomodelLogprobs, AutomodelTopk, MegatronTrain,
            MegatronLogprobs, MegatronTopk, LogprobCalls, FinishShard, EndGlobalBatch, Return
    <3> QED BY <1>7, <3>1 DEF PolicyTypes, rolloutVars
  <2>2. UNCHANGED <<algorithm, lengths, valid, evalMode>>
    BY <1>7 DEF PolicyNext, TurnTo, Start, PolicyStep, ForwardPass, DTensorTrain, DTensorLogprobs,
            DTensorTopk, AutomodelTrain, AutomodelLogprobs, AutomodelTopk, MegatronTrain,
            MegatronLogprobs, MegatronTopk, InferencePass, TrainPass, Pass,
            FinishShard, EndGlobalBatch, Return
  <2>3. Configurations(algorithm)' = Configurations(algorithm)
    BY <2>2 DEF Configurations, Supported, Admitted
  <2>4. ASSUME policy' \in Configurations(algorithm) \cup {NoConfiguration},
               todo' \in Seq(Calls), DOMAIN outputs' \subseteq Calls,
               call' \in Calls \cup {"none", "error"}
        PROVE  PolicyTypes'
    BY <2>1, <2>2, <2>3, <2>4 DEF PolicyTypes
  <2>5. CASE TurnTo
    BY <2>4, <2>5 DEF TurnTo, PolicyTypes
  <2>6. CASE Start
    <3>1. /\ todo # << >> /\ todo \in Seq(Calls) /\ todo' = Tail(todo)
          /\ UNCHANGED <<policy, outputs>> /\ call' \in {"error", Head(todo)}
      BY <2>6 DEF Start, PolicyTypes
    <3>2. Tail(todo) \in Seq(Calls) /\ Head(todo) \in Calls
      BY <3>1
    <3> QED BY <2>4, <3>1, <3>2 DEF PolicyTypes
  <2>7. CASE PolicyStep /\ ~Return
    <3>1. UNCHANGED <<policy, outputs, todo, call>>
      BY <2>7 DEF PolicyStep, ForwardPass, DTensorTrain, DTensorLogprobs,
            DTensorTopk, AutomodelTrain, AutomodelLogprobs, AutomodelTopk, MegatronTrain,
            MegatronLogprobs, MegatronTopk, InferencePass, TrainPass, Pass,
            FinishShard, EndGlobalBatch
    <3> QED BY <2>4, <3>1 DEF PolicyTypes
  <2>8. CASE Return
    <3>1. /\ call \notin {"none", "error"} /\ policy' \in {policy, NoConfiguration}
          /\ call' = "none" /\ UNCHANGED todo /\ DOMAIN outputs' = DOMAIN outputs \cup {call}
      BY <2>8 DEF Return
    <3> QED BY <2>4, <3>1 DEF PolicyTypes
  <2> QED BY <1>7, <2>5, <2>6, <2>7, <2>8 DEF PolicyNext
<1> QED BY <1>2, <1>3, <1>5, <1>6, <1>7 DEF Next, UseRows

\* No step is under way at first.
LEMMA PolicyBegins == Init => PolicyTypes
<1> SUFFICES ASSUME Init PROVE PolicyTypes
  OBVIOUS
<1>1. /\ algorithm = "none" /\ todo = << >> /\ policy = NoConfiguration /\ lengths = << >>
      /\ valid = 0 /\ evalMode = FALSE /\ call = "none" /\ outputs = << >>
  BY DEF Init, PolicyInit
<1>2. << >> \in Seq(Calls) /\ << >> \in Seq(1..MaxSeqLen) /\ Len(<< >>) = 0 /\ 0 \in 0..0
      /\ DOMAIN << >> = {}
  OBVIOUS
<1> QED BY <1>1, <1>2 DEF PolicyTypes, Algorithms

\* The inductive invariant of the whole.
ExperienceInv ==
    SyncInv /\ CoroutineInv /\ CoroutinesFit /\ IdleInv /\ PolicyTypes /\ WeightsInv

\* Every step keeps it.
LEMMA ExperienceStep == ExperienceInv /\ [Next]_vars => ExperienceInv'
BY SyncInvStep, CoroutineStep, CoroutinesFitStep, IdleStep, PolicyTypesStep, WeightsStep
   DEF ExperienceInv

\* It holds at first.
LEMMA ExperienceBegins == Init => ExperienceInv
<1>1. Init => WeightsInv
  BY DEF Init, PolicyInit, WeightsInv
<1> QED BY <1>1, SyncBegins, AllAsked, PromptsFit, IdleBegins, PolicyBegins DEF ExperienceInv

\* It implies the types.
LEMMA ExperienceTyped == ExperienceInv => ExperienceTypeOK
<1> SUFFICES ASSUME ExperienceInv PROVE ExperienceTypeOK
  OBVIOUS
<1>1. MaxTurns \in Nat /\ MaxSeqLen \in Nat
  OBVIOUS
<1>2. ASSUME NEW i \in Sample
      PROVE  /\ Length(rows[i]) <= MaxSeqLen
             /\ rows[i].turn \in 0..MaxTurns /\ rows[i].truncated \in BOOLEAN
             /\ pc[i] \in {"wait", "step", "done"}
             /\ stream[i].worker \in {"idle", "running", "answered", "failed", "drained"}
  <2>1. CASE asyncEngine = TRUE /\ rollout # "handed"
    <3>1. /\ pc[i] \in {"wait", "step", "done"}
          /\ StreamAt(i, rows[i].turn, stream[i], pc[i])
      BY <2>1 DEF ExperienceInv, CoroutineInv
    <3>2. WithinContext(rows[i])
      BY <2>1 DEF ExperienceInv, CoroutinesFit, Sized
    <3>3. stream[i].worker \in {"idle", "running", "answered", "failed", "drained"}
      BY <3>1 DEF StreamAt
    <3> QED BY <1>1, <3>1, <3>2, <3>3 DEF WithinContext
  <2>2. CASE asyncEngine = FALSE \/ rollout = "handed"
    <3>1. pc[i] = "done" /\ stream[i].worker = "idle"
      BY <2>2 DEF ExperienceInv, IdleInv, NoStream
    <3>2. WithinContext(rows[i])
      <4>1. CASE rollout = "handed"
        <5>1. rows[i] = NewRow
          BY <4>1 DEF ExperienceInv, IdleInv
        <5>2. NewRow.log = << >> /\ NewRow.turn = 0 /\ NewRow.truncated = FALSE
          BY DEF NewRow
        <5>3. NewRow.turn \in 0..MaxTurns /\ NewRow.truncated \in BOOLEAN
          <6>1. 0 \in 0..MaxTurns /\ FALSE \in BOOLEAN
            BY <1>1
          <6> QED BY <5>2, <6>1
        <5> QED BY <5>1, <5>2, <5>3, NewFits
      <4>2. CASE asyncEngine = FALSE /\ rollout # "handed"
        BY <4>2 DEF ExperienceInv, SyncInv, RowsInv
      <4> QED BY <2>2, <4>1, <4>2
    <3> QED BY <1>1, <3>1, <3>2 DEF WithinContext
  <2> QED BY <2>1, <2>2 DEF ExperienceInv, IdleInv
<1>3. /\ stage \in {"turn", "generate", "step", "end"} /\ ToSet(active) \subseteq Sample
      /\ waitingFor \subseteq Engines \cup Task
  <2>1. CASE asyncEngine = TRUE \/ rollout = "handed"
    <3>1. active = << >> /\ waitingFor = {} /\ stage \in {"turn", "end"}
      BY <2>1 DEF ExperienceInv, IdleInv
    <3>2. ToSet(active) = {}
      BY <3>1 DEF ToSet
    <3> QED BY <3>1, <3>2
  <2>2. CASE asyncEngine = FALSE /\ rollout # "handed"
    <3>1. RowsInv /\ AnswersInv
      BY <2>2 DEF ExperienceInv, SyncInv
    <3>2. ToSet(active) \subseteq Sample
      BY <3>1 DEF RowsInv, ToSet
    <3>3. {TaskOf(i) : i \in ToSet(active)} \subseteq Task
      BY TaskTyped
    <3> QED BY <3>1, <3>2, <3>3 DEF AnswersInv
  <2> QED BY <2>1, <2>2 DEF ExperienceInv, IdleInv
<1>4. /\ \A i \in Row : lengths[i] \in 1..MaxSeqLen
      /\ ToSet(todo) \cup DOMAIN outputs \subseteq LogprobCalls \cup {"get_topk_logits", "train"}
      /\ call \in LogprobCalls \cup {"get_topk_logits", "train", "none", "error"}
  <2>1. /\ lengths \in Seq(1..MaxSeqLen) /\ todo \in Seq(Calls)
        /\ DOMAIN outputs \subseteq Calls /\ call \in Calls \cup {"none", "error"}
    BY DEF ExperienceInv, PolicyTypes
  <2>2. ToSet(todo) \subseteq Calls
    BY <2>1 DEF ToSet
  <2>3. \A i \in Row : lengths[i] \in 1..MaxSeqLen
    BY <2>1 DEF Row
  <2> QED BY <2>1, <2>2, <2>3 DEF Calls
<1> QED BY <1>2, <1>3, <1>4 DEF ExperienceTypeOK, ExperienceInv, IdleInv, PolicyTypes, WeightsInv,
        Algorithms

\* Whatever engines and environments return, in whatever order, no row outgrows the context:
\* neither in the loop over turns nor in a coroutine, whose dummy response still has a token
\* to spare; and every row that reaches the policy, of a rollout or of a dataset, fits it.
THEOREM NoRowOutgrowsTheContext == Spec => []ExperienceTypeOK
BY ExperienceBegins, ExperienceStep, ExperienceTyped, PTL DEF Spec

\* What the invariants say of a history is what is promised of it.
LEMMA HistoryIsOwn == ASSUME NEW i, NEW at, HistoryTo(i, rows[i], at) PROVE OwnHistory(i)
<1>1. DOMAIN rows[i].log = 1..Len(rows[i].log)
  BY DEF HistoryTo, IsAList
<1>2. {rows[i].stops, rows[i].info} \subseteq {<<i, t>> : t \in 1..rows[i].turn} \cup {<< >>}
  <2>1. \/ rows[i].stops = << >>
        \/ \E t \in 1..rows[i].turn : rows[i].stops = <<i, t>>
    BY Zenon DEF HistoryTo
  <2>2. \/ rows[i].info = << >>
        \/ \E t \in 1..rows[i].turn : rows[i].info = <<i, t>>
    BY Zenon DEF HistoryTo
  <2> DEFINE own == {<<i, t>> : t \in 1..rows[i].turn}
  <2>3. \A x : x = << >> \/ (\E t \in 1..rows[i].turn : x = <<i, t>>) => x \in own \cup {<< >>}
    OBVIOUS
  <2>4. rows[i].stops \in own \cup {<< >>} /\ rows[i].info \in own \cup {<< >>}
    <3> HIDE DEF own
    <3> QED BY <2>1, <2>2, <2>3, Zenon
  <2> HIDE DEF own
  <2>5. {rows[i].stops, rows[i].info} \subseteq own \cup {<< >>}
    BY <2>4
  <2> QED BY <2>5 DEF own
<1>3. rows[i].rewards = [t \in 1..(Len(rows[i].log) \div 2) |-> <<i, t>>]
  BY DEF HistoryTo
<1>4. \A n \in DOMAIN rows[i].log :
         /\ rows[i].log[n].of = <<i, (n + 1) \div 2>>
         /\ (n % 2) = 0 <=> rows[i].log[n].role = "environment"
         /\ rows[i].log[n].role = "dummy" => n = Len(rows[i].log) /\ rows[i].truncated
  BY <1>1 DEF HistoryTo
<1> QED BY <1>2, <1>3, <1>4 DEF OwnHistory

\* So are those of the synchronous rollout.
LEMMA SyncHistoriesAreOwn ==
    SyncInv /\ asyncEngine = FALSE /\ rollout # "handed" => \A i \in Sample : OwnHistory(i)
<1> SUFFICES ASSUME SyncInv, asyncEngine = FALSE, rollout # "handed", NEW i \in Sample
             PROVE  OwnHistory(i)
  OBVIOUS
<1>1. RowsInv /\ AnswersInv
  BY DEF SyncInv
<1>2. Between(i, rows[i]) \/ HistoryTo(i, rows[i], "wait") \/ HistoryTo(i, rows[i], "step")
  BY <1>1 DEF RowsInv, AnswersInv
<1>3. CASE rows[i] = NewRow
  <2>1. /\ rows[i].log = << >> /\ rows[i].rewards = << >>
        /\ rows[i].stops = << >> /\ rows[i].info = << >>
    BY <1>3 DEF NewRow
  <2>2. DOMAIN << >> = {} /\ << >> = [t \in 1..(Len(<< >>) \div 2) |-> <<i, t>>]
    <3>1. Len(<< >>) \div 2 = 0 /\ << >> = [t \in 1..0 |-> <<i, t>>] /\ DOMAIN << >> = {}
      OBVIOUS
    <3> QED BY <3>1
  <2> QED BY <2>1, <2>2 DEF OwnHistory
<1> QED BY <1>2, <1>3, HistoryIsOwn DEF Between

HIDE RolloutConstants

-----------------------------------------------------------------------------
(* The workers of a call. *)

\* y + r has the digit of r: in base a, where b is the weight of the digit.
SameDigit(y, r, a, b) == y \in Nat /\ ((y + r) \div b) % a = (r \div b) % a

\* A digit of a number does not depend on the digits before it.
LEMMA DigitKept ==
    ASSUME NEW a, NEW b, a \in Nat \ {0}, b \in Nat \ {0}, NEW x, x \in Nat, NEW r, r \in Nat,
           NEW y, y = b * (a * x)
    PROVE  SameDigit(y, r, a, b)
<1> DEFINE q == r \div b
           z == r % b
           u == q \div a
           v == q % a
           ax == a * x
           au == a * u
<1>1. q \in Nat /\ z \in 0..(b - 1) /\ r = b * q + z
  BY Division
<1> HIDE DEF q, z
<1>2. u \in Nat /\ v \in 0..(a - 1) /\ q = a * u + v
  BY <1>1, Division
<1> HIDE DEF u, v
<1>3. ax \in Nat /\ au \in Nat /\ y = b * ax /\ q = au + v
  BY <1>2
<1>4. ax + au = a * (x + u)
  BY <1>2
<1> DEFINE w == x + u
<1>5. w \in Nat /\ ax + au = a * w
  BY <1>2, <1>4
<1> HIDE DEF ax, au, w
<1> DEFINE m == ax + q
<1>6. m \in Nat /\ m = a * w + v
  <2>1. a * w \in Nat
    BY <1>5
  <2> DEFINE aw == a * w
  <2>2. aw \in Nat /\ aw = ax + au
    BY <1>5, <2>1
  <2> HIDE DEF aw
  <2>3. m \in Nat /\ m = aw + v
    BY <1>1, <1>2, <1>3, <2>2
  <2> QED BY <2>3 DEF aw
<1>7. y + r = b * m + z
  <2>1. b * m = b * ax + b * q
    BY <1>1, <1>3
  <2> DEFINE c == b * ax
             d == b * q
             e == b * m
  <2>2. c \in Nat /\ d \in Nat /\ e = c + d /\ y = c /\ r = d + z
    BY <1>1, <1>3, <2>1
  <2> HIDE DEF c, d, e
  <2>3. y + r = e + z
    BY <1>1, <2>2
  <2> QED BY <2>3 DEF e
<1> HIDE DEF m
<1>8. (b * m + z) \div b = m
  BY <1>1, <1>6, Quotient
<1>9. (a * w + v) % a = v
  BY <1>2, <1>5, Quotient
<1>10. y \in Nat
  BY <1>3
<1>11. (y + r) \div b = m
  BY <1>7, <1>8
<1>12. m % a = v
  BY <1>6, <1>9
<1>13. ((y + r) \div b) % a = (r \div b) % a
  BY <1>11, <1>12 DEF v, q
<1> QED BY <1>10, <1>13 DEF SameDigit

\* The sizes of a configuration, the workers of a shard on one pipeline stage, and all of
\* a stage.
Stages == policy.pipeline
Contexts == policy.context
PerShard == Contexts * TensorSize
PerStage == Shards * PerShard

\* The axes of the layout, from the outermost.
LEMMA LayoutAxes ==
    ASSUME policy \in Configurations(algorithm)
    PROVE  /\ Layout \in Seq(Axes) /\ Len(Layout) = 4
           /\ Layout[1] = Axis("pipeline_parallel", Stages)
           /\ Layout[2] = Axis("data_parallel", Shards)
           /\ Layout[3] = Axis("context_parallel", Contexts)
           /\ Layout[4] = Axis("tensor_parallel", TensorSize)
           /\ Stages \in Nat \ {0} /\ Shards \in Nat \ {0} /\ Contexts \in Nat \ {0}
           /\ TensorSize \in Nat \ {0} /\ PerShard \in Nat \ {0} /\ PerStage \in Nat \ {0}
<1>1. /\ Shards \in Nat \ {0} /\ TensorSize \in Nat \ {0}
      /\ PipelineSizes \subseteq Nat \ {0} /\ ContextSizes \subseteq Nat \ {0}
  BY PolicyConstants
<1>2. policy.pipeline \in PipelineSizes /\ policy.context \in ContextSizes
  BY DEF Configurations
<1>3. Stages \in Nat \ {0} /\ Contexts \in Nat \ {0}
  BY <1>1, <1>2 DEF Stages, Contexts
<1>4. \A size \in Nat : /\ Axis("data_parallel", size) \in Axes
                        /\ Axis("pipeline_parallel", size) \in Axes
                        /\ Axis("context_parallel", size) \in Axes
                        /\ Axis("tensor_parallel", size) \in Axes
  BY DEF Axis, Axes
<1>5. Axis("data_parallel", Shards) \in Axes /\ Axis("pipeline_parallel", Stages) \in Axes
      /\ Axis("tensor_parallel", TensorSize) \in Axes
      /\ Axis("context_parallel", Contexts) \in Axes
  BY <1>1, <1>3, <1>4
<1>6. \A x, y, z, u \in Axes : <<x, y, z, u>> \in Seq(Axes) /\ Len(<<x, y, z, u>>) = 4
          /\ <<x, y, z, u>>[1] = x /\ <<x, y, z, u>>[2] = y /\ <<x, y, z, u>>[3] = z
          /\ <<x, y, z, u>>[4] = u
  OBVIOUS
<1>7. PerShard \in Nat \ {0}
  BY <1>1, <1>3 DEF PerShard
<1>8. PerStage \in Nat \ {0}
  BY <1>1, <1>7 DEF PerStage
<1>9. Layout = <<Axis("pipeline_parallel", Stages), Axis("data_parallel", Shards),
                 Axis("context_parallel", Contexts), Axis("tensor_parallel", TensorSize)>>
  BY DEF Layout, Stages, Contexts
<1> QED BY <1>1, <1>3, <1>5, <1>6, <1>7, <1>8, <1>9, Zenon

\* The coordinates of a worker are the digits of its number.
LEMMA WorkerCoordinates ==
    ASSUME policy \in Configurations(algorithm)
    PROVE  /\ Span(Layout, 1) = Stages * PerStage
           /\ \A w \in Nat :
                  /\ Coordinate(Layout, w, "pipeline_parallel") = (w \div PerStage) % Stages
                  /\ Coordinate(Layout, w, "data_parallel") = (w \div PerShard) % Shards
                  /\ Coordinate(Layout, w, "context_parallel") = (w \div TensorSize) % Contexts
                  /\ Coordinate(Layout, w, "tensor_parallel") = w % TensorSize
<1>1. /\ Layout \in Seq(Axes) /\ Len(Layout) = 4
      /\ Stages \in Nat \ {0} /\ Shards \in Nat \ {0} /\ Contexts \in Nat \ {0}
      /\ TensorSize \in Nat \ {0} /\ PerShard \in Nat \ {0} /\ PerStage \in Nat \ {0}
  BY LayoutAxes
<1>2. /\ Layout[1].name = "pipeline_parallel" /\ Layout[1].size = Stages
      /\ Layout[2].name = "data_parallel" /\ Layout[2].size = Shards
      /\ Layout[3].name = "context_parallel" /\ Layout[3].size = Contexts
      /\ Layout[4].name = "tensor_parallel" /\ Layout[4].size = TensorSize
  BY LayoutAxes DEF Axis
<1>n. /\ 4 \in 1..Len(Layout) /\ 3 \in 1..Len(Layout) /\ 2 \in 1..Len(Layout)
      /\ 1 \in 1..Len(Layout)
      /\ 5 = 4 + 1 /\ 4 = 3 + 1 /\ 3 = 2 + 1 /\ 2 = 1 + 1
  BY <1>1
<1>3. /\ Span(Layout, 5) = 1 /\ Span(Layout, 4) = TensorSize
      /\ Span(Layout, 3) = PerShard /\ Span(Layout, 2) = PerStage
      /\ Span(Layout, 1) = Stages * PerStage
  <2>1. Span(Layout, 5) = 1
    <3>1. 5 = Len(Layout) + 1
      BY <1>1
    <3> QED BY <1>1, <3>1, SpanEnd, Zenon
  <2>2. Span(Layout, 4) = TensorSize * Span(Layout, 5)
    BY <1>1, <1>2, <1>n, SpanAt, Zenon
  <2>3. Span(Layout, 3) = Contexts * Span(Layout, 4)
    BY <1>1, <1>2, <1>n, SpanAt, Zenon
  <2>4. Span(Layout, 2) = Shards * Span(Layout, 3)
    BY <1>1, <1>2, <1>n, SpanAt, Zenon
  <2>5. Span(Layout, 1) = Stages * Span(Layout, 2)
    BY <1>1, <1>2, <1>n, SpanAt, Zenon
  <2>6. Span(Layout, 4) = TensorSize
    BY <1>1, <2>1, <2>2
  <2> QED BY <2>1, <2>3, <2>4, <2>5, <2>6 DEF PerShard, PerStage
<1>4. \A b \in 1..Len(Layout) : b = 1 \/ b = 2 \/ b = 3 \/ b = 4
  BY <1>1
<1>5. /\ IsNamed(Layout, 1, "pipeline_parallel") /\ IsNamed(Layout, 2, "data_parallel")
      /\ IsNamed(Layout, 3, "context_parallel") /\ IsNamed(Layout, 4, "tensor_parallel")
  BY <1>2, <1>4, <1>n DEF IsNamed
<1>6. ASSUME NEW w \in Nat
      PROVE  /\ Coordinate(Layout, w, "pipeline_parallel") = (w \div PerStage) % Stages
             /\ Coordinate(Layout, w, "data_parallel") = (w \div PerShard) % Shards
             /\ Coordinate(Layout, w, "context_parallel") = (w \div TensorSize) % Contexts
             /\ Coordinate(Layout, w, "tensor_parallel") = w % TensorSize
  <2>1. Coordinate(Layout, w, "pipeline_parallel") = (w \div Span(Layout, 2)) % Layout[1].size
    BY <1>n, <1>5, CoordinateAt
  <2>2. Coordinate(Layout, w, "data_parallel") = (w \div Span(Layout, 3)) % Layout[2].size
    BY <1>n, <1>5, CoordinateAt
  <2>3. Coordinate(Layout, w, "context_parallel") = (w \div Span(Layout, 4)) % Layout[3].size
    BY <1>n, <1>5, CoordinateAt
  <2>4. Coordinate(Layout, w, "tensor_parallel") = (w \div Span(Layout, 5)) % Layout[4].size
    BY <1>n, <1>5, CoordinateAt
  <2>5. w \div 1 = w
    OBVIOUS
  <2> QED BY <1>2, <1>3, <2>1, <2>2, <2>3, <2>4, <2>5
<1> QED BY <1>3, <1>6

\* The workers that are called, and the shard and the stage of each.
LEMMA CalledAre ==
    ASSUME policy \in Configurations(algorithm)
    PROVE  /\ Stages * PerStage \in Nat /\ Span(Layout, 1) = Stages * PerStage
           /\ CalledWorkers = 0..(Stages * PerStage - 1)
           /\ \A w \in CalledWorkers :
                  /\ w \in Nat /\ ShardOfWorker(w) = ((w \div PerShard) % Shards) + 1
                  /\ ShardOfWorker(w) \in Shard
                  /\ LastStage(w) <=> (w \div PerStage) % Stages = Stages - 1
<1>1. /\ Stages \in Nat \ {0} /\ Shards \in Nat \ {0} /\ Contexts \in Nat \ {0}
      /\ TensorSize \in Nat \ {0} /\ PerShard \in Nat \ {0} /\ PerStage \in Nat \ {0}
      /\ Len(Layout) = 4 /\ Layout \in Seq(Axes)
  BY LayoutAxes
<1>2. Stages * PerStage \in Nat
  BY <1>1
<1>3. Workers(Layout) = 0..(Stages * PerStage - 1)
  BY WorkerCoordinates DEF Workers
<1>4. Names(Layout) \ ({"data_parallel"} \cup ModelAxes) = {}
  <2>1. /\ Layout[1].name = "pipeline_parallel" /\ Layout[2].name = "data_parallel"
        /\ Layout[3].name = "context_parallel" /\ Layout[4].name = "tensor_parallel"
    BY LayoutAxes DEF Axis
  <2>2. DOMAIN Layout = 1..4
    BY <1>1
  <2>3. \A a \in 1..4 : a = 1 \/ a = 2 \/ a = 3 \/ a = 4
    OBVIOUS
  <2> QED BY <2>1, <2>2, <2>3 DEF Names, ModelAxes
<1>5. CalledWorkers = Workers(Layout)
  BY <1>4 DEF CalledWorkers, Called
<1>6. ASSUME NEW w \in CalledWorkers
      PROVE  /\ w \in Nat /\ ShardOfWorker(w) = ((w \div PerShard) % Shards) + 1
             /\ ShardOfWorker(w) \in Shard
             /\ LastStage(w) <=> (w \div PerStage) % Stages = Stages - 1
  <2>1. w \in Nat
    BY <1>3, <1>5
  <2>2. /\ Coordinate(Layout, w, "data_parallel") = (w \div PerShard) % Shards
        /\ Coordinate(Layout, w, "pipeline_parallel") = (w \div PerStage) % Stages
    BY <2>1, WorkerCoordinates
  <2> DEFINE q == w \div PerShard
  <2>3. q \in Nat
    BY <1>1, <2>1, Division
  <2> HIDE DEF q
  <2>4. q % Shards \in 0..(Shards - 1)
    BY <1>1, <2>3
  <2>5. ShardOfWorker(w) = (q % Shards) + 1
    BY <2>2 DEF ShardOfWorker, q
  <2>6. ShardOfWorker(w) \in Shard
    BY <1>1, <2>4, <2>5 DEF Shard
  <2>7. LastStage(w) <=> (w \div PerStage) % Stages = Stages - 1
    BY <2>2 DEF LastStage, Stages
  <2> QED BY <2>1, <2>5, <2>6, <2>7 DEF q
<1> QED BY <1>2, <1>3, <1>5, <1>6, WorkerCoordinates

\* The axes that say where in its stage a worker is.
OtherAxes == {"data_parallel", "context_parallel", "tensor_parallel"}

\* Every worker has one on the last stage that it gets its results from.
LEMMA SourceIs ==
    ASSUME policy \in Configurations(algorithm), NEW w \in CalledWorkers
    PROVE  \E v \in CalledWorkers :
               /\ LastStage(v)
               /\ \A name \in OtherAxes : Coordinate(Layout, v, name) = Coordinate(Layout, w, name)
<1>1. /\ Stages \in Nat \ {0} /\ Shards \in Nat \ {0} /\ Contexts \in Nat \ {0}
      /\ TensorSize \in Nat \ {0} /\ PerShard \in Nat \ {0} /\ PerStage \in Nat \ {0}
  BY LayoutAxes
<1>2. /\ Stages * PerStage \in Nat
      /\ CalledWorkers = 0..(Stages * PerStage - 1) /\ w \in Nat
  BY CalledAre
<1> DEFINE r == w % PerStage
           p == w \div PerStage
           Number(x) == Shards * (PerShard * x) + r
           At(x) == PerStage * x + r
           last == Stages - 1
           v == At(last)
<1>3. p \in Nat /\ r \in 0..(PerStage - 1) /\ w = PerStage * p + r
  BY <1>1, <1>2, Division
<1> HIDE DEF r, p
<1>4. last \in Nat /\ r \in Nat
  BY <1>1, <1>3
<1> HIDE DEF last
<1>5. ASSUME NEW x \in Nat
      PROVE  /\ At(x) \in Nat
             /\ (At(x) \div PerShard) % Shards = (r \div PerShard) % Shards
             /\ (At(x) \div TensorSize) % Contexts = (r \div TensorSize) % Contexts
             /\ At(x) % TensorSize = r % TensorSize
  <2> DEFINE y == PerStage * x
  <2>1. y = PerShard * (Shards * x)
    <3>1. \A a, b \in Nat : (a * b) * x = b * (a * x)
      BY <1>5
    <3>2. (Shards * PerShard) * x = PerShard * (Shards * x)
      BY <1>1, <3>1
    <3> QED BY <3>2 DEF PerStage
  <2>2. y = TensorSize * (Contexts * (Shards * x))
    <3> DEFINE z == Shards * x
    <3>1. z \in Nat
      BY <1>1, <1>5
    <3> HIDE DEF z
    <3>2. \A a, b \in Nat : (a * b) * z = b * (a * z)
      BY <3>1
    <3>3. (Contexts * TensorSize) * z = TensorSize * (Contexts * z)
      BY <1>1, <3>2
    <3> QED BY <2>1, <3>3 DEF PerShard, z
  <2>3. y \in Nat
    BY <1>1, <1>5
  <2> HIDE DEF y
  <2>4. ((y + r) \div PerShard) % Shards = (r \div PerShard) % Shards
    <3>1. SameDigit(y, r, Shards, PerShard)
      BY <1>1, <1>4, <1>5, <2>1, DigitKept
    <3> QED BY <3>1 DEF SameDigit
  <2>5. ((y + r) \div TensorSize) % Contexts = (r \div TensorSize) % Contexts
    <3> DEFINE z == Shards * x
    <3>1. z \in Nat
      BY <1>1, <1>5
    <3> HIDE DEF z
    <3>2. y = TensorSize * (Contexts * z)
      BY <2>2 DEF z
    <3>3. SameDigit(y, r, Contexts, TensorSize)
      BY <1>1, <1>4, <3>1, <3>2, DigitKept
    <3> QED BY <3>3 DEF SameDigit
  <2>6. (y + r) % TensorSize = r % TensorSize
    <3> DEFINE z == Contexts * (Shards * x)
               i == 1
    <3>1. z \in Nat
      <4> DEFINE u == Shards * x
      <4>1. u \in Nat
        BY <1>1, <1>5
      <4> HIDE DEF u
      <4>2. Contexts * u \in Nat
        BY <1>1, <4>1
      <4> QED BY <4>2 DEF u
    <3> HIDE DEF z
    <3>2. y = TensorSize * z
      BY <2>2 DEF z
    <3> DEFINE tz == TensorSize * z
    <3>3. i \in Nat \ {0} /\ tz \in Nat /\ y = 1 * tz
      BY <1>1, <3>1, <3>2
    <3>4. y = i * (TensorSize * z)
      BY <3>3
    <3>5. ((y + r) \div i) % TensorSize = (r \div i) % TensorSize
      <4> HIDE DEF i
      <4>1. SameDigit(y, r, TensorSize, i)
        BY <1>1, <1>4, <3>1, <3>3, <3>4, DigitKept
      <4> QED BY <4>1 DEF SameDigit
    <3>6. (y + r) \div i = y + r /\ r \div i = r
      BY <1>4, <2>3
    <3> QED BY <3>5, <3>6
  <2>7. At(x) = y + r
    BY DEF y
  <2> QED BY <1>4, <2>3, <2>4, <2>5, <2>6, <2>7
<1>6. v \in CalledWorkers
  <2> DEFINE a == PerStage * last
             b == Stages * PerStage
  <2>1. a \in Nat /\ b \in Nat /\ b = a + PerStage /\ v = a + r
    <3>1. Stages = last + 1
      BY <1>1 DEF last
    <3>2. a \in Nat
      BY <1>1, <1>4
    <3>3. (last + 1) * PerStage = PerStage * last + PerStage
      BY <1>1, <1>4
    <3>4. b = a + PerStage
      BY <3>1, <3>3
    <3> QED BY <1>2, <3>2, <3>4
  <2> HIDE DEF a, b, v
  <2>2. v \in 0..(b - 1)
    BY <1>1, <1>3, <2>1
  <2> QED BY <1>2, <2>2 DEF b
<1>7. v \in Nat
  BY <1>2, <1>6
<1>8. LastStage(v)
  <2>1. (PerStage * last + r) \div PerStage = last
    BY <1>1, <1>3, <1>4, Quotient
  <2>2. last % Stages = last
    BY <1>1, <1>4 DEF last
  <2>3. last = Stages - 1
    BY DEF last
  <2> QED BY <1>6, <2>1, <2>2, <2>3, CalledAre
<1>9. ASSUME NEW name \in OtherAxes
      PROVE  Coordinate(Layout, v, name) = Coordinate(Layout, w, name)
  <2>1. w = At(p)
    BY <1>3
  <2>2. /\ (v \div PerShard) % Shards = (w \div PerShard) % Shards
        /\ (v \div TensorSize) % Contexts = (w \div TensorSize) % Contexts
        /\ v % TensorSize = w % TensorSize
    <3> HIDE DEF At
    <3> QED BY <1>3, <1>4, <1>5, <2>1
  <2> HIDE DEF v
  <2>3. /\ Coordinate(Layout, v, "data_parallel") = (v \div PerShard) % Shards
        /\ Coordinate(Layout, v, "context_parallel") = (v \div TensorSize) % Contexts
        /\ Coordinate(Layout, v, "tensor_parallel") = v % TensorSize
    BY <1>7, WorkerCoordinates
  <2>4. /\ Coordinate(Layout, w, "data_parallel") = (w \div PerShard) % Shards
        /\ Coordinate(Layout, w, "context_parallel") = (w \div TensorSize) % Contexts
        /\ Coordinate(Layout, w, "tensor_parallel") = w % TensorSize
    BY <1>2, WorkerCoordinates
  <2> QED BY <2>2, <2>3, <2>4 DEF OtherAxes
<1> QED BY <1>6, <1>8, <1>9

\* How many of the first n multiples of b, from 0 on, are below k.
MultiplesBelow(b, n, k) ==
    LET all == (k + b - 1) \div b
    IN  IF all > n THEN n ELSE all

\* From j = b * q + r to the next number, there is another multiple if j is one of them.
CountsOn(b, n, q, r, j) ==
    /\ MultiplesBelow(b, n, j) \in 0..n /\ MultiplesBelow(b, n, j + 1) \in 0..n
    /\ r = 0 /\ q < n => MultiplesBelow(b, n, j) = q /\ MultiplesBelow(b, n, j + 1) = q + 1
    /\ ~(r = 0 /\ q < n) => MultiplesBelow(b, n, j + 1) = MultiplesBelow(b, n, j)

\* The multiples of b below j are counted so.
LEMMA MultiplesCounted ==
    ASSUME NEW b, b \in Nat \ {0}, NEW n, n \in Nat, NEW q, q \in Nat, NEW r, r \in 0..(b - 1),
           NEW j, j = b * q + r
    PROVE  CountsOn(b, n, q, r, j)
<1> DEFINE x == b * q
           y == b * (q + 1)
           low == (j + b - 1) \div b
           high == ((j + 1) + b - 1) \div b
<1>1. x \in Nat /\ y \in Nat /\ y = x + b /\ j = x + r /\ r \in Nat /\ r <= b - 1
  OBVIOUS
<1>2. r = 0 => low = q /\ high = q + 1
  <2> SUFFICES ASSUME r = 0 PROVE low = q /\ high = q + 1
    OBVIOUS
  <2>1. (b * q + (b - 1)) \div b = q
    <3>1. b - 1 \in 0..(b - 1)
      OBVIOUS
    <3> QED BY <3>1, Quotient
  <2>2. (b * (q + 1) + 0) \div b = q + 1
    <3>1. q + 1 \in Nat /\ 0 \in 0..(b - 1)
      OBVIOUS
    <3> QED BY <3>1, Quotient
  <2>3. j + b - 1 = b * q + (b - 1) /\ (j + 1) + b - 1 = b * (q + 1) + 0
    <3>1. j + b - 1 = x + (b - 1) /\ (j + 1) + b - 1 = y + 0
      <4> HIDE DEF x, y
      <4> QED BY <1>1
    <3> QED BY <3>1
  <2> QED BY <2>1, <2>2, <2>3
<1>3. r # 0 => low = q + 1 /\ high = q + 1
  <2> SUFFICES ASSUME r # 0 PROVE low = q + 1 /\ high = q + 1
    OBVIOUS
  <2>1. (b * (q + 1) + (r - 1)) \div b = q + 1 /\ (b * (q + 1) + r) \div b = q + 1
    <3>1. q + 1 \in Nat /\ r - 1 \in 0..(b - 1) /\ r \in 0..(b - 1)
      BY <1>1
    <3> QED BY <3>1, Quotient
  <2>2. j + b - 1 = b * (q + 1) + (r - 1) /\ (j + 1) + b - 1 = b * (q + 1) + r
    <3>1. j + b - 1 = y + (r - 1) /\ (j + 1) + b - 1 = y + r
      <4> HIDE DEF x, y
      <4> QED BY <1>1
    <3> QED BY <3>1
  <2> QED BY <2>1, <2>2
<1>4. /\ MultiplesBelow(b, n, j) = IF low > n THEN n ELSE low
      /\ MultiplesBelow(b, n, j + 1) = IF high > n THEN n ELSE high
  BY DEF MultiplesBelow
<1> HIDE DEF low, high
<1> QED BY <1>2, <1>3, <1>4 DEF CountsOn

\* Nothing is below 0, and far enough on there are all.
LEMMA MultiplesEnd ==
    ASSUME NEW b, b \in Nat \ {0}, NEW n, n \in Nat \ {0}, NEW k, k \in Nat, n * b <= k
    PROVE  MultiplesBelow(b, n, 0) = 0 /\ MultiplesBelow(b, n, k) = n
<1>1. MultiplesBelow(b, n, 0) = 0
  <2>1. (b * 0 + (b - 1)) \div b = 0
    <3>1. b - 1 \in 0..(b - 1) /\ 0 \in Nat
      OBVIOUS
    <3> QED BY <3>1, Quotient
  <2>2. b * 0 + (b - 1) = 0 + b - 1
    OBVIOUS
  <2>3. (0 + b - 1) \div b = 0
    BY <2>1, <2>2
  <2> QED BY <2>3 DEF MultiplesBelow
<1>2. MultiplesBelow(b, n, k) = n
  <2> DEFINE m == k + b - 1
             all == m \div b
             x == b * all
             y == n * b
             rest == m % b
  <2>1. m \in Nat
    OBVIOUS
  <2>2. all \in Nat /\ rest \in 0..(b - 1) /\ m = x + rest
    BY <2>1, Division
  <2>3. x \in Nat /\ y \in Nat /\ y <= k
    BY <2>2
  <2>4. y <= x
    <3> HIDE DEF x, y, all, rest
    <3> QED BY <2>2, <2>3
  <2>5. n <= all
    <3> SUFFICES ASSUME all < n PROVE FALSE
      BY <2>2
    <3>1. all + 1 <= n /\ all + 1 \in Nat
      BY <2>2
    <3>2. (all + 1) * b <= n * b
      BY <2>2, <3>1, Order
    <3>3. (all + 1) * b = b * all + b
      BY <2>2
    <3>4. x + b <= y
      BY <3>2, <3>3
    <3> HIDE DEF x, y, all
    <3> QED BY <2>3, <2>4, <3>4
  <2>6. MultiplesBelow(b, n, k) = IF all > n THEN n ELSE all
    BY DEF MultiplesBelow
  <2> HIDE DEF all
  <2> QED BY <2>2, <2>5, <2>6
<1> QED BY <1>1, <1>2

\* The worker of a shard that returns the shard's results.
Head0(s) == PerShard * (s - 1)

\* A worker at 0 on all axes but that of the shards is the first of its shard on the first stage.
LEMMA ReturningAre ==
    ASSUME policy \in Configurations(algorithm)
    PROVE  /\ ReturningWorkers = {Head0(s) : s \in Shard}
           /\ \A s \in Shard : Head0(s) \in CalledWorkers /\ ShardOfWorker(Head0(s)) = s
<1> USE DEF Head0
<1>1. /\ Stages \in Nat \ {0} /\ Shards \in Nat \ {0} /\ Contexts \in Nat \ {0}
      /\ TensorSize \in Nat \ {0} /\ PerShard \in Nat \ {0} /\ PerStage \in Nat \ {0}
  BY LayoutAxes
<1>2. /\ Stages * PerStage \in Nat
      /\ CalledWorkers = 0..(Stages * PerStage - 1)
      /\ \A w \in CalledWorkers :
             w \in Nat /\ ShardOfWorker(w) = ((w \div PerShard) % Shards) + 1
  BY CalledAre
<1>3. ReturningWorkers = {w \in CalledWorkers :
          /\ (w \div PerStage) % Stages = 0 /\ (w \div TensorSize) % Contexts = 0
          /\ w % TensorSize = 0}
  <2>1. \A w \in CalledWorkers :
            /\ Coordinate(Layout, w, "pipeline_parallel") = (w \div PerStage) % Stages
            /\ Coordinate(Layout, w, "context_parallel") = (w \div TensorSize) % Contexts
            /\ Coordinate(Layout, w, "tensor_parallel") = w % TensorSize
    BY <1>2, WorkerCoordinates
  <2> QED BY <2>1 DEF ReturningWorkers, Returning, ModelAxes
<1>4. ASSUME NEW w \in ReturningWorkers PROVE \E s \in Shard : w = Head0(s)
  <2>1. /\ w \in CalledWorkers /\ (w \div PerStage) % Stages = 0
        /\ (w \div TensorSize) % Contexts = 0 /\ w % TensorSize = 0
    BY <1>3
  <2>2. w \in Nat /\ w < Stages * PerStage
    BY <1>2, <2>1
  <2>3. w < PerStage
    <3> DEFINE p == w \div PerStage
    <3>1. p \in Nat /\ w = PerStage * p + (w % PerStage) /\ w % PerStage \in 0..(PerStage - 1)
      BY <1>1, <2>2, Division
    <3>2. p < Stages
      <4>1. Stages * PerStage = PerStage * Stages
        BY <1>1
      <4>2. w < PerStage * Stages
        BY <2>2, <4>1
      <4> QED BY <1>1, <2>2, <4>2, QuotientBelow
    <3>3. p % Stages = 0
      BY <2>1
    <3> HIDE DEF p
    <3>4. p = 0
      BY <1>1, <3>1, <3>2, <3>3
    <3>5. w = w % PerStage
      BY <1>1, <2>2, <3>1, <3>4
    <3> QED BY <1>1, <2>2, <3>1, <3>5
  <2> DEFINE t == w \div TensorSize
             u == t \div Contexts
  <2>4. t \in Nat /\ w = TensorSize * t
    <3>1. t \in Nat /\ w = TensorSize * t + (w % TensorSize)
      BY <1>1, <2>2, Division
    <3> DEFINE x == TensorSize * t
    <3>2. x \in Nat
      BY <1>1, <3>1
    <3> HIDE DEF x, t
    <3>3. w = x + 0
      BY <2>1, <3>1 DEF x
    <3>4. w = x
      BY <3>2, <3>3
    <3> QED BY <3>1, <3>4 DEF x
  <2>5. t % Contexts = 0
    BY <2>1
  <2> HIDE DEF t
  <2>6. u \in Nat /\ t = Contexts * u
    <3>1. u \in Nat /\ t = Contexts * u + (t % Contexts)
      BY <1>1, <2>4, Division
    <3> DEFINE x == Contexts * u
    <3>2. x \in Nat
      BY <1>1, <3>1
    <3> HIDE DEF x, u
    <3>3. t = x + 0
      BY <2>5, <3>1 DEF x
    <3>4. t = x
      BY <3>2, <3>3
    <3> QED BY <3>1, <3>4 DEF x
  <2> HIDE DEF u
  <2>7. w = PerShard * u
    <3>1. \A a, b \in Nat : b * (a * u) = (a * b) * u
      BY <2>6
    <3>2. TensorSize * (Contexts * u) = (Contexts * TensorSize) * u
      BY <1>1, <3>1
    <3> QED BY <2>4, <2>6, <3>2 DEF PerShard
  <2>8. u < Shards
    <3> SUFFICES ASSUME Shards <= u PROVE FALSE
      BY <1>1, <2>6
    <3>1. Shards * PerShard <= u * PerShard
      BY <1>1, <2>6, Order
    <3>2. u * PerShard = PerShard * u
      BY <1>1, <2>6
    <3>3. PerStage <= w
      BY <2>7, <3>1, <3>2 DEF PerStage
    <3> QED BY <1>1, <2>2, <2>3, <3>3
  <2> DEFINE s == u + 1
  <2>9. s \in Shard /\ s - 1 = u
    BY <1>1, <2>6, <2>8 DEF Shard
  <2>10. w = PerShard * (s - 1)
    BY <2>7, <2>9
  <2> HIDE DEF s
  <2> QED BY <2>9, <2>10
<1>5. ASSUME NEW s \in Shard
      PROVE  Head0(s) \in ReturningWorkers /\ ShardOfWorker(Head0(s)) = s
  <2> DEFINE u == s - 1
             w == PerShard * u
  <2>1. u \in 0..(Shards - 1) /\ u \in Nat /\ s = u + 1
    BY <1>1 DEF Shard
  <2> HIDE DEF u
  <2>2. w \in Nat
    BY <1>1, <2>1
  <2>3. w < PerStage /\ PerStage <= Stages * PerStage
    <3>1. (u + 1) * PerShard <= Shards * PerShard
      <4>1. u + 1 \in Nat /\ u + 1 <= Shards /\ Shards \in Nat /\ PerShard \in Nat
        BY <1>1, <2>1
      <4> QED BY <4>1, Order
    <3>2. (u + 1) * PerShard = w + PerShard
      BY <1>1, <2>1
    <3>3. w + PerShard <= PerStage
      BY <3>1, <3>2 DEF PerStage
    <3>4. 1 * PerStage <= Stages * PerStage
      <4>1. 1 \in Nat /\ Stages \in Nat /\ PerStage \in Nat /\ 1 <= Stages
        BY <1>1
      <4> QED BY <4>1, Order
    <3>5. 1 * PerStage = PerStage
      BY <1>1
    <3>6. PerStage <= Stages * PerStage
      BY <3>4, <3>5
    <3> HIDE DEF w
    <3> QED BY <1>1, <2>2, <3>3, <3>6
  <2>4. w \in CalledWorkers
    <3> HIDE DEF w
    <3> QED BY <1>1, <1>2, <2>2, <2>3
  <2>5. (w \div PerStage) % Stages = 0
    <3>1. (PerStage * 0 + w) \div PerStage = 0
      <4>1. w \in 0..(PerStage - 1) /\ 0 \in Nat
        <5> HIDE DEF w
        <5> QED BY <1>1, <2>2, <2>3
      <4> HIDE DEF w
      <4> QED BY <1>1, <4>1, Quotient
    <3>2. PerStage * 0 + w = w
      <4>1. PerStage * 0 = 0
        BY <1>1
      <4> HIDE DEF w
      <4> QED BY <2>2, <4>1
    <3>3. w \div PerStage = 0
      BY <3>1, <3>2
    <3>4. 0 % Stages = 0
      BY <1>1
    <3> QED BY <3>3, <3>4
  <2>6. (w \div TensorSize) % Contexts = 0 /\ w % TensorSize = 0
    <3> DEFINE t == Contexts * u
    <3>1. t \in Nat
      BY <1>1, <2>1
    <3>2. w = TensorSize * t
      <4>1. \A a, b \in Nat : b * (a * u) = (a * b) * u
        BY <2>1
      <4>2. TensorSize * (Contexts * u) = (Contexts * TensorSize) * u
        BY <1>1, <4>1
      <4> QED BY <4>2 DEF PerShard
    <3>3. (TensorSize * t + 0) \div TensorSize = t /\ (TensorSize * t + 0) % TensorSize = 0
      <4>1. 0 \in 0..(TensorSize - 1)
        BY <1>1
      <4> HIDE DEF t
      <4> QED BY <1>1, <3>1, <4>1, Quotient
    <3>4. (Contexts * u + 0) % Contexts = 0
      <4>1. 0 \in 0..(Contexts - 1)
        BY <1>1
      <4> QED BY <1>1, <2>1, <4>1, Quotient
    <3>5. TensorSize * t + 0 = w
      <4> HIDE DEF t, w
      <4> QED BY <2>2, <3>2
    <3>6. Contexts * u + 0 = t
      BY <3>1
    <3>7. w \div TensorSize = t /\ w % TensorSize = 0
      BY <3>3, <3>5
    <3>8. t % Contexts = 0
      BY <3>4, <3>6
    <3> QED BY <3>7, <3>8
  <2>7. (w \div PerShard) % Shards = u
    <3>1. (PerShard * u + 0) \div PerShard = u
      <4>1. 0 \in 0..(PerShard - 1)
        BY <1>1
      <4> QED BY <1>1, <2>1, <4>1, Quotient
    <3>2. PerShard * u + 0 = w
      BY <2>2
    <3>3. u % Shards = u
      BY <1>1, <2>1
    <3> QED BY <3>1, <3>2, <3>3
  <2>8. w = Head0(s)
    BY DEF u
  <2> HIDE DEF w
  <2>9. ShardOfWorker(w) = s
    BY <1>2, <2>1, <2>4, <2>7
  <2>10. w \in ReturningWorkers
    BY <1>3, <2>4, <2>5, <2>6
  <2> QED BY <2>8, <2>9, <2>10
<1>6. ReturningWorkers \subseteq CalledWorkers
  BY <1>3
<1> HIDE DEF Head0
<1> QED BY <1>4, <1>5, <1>6

\* The results of the workers, gathered, are those of the shards one after the other.
LEMMA GatheredShards ==
    ASSUME policy \in Configurations(algorithm), NEW T, NEW res,
           NEW pieces, pieces = [s \in Shard |-> res[Head0(s)]], pieces \in [Shard -> Seq(T)]
    PROVE  /\ Gathered(Layout, ReturningWorkers, res) = FlattenSeq(pieces)
           /\ FlattenSeq(pieces) \in Seq(T)
<1> DEFINE N == Stages * PerStage
           n == Shards
           seqs == [k \in 1..N |-> IF k - 1 \in ReturningWorkers THEN res[k - 1] ELSE << >>]
           c == [k \in 0..N |-> MultiplesBelow(PerShard, Shards, k)]
<1>1. /\ Stages \in Nat \ {0} /\ Shards \in Nat \ {0}
      /\ PerShard \in Nat \ {0} /\ PerStage \in Nat \ {0}
  BY LayoutAxes
<1>2. N \in Nat /\ Span(Layout, 1) = N /\ CalledWorkers = 0..(N - 1)
  BY CalledAre
<1>3. /\ ReturningWorkers = {Head0(s) : s \in Shard}
      /\ \A s \in Shard : Head0(s) \in CalledWorkers
  BY ReturningAre
<1>4. Gathered(Layout, ReturningWorkers, res) = FlattenSeq(seqs)
  BY <1>2 DEF Gathered
<1>5. Shards * PerShard <= N
  <2>1. 1 * PerStage <= Stages * PerStage
    <3>1. 1 \in Nat /\ Stages \in Nat /\ PerStage \in Nat /\ 1 <= Stages
      BY <1>1
    <3> QED BY <3>1, Order
  <2>2. 1 * PerStage = PerStage
    BY <1>1
  <2> QED BY <2>1, <2>2 DEF PerStage
<1>6. seqs \in [1..N -> Seq(T)]
  <2> SUFFICES ASSUME NEW k \in 1..N
               PROVE  (IF k - 1 \in ReturningWorkers THEN res[k - 1] ELSE << >>) \in Seq(T)
    OBVIOUS
  <2>1. CASE k - 1 \in ReturningWorkers
    <3>1. PICK s \in Shard : k - 1 = Head0(s)
      BY <1>3, <2>1
    <3>2. pieces[s] \in Seq(T) /\ pieces[s] = res[k - 1]
      BY <3>1
    <3> QED BY <2>1, <3>2
  <2>2. CASE k - 1 \notin ReturningWorkers
    <3>1. << >> \in Seq(T)
      OBVIOUS
    <3> QED BY <2>2, <3>1
  <2> QED BY <2>1, <2>2
<1>7. ASSUME NEW k \in 1..N
      PROVE  /\ c[k] \in 0..n /\ c[k - 1] \in 0..n
             /\ \/ c[k] = c[k - 1] /\ seqs[k] = << >>
                \/ c[k] = c[k - 1] + 1 /\ seqs[k] = pieces[c[k]]
  <2> DEFINE j == k - 1
             q == j \div PerShard
             r == j % PerShard
  <2>1. j \in Nat /\ j + 1 = k /\ j \in 0..N /\ k \in 0..N
    BY <1>2
  <2>2. c[k] = MultiplesBelow(PerShard, Shards, j + 1) /\ c[j] = MultiplesBelow(PerShard, Shards, j)
    BY <2>1
  <2>3. seqs[k] = IF j \in ReturningWorkers THEN res[j] ELSE << >>
    OBVIOUS
  <2>g. c[k - 1] = c[j]
    OBVIOUS
  <2> HIDE DEF j, c, seqs
  <2>4. q \in Nat /\ r \in 0..(PerShard - 1) /\ j = PerShard * q + r
    BY <1>1, <2>1, Division
  <2> HIDE DEF q, r
  <2>5. /\ MultiplesBelow(PerShard, Shards, j) \in 0..Shards
        /\ MultiplesBelow(PerShard, Shards, j + 1) \in 0..Shards
        /\ r = 0 /\ q < Shards => MultiplesBelow(PerShard, Shards, j) = q
                                  /\ MultiplesBelow(PerShard, Shards, j + 1) = q + 1
        /\ ~(r = 0 /\ q < Shards) => MultiplesBelow(PerShard, Shards, j + 1)
                                       = MultiplesBelow(PerShard, Shards, j)
    <3>1. CountsOn(PerShard, Shards, q, r, j)
      BY <1>1, <2>4, MultiplesCounted
    <3> QED BY <3>1 DEF CountsOn
  <2>6. CASE r = 0 /\ q < Shards
    <3>1. q + 1 \in Shard /\ (q + 1) - 1 = q
      BY <1>1, <2>4, <2>6 DEF Shard
    <3>2. j = PerShard * q
      <4> DEFINE x == PerShard * q
      <4>1. x \in Nat /\ j = x + r
        BY <1>1, <2>4
      <4> HIDE DEF x
      <4>2. j = x
        BY <2>6, <4>1
      <4> QED BY <4>2 DEF x
    <3>3. j = Head0(q + 1)
      BY <3>1, <3>2 DEF Head0
    <3>4. j \in ReturningWorkers
      BY <1>3, <3>1, <3>3
    <3>5. pieces[q + 1] = res[j]
      BY <3>1, <3>3
    <3>6. c[k] = q + 1 /\ c[j] = q
      BY <2>2, <2>5, <2>6
    <3> QED BY <2>2, <2>3, <2>5, <2>g, <3>4, <3>5, <3>6
  <2>7. CASE ~(r = 0 /\ q < Shards)
    <3>1. j \notin ReturningWorkers
      <4> SUFFICES ASSUME NEW s \in Shard, j = PerShard * (s - 1) PROVE FALSE
        BY <1>3 DEF Head0
      <4>1. s - 1 \in Nat /\ s - 1 < Shards
        BY <1>1 DEF Shard
      <4> DEFINE v == s - 1
      <4>2. v \in Nat /\ v < Shards /\ j = PerShard * v
        BY <4>1
      <4> HIDE DEF v
      <4>3. (PerShard * v + 0) \div PerShard = v /\ (PerShard * v + 0) % PerShard = 0
        <5>1. 0 \in 0..(PerShard - 1)
          BY <1>1
        <5> QED BY <1>1, <4>2, <5>1, Quotient
      <4>4. PerShard * v + 0 = j
        BY <2>1, <4>2
      <4>5. q = v /\ r = 0
        BY <4>3, <4>4 DEF q, r
      <4> QED BY <2>7, <4>2, <4>5
    <3> QED BY <2>2, <2>3, <2>5, <2>7, <2>g, <3>1
  <2> QED BY <2>6, <2>7
<1>8. c[0] = 0 /\ c[N] = n
  <2>1. 0 \in 0..N /\ N \in 0..N
    BY <1>2
  <2>2. c[0] = MultiplesBelow(PerShard, Shards, 0) /\ c[N] = MultiplesBelow(PerShard, Shards, N)
    BY <2>1
  <2> HIDE DEF N, c
  <2> QED BY <1>1, <1>2, <1>5, <2>2, MultiplesEnd, ZenonT(30)
<1>9. c \in [0..N -> 0..n]
  <2>1. c = [k \in 0..N |-> c[k]]
    OBVIOUS
  <2>2. ASSUME NEW k \in 0..N PROVE c[k] \in 0..n
    <3>1. CASE k = 0
      BY <1>1, <1>8, <3>1
    <3>2. CASE k # 0
      <4>1. k \in 1..N
        BY <3>2
      <4> HIDE DEF c
      <4> QED BY <1>7, <4>1
    <3> QED BY <3>1, <3>2
  <2> HIDE DEF c
  <2> QED BY <2>1, <2>2
<1> HIDE DEF c, seqs
<1>10. Scattered(c, seqs, pieces, N, n)
  BY <1>7, <1>8, <1>9 DEF Scattered
<1>11. pieces \in [1..n -> Seq(T)] /\ n \in Nat
  BY <1>1 DEF Shard
<1> HIDE DEF N, n
<1>12. FlattenSeq(seqs) = FlattenSeq(pieces) /\ FlattenSeq(pieces) \in Seq(T)
  BY ONLY <1>2, <1>6, <1>10, <1>11, FlattenScattered, Zenon
<1> QED BY <1>4, <1>12

-----------------------------------------------------------------------------
(* What a call hands over. *)

\* The model whose results a call wants.
Model(name) == IF name = "get_reference_policy_logprobs" THEN "reference" ELSE "policy"

\* The plan of a call was made for its rows.
PlannedAs(size, order) ==
    /\ size \in BatchSizes(call) /\ order \in Orders(size)
    /\ ~Refused(size, Tokens(call), order) /\ plan = Plan(size, Tokens(call), order)
PlanInv ==
    IF call \in Calls
    THEN /\ Callable(MaxSeqLen)
         /\ \E size \in BatchSizes(call) : \E order \in Orders(size) : PlannedAs(size, order)
    ELSE plan = << >>

\* The microbatches of a global batch, for each shard.
CutAt(g) == [s \in Shard |-> plan[s][g]]

\* Microbatches of a fixed size hold successive rows.
Successive(cut, size, last) ==
    /\ FlattenSeq([s \in Shard |-> FlattenSeq(cut[s])]) = [k \in 1..size |-> last + k]
    /\ \E q \in Nat \ {0} : \A s \in Shard : \A m \in 1..Len(cut[s]) :
           /\ Len(cut[s][m]) = MicroBatchRows
           /\ \A k \in 1..MicroBatchRows :
                  cut[s][m][k] = last + PlaceInChunk(MicroBatchRows, q, s, m, k)

\* That is how a call with them is cut.
LEMMA FixedSuccessive ==
    ASSUME NEW n, Callable(n), NEW g, NEW size, NEW last, ChunkAt(g, size, last),
           policy.batching = "fixed", NEW tokens, NEW order, ~Refused(size, tokens, order),
           NEW cut, cut = Cut(Chunk(g, size), order[g], tokens)
    PROVE  Successive(cut, size, last)
<1> DEFINE chunk == Chunk(g, size)
           S == Rows(last, size)
           b == MicroBatchRows
<1>1. Lists(chunk, S) /\ Len(chunk) = size /\ \A k \in 1..size : chunk[k] = last + k
  BY OfChunk
<1>2. PICK q \in Nat \ {0} : size = b * q * Shards
  BY FixedCall
<1>3. b \in Nat \ {0}
  BY PolicyNumbers
<1>4. chunk = [k \in 1..size |-> last + k]
  BY DEF Chunk, ChunkAt
<1>5. cut = FixedCut(chunk)
  BY DEF Cut
<1>b. b = MicroBatchRows
  OBVIOUS
<1> HIDE DEF chunk, S, b
<1>6. size \in Nat
  BY DEF ChunkAt
<1>c. /\ Cuts(FixedCut(chunk), S)
      /\ \A s \in Shard : \A m \in 1..Len(FixedCut(chunk)[s]) :
             /\ Len(FixedCut(chunk)[s][m]) = b
             /\ \A k \in 1..b : 
                    /\ FixedCut(chunk)[s][m][k] = chunk[PlaceInChunk(b, q, s, m, k)]
                    /\ PlaceInChunk(b, q, s, m, k) \in 1..Len(chunk)
      /\ FlattenSeq([s \in Shard |-> FlattenSeq(FixedCut(chunk)[s])]) = chunk
  BY <1>1, <1>2, <1>3, <1>b, FixedCutCuts, SMTT(30)
<1>7. ASSUME NEW s \in Shard, NEW m \in 1..Len(cut[s]), NEW k \in 1..b
      PROVE  cut[s][m][k] = last + PlaceInChunk(b, q, s, m, k)
  <2>1. Len(cut[s][m]) = b
    BY <1>5, <1>c
  <2>2. /\ cut[s][m][k] = chunk[PlaceInChunk(b, q, s, m, k)]
        /\ PlaceInChunk(b, q, s, m, k) \in 1..Len(chunk)
    BY <1>5, <1>c, <2>1
  <2> QED BY <1>1, <2>2
<1>8. FlattenSeq([s \in Shard |-> FlattenSeq(cut[s])]) = [k \in 1..size |-> last + k]
  BY <1>4, <1>5, <1>c
<1>9. \A s \in Shard : \A m \in 1..Len(cut[s]) :
          /\ Len(cut[s][m]) = MicroBatchRows
          /\ \A k \in 1..MicroBatchRows :
                 cut[s][m][k] = last + PlaceInChunk(MicroBatchRows, q, s, m, k)
  <2>1. \A s \in Shard : \A m \in 1..Len(cut[s]) : Len(cut[s][m]) = b
    BY <1>5, <1>c
  <2> QED BY <1>b, <1>7, <2>1
<1> QED BY <1>8, <1>9 DEF Successive

\* A plan divides the rows into global batches, and each of them into microbatches.
Divided(size) ==
    /\ size \in BatchSizes(call) /\ size \in Nat \ {0} /\ NumChunks(size) \in Nat \ {0}
    /\ Len(lengths) = size * NumChunks(size)
    /\ DOMAIN plan = Shard
    /\ \A s \in Shard : DOMAIN plan[s] = 1..NumChunks(size) /\ Len(plan[s]) = NumChunks(size)
    /\ \A g \in 1..NumChunks(size) :
           /\ Cuts(CutAt(g), Rows((g - 1) * size, size)) /\ Affordable(CutAt(g), Tokens(call))
           /\ policy.batching = "fixed" => Successive(CutAt(g), size, (g - 1) * size)

\* The rows are there in equal parts.
LEMMA BatchesFill ==
    ASSUME Callable(MaxSeqLen), NEW size, size \in BatchSizes(call), Len(lengths) % size = 0
    PROVE  /\ size \in Nat \ {0} /\ NumChunks(size) \in Nat \ {0}
           /\ Len(lengths) = size * NumChunks(size)
<1>1. Len(lengths) \in Nat \ {0}
  BY DEF Callable
<1>2. size \in Nat \ {0}
  BY <1>1, PolicyConstants DEF BatchSizes, TrainBatchSizes
<1> DEFINE q == NumChunks(size)
           r == Len(lengths) % size
<1>3. q \in Nat /\ r = 0 /\ Len(lengths) = size * q + r
  <2>1. /\ Len(lengths) \div size \in Nat
        /\ Len(lengths) = size * (Len(lengths) \div size) + (Len(lengths) % size)
    BY <1>1, <1>2, Division
  <2> QED BY <2>1 DEF NumChunks
<1> HIDE DEF q, r
<1>4. q # 0
  BY <1>1, <1>2, <1>3
<1> DEFINE x == size * q
<1>5. x \in Nat /\ Len(lengths) = x + r
  BY <1>2, <1>3
<1> HIDE DEF x
<1>6. Len(lengths) = x
  BY <1>3, <1>5
<1> QED BY <1>2, <1>3, <1>4, <1>6 DEF q, x

\* A plan is one.
LEMMA PlanDivides ==
    ASSUME PlanInv, call \in Calls PROVE \E size \in BatchSizes(call) : Divided(size)
<1>1. Callable(MaxSeqLen)
  BY DEF PlanInv
<1>2. PICK size \in BatchSizes(call) : \E order \in Orders(size) : PlannedAs(size, order)
  BY DEF PlanInv
<1>3. PICK order \in Orders(size) : PlannedAs(size, order)
  BY <1>2
<1> DEFINE tokens == Tokens(call)
           N == NumChunks(size)
<1>4. ~Refused(size, tokens, order) /\ plan = Plan(size, tokens, order)
  BY <1>3 DEF PlannedAs
<1>5. size \in Nat \ {0} /\ N \in Nat \ {0} /\ Len(lengths) = size * N
  <2>1. Len(lengths) % size = 0
    BY <1>4 DEF Refused
  <2> QED BY <1>1, <2>1, BatchesFill
<1>6. tokens \in Nat
  BY PolicyConstants DEF Tokens
<1> HIDE DEF tokens
<1> DEFINE cuts == [g \in 1..N |-> Cut(Chunk(g, size), order[g], tokens)]
<1>7. plan = [s \in Shard |-> [g \in 1..N |-> cuts[g][s]]]
  BY <1>4 DEF Plan
<1>8. ASSUME NEW g \in 1..N
      PROVE  /\ Cuts(cuts[g], Rows((g - 1) * size, size)) /\ Affordable(cuts[g], tokens)
             /\ policy.batching = "fixed" => Successive(cuts[g], size, (g - 1) * size)
  <2>1. ChunkAt(g, size, (g - 1) * size)
    BY <1>5 DEF ChunkAt
  <2>2. cuts[g] = Cut(Chunk(g, size), order[g], tokens)
    OBVIOUS
  <2> HIDE DEF cuts
  <2>3. Cuts(cuts[g], Rows((g - 1) * size, size)) /\ Affordable(cuts[g], tokens)
    BY <1>1, <1>4, <1>6, <2>1, <2>2, CallCuts
  <2>4. policy.batching = "fixed" => Successive(cuts[g], size, (g - 1) * size)
    BY <1>1, <1>4, <2>1, <2>2, FixedSuccessive
  <2> QED BY <2>3, <2>4
<1> HIDE DEF cuts
<1>9. ASSUME NEW g \in 1..N PROVE CutAt(g) = cuts[g]
  <2>1. cuts[g] = [s \in Shard |-> cuts[g][s]]
    BY <1>8 DEF Cuts
  <2>2. CutAt(g) = [s \in Shard |-> cuts[g][s]]
    BY <1>7 DEF CutAt
  <2> QED BY <2>1, <2>2
<1>10. \A g \in 1..N :
           /\ Cuts(CutAt(g), Rows((g - 1) * size, size)) /\ Affordable(CutAt(g), Tokens(call))
           /\ policy.batching = "fixed" => Successive(CutAt(g), size, (g - 1) * size)
  BY <1>8, <1>9 DEF tokens
<1>11. DOMAIN plan = Shard /\ \A s \in Shard : DOMAIN plan[s] = 1..N /\ Len(plan[s]) = N
  <2>1. ASSUME NEW s \in Shard PROVE DOMAIN plan[s] = 1..N /\ Len(plan[s]) = N
    <3>1. plan[s] = [g \in 1..N |-> cuts[g][s]]
      BY <1>7
    <3> HIDE DEF N
    <3> QED BY <1>5, <3>1
  <2> QED BY <1>7, <2>1
<1> HIDE DEF N
<1>12. Divided(size)
  BY <1>2, <1>5, <1>10, <1>11 DEF Divided, N
<1> QED BY <1>2, <1>12

\* All shards run as many passes as they have microbatches.
LEMMA PassesAre ==
    ASSUME NEW size, Divided(size), globalBatch \in 1..NumChunks(size), NEW s \in Shard
    PROVE  Passes(s) = Len(Mine(s))
<1>1. Cuts(CutAt(globalBatch), Rows((globalBatch - 1) * size, size))
  BY DEF Divided
<1>2. \A t \in Shard : CutAt(globalBatch)[t] = Mine(t)
  BY DEF CutAt, Mine
<1>3. \A t \in Shard : Len(Mine(t)) = Len(Mine(s)) /\ Len(Mine(s)) \in Nat
  <2>1. 1 \in Shard
    BY PolicyConstants DEF Shard
  <2>2. \A t \in Shard : Len(CutAt(globalBatch)[t]) = Len(CutAt(globalBatch)[1])
    BY <1>1 DEF Cuts
  <2>3. \A t \in Shard : CutAt(globalBatch)[t] \in Seq(Seq(Rows((globalBatch - 1) * size, size)))
    BY <1>1 DEF Cuts
  <2>4. \A t \in Shard : Len(CutAt(globalBatch)[t]) \in Nat
    BY <2>3
  <2> QED BY <1>2, <2>1, <2>2, <2>4
<1>4. {Len(Mine(t)) : t \in Shard} = {Len(Mine(s))}
  BY <1>3
<1>5. (CHOOSE n \in {Len(Mine(t)) : t \in Shard} : \A t \in Shard : Len(Mine(t)) <= n) = Len(Mine(s))
  BY <1>3, <1>4
<1> QED BY <1>5 DEF Passes

\* A pass of some shards.
Advances(group) ==
    /\ \A s \in group : s \notin finished /\ microBatch[s] < Passes(s)
    /\ microBatch' = [s \in Shard |-> IF s \in group THEN microBatch[s] + 1 ELSE microBatch[s]]
    /\ UNCHANGED <<algorithm, todo, policy, lengths, valid, evalMode, call, plan, globalBatch,
                   finished, weights, outputs, steps>>

\* A pass of a call without gradients.
Infers(group) ==
    /\ Advances(group) /\ call \in Calls \ {"train"} /\ UNCHANGED gradients
    /\ results' = [w \in DOMAIN results |->
           IF ShardOfWorker(w) \in group /\ LastStage(w)
           THEN results[w] \o Tagged(weights[ShardOfWorker(w)], NextRows(ShardOfWorker(w)))
           ELSE results[w]]

\* A pass of training.
Trains(group) ==
    /\ Advances(group) /\ call = "train"
    /\ results' = [w \in DOMAIN results |->
           IF ShardOfWorker(w) \in group /\ LastStage(w)
           THEN results[w] \o Tagged(weights[ShardOfWorker(w)], Counting(NextRows(ShardOfWorker(w))))
           ELSE results[w]]
    /\ gradients' = [i \in Row |-> gradients[i] +
           IF evalMode THEN 0
           ELSE Cardinality({at \in group \X Row :
                    /\ at[2] \in DOMAIN Counting(NextRows(at[1]))
                    /\ Counting(NextRows(at[1]))[at[2]] = i})]

\* Whatever the backend, a pass is of one of the two kinds.
LEMMA InferenceIs ==
    ASSUME NEW group, InferencePass(group), call \in Calls \ {"train"} PROVE Infers(group)
BY Zenon DEF InferencePass, Pass, Infers, Advances, Tagged

\* A pass of training is one over a group of shards.
LEMMA TrainingIs ==
    ASSUME NEW group, TrainPass(group), call = "train" PROVE Trains(group)
BY Zenon DEF TrainPass, Pass, Trains, Advances, Tagged

\* A forward pass is one or the other.
LEMMA PassIs ==
    ASSUME ForwardPass PROVE \E group \in SUBSET Shard : Infers(group) \/ Trains(group)
<1>1. Shard \in SUBSET Shard /\ \A s \in Shard : {s} \in SUBSET Shard
  OBVIOUS
<1>2. ASSUME NEW group \in SUBSET Shard, InferencePass(group), call \in LogprobCalls \cup {"get_topk_logits"}
      PROVE  \E g \in SUBSET Shard : Infers(g) \/ Trains(g)
  <2>1. call \in Calls \ {"train"}
    BY <1>2 DEF Calls, LogprobCalls
  <2> QED BY <1>2, <2>1, InferenceIs
<1>3. ASSUME NEW group \in SUBSET Shard, TrainPass(group), call = "train"
      PROVE  \E g \in SUBSET Shard : Infers(g) \/ Trains(g)
  BY <1>3, TrainingIs
<1>4. CASE DTensorTrain \/ AutomodelTrain
  BY <1>1, <1>3, <1>4 DEF DTensorTrain, AutomodelTrain
<1>5. CASE DTensorLogprobs \/ DTensorTopk \/ AutomodelLogprobs \/ AutomodelTopk
  BY <1>1, <1>2, <1>5 DEF DTensorLogprobs, DTensorTopk, AutomodelLogprobs, AutomodelTopk
<1>6. ASSUME NEW s \in Shard, MegatronTrain(s) PROVE \E g \in SUBSET Shard : Infers(g) \/ Trains(g)
  BY <1>1, <1>3, <1>6 DEF MegatronTrain
<1>7. ASSUME NEW s \in Shard, MegatronLogprobs(s) \/ MegatronTopk(s)
      PROVE  \E g \in SUBSET Shard : Infers(g) \/ Trains(g)
  BY <1>1, <1>2, <1>7 DEF MegatronLogprobs, MegatronTopk
<1> QED BY <1>4, <1>5, <1>6, <1>7 DEF ForwardPass

\* The same rows in the same configuration are called in the same way.
LEMMA SameRows ==
    ASSUME UNCHANGED <<algorithm, policy, lengths>>
    PROVE  /\ \A name : BatchSizes(name)' = BatchSizes(name)
           /\ \A size : Orders(size)' = Orders(size)
           /\ \A size, tokens, order : Refused(size, tokens, order)' <=> Refused(size, tokens, order)
           /\ \A size, tokens, order : Plan(size, tokens, order)' = Plan(size, tokens, order)
           /\ \A n : Callable(n)' <=> Callable(n)
<1>1. \A name : BatchSizes(name)' = BatchSizes(name)
  BY DEF BatchSizes, TrainBatchSizes
<1>2. \A size : Orders(size)' = Orders(size) /\ NumChunks(size)' = NumChunks(size)
  BY DEF Orders, NumChunks
<1>3. MicroBatchRows' = MicroBatchRows /\ Width' = Width /\ PadMultiple' = PadMultiple
  BY DEF MicroBatchRows, Width, Row, PadMultiple
<1>4. \A chunk : PaddedLengths(chunk)' = PaddedLengths(chunk)
  BY <1>3 DEF PaddedLengths
<1>5. \A chunk, order, tokens : Bins(chunk, order, tokens)' = Bins(chunk, order, tokens)
  BY <1>4 DEF Bins
<1>6. ASSUME NEW size, NEW tokens, NEW order
      PROVE  Refused(size, tokens, order)' <=> Refused(size, tokens, order)
  <2>1. \A g : Chunk(g, size)' = Chunk(g, size)
    BY DEF Chunk
  <2> QED BY <1>2, <1>3, <1>4, <1>5, <2>1 DEF Refused
<1>7. ASSUME NEW chunk, NEW order, NEW tokens
      PROVE  Cut(chunk, order, tokens)' = Cut(chunk, order, tokens)
  <2>1. FixedCut(chunk)' = FixedCut(chunk)
    BY <1>3 DEF FixedCut
  <2>2. DynamicCut(chunk, tokens)' = DynamicCut(chunk, tokens)
    BY <1>3 DEF DynamicCut
  <2>3. \A bins : Deal(chunk, bins)' = Deal(chunk, bins)
    BY DEF Deal
  <2> QED BY <1>5, <2>1, <2>2, <2>3 DEF Cut
<1>8. \A size, tokens, order : Plan(size, tokens, order)' = Plan(size, tokens, order)
  BY <1>2, <1>7 DEF Plan, Shard, Chunk
<1>9. \A n : Callable(n)' <=> Callable(n)
  BY DEF Callable, Configurations, Supported, Admitted
<1> QED BY <1>1, <1>2, <1>6, <1>8, <1>9

\* Rows are handed over once, and there are some.
HandedInv ==
    /\ rollout = "handed" => Len(lengths) > 0
    /\ rollout # "handed" => outputs = << >> /\ steps = << >>

\* A step is of the rollouts or of the policy, or hands the rows over.
LEMMA StepIs ==
    ASSUME PolicyTypes, [Next]_vars
    PROVE  \/ UNCHANGED policyVars /\ (rollout' = "handed" <=> rollout = "handed")
           \/ rollout # "handed" /\ (Flatten \/ Collate)
           \/ UNCHANGED rolloutVars /\ rollout = "handed" /\ PolicyNext
<1>1. CASE MakeRows(RolloutNext)
  <2>1. rollout = "running" /\ UNCHANGED policyVars
    BY <1>1 DEF MakeRows, RolloutNext, SyncRollout, AsyncRollout
  <2>2. rollout' # "handed"
    <3>1. CASE SyncRollout
      <4>1. CASE StartTurn \/ CollectResponses \/ TakeTurn \/ EndRollout \/ SourceFails
        BY <2>1, <4>1 DEF StartTurn, CollectResponses, TakeTurn, EndRollout, SourceFails
      <4>2. ASSUME NEW w \in Engines, GenerateShard(w) PROVE rollout' = rollout
        BY <4>2 DEF GenerateShard, AnswerFrom
      <4>3. ASSUME NEW task \in Task, StepEnvironment(task) PROVE rollout' = rollout
        BY <4>3 DEF StepEnvironment, AnswerFrom
      <4> QED BY <2>1, <3>1, <4>1, <4>2, <4>3 DEF SyncRollout, SyncStep
    <3>2. CASE AsyncRollout(AsyncStep) \/ AsyncRollout(AsyncWorld)
      BY <2>1, <3>2 DEF AsyncRollout, AsyncStep, AsyncWorld, Gather, Coroutine, ReaderPuts,
            ReaderEnds, Receive, TimeOut, TakeSampleTurn, WorkerAnswers, WorkerFails,
            EnvironmentFails
    <3> QED BY <1>1, <3>1, <3>2 DEF MakeRows, RolloutNext
  <2> QED BY <2>1, <2>2
<1>2. CASE Finished \/ UNCHANGED vars
  BY <1>2 DEF Finished, vars, rolloutVars
<1>3. CASE Flatten \/ Collate
  BY <1>3 DEF Flatten, Collate
<1>4. CASE UseRows(PolicyNext)
  <2>1. UNCHANGED rolloutVars /\ PolicyNext
    BY <1>4 DEF UseRows
  <2>2. ~(call = "none" /\ todo = << >>)
    BY <2>1 DEF PolicyNext, TurnTo, Start, PolicyStep, ForwardPass, DTensorTrain, DTensorLogprobs,
          DTensorTopk, AutomodelTrain, AutomodelLogprobs, AutomodelTopk, MegatronTrain,
          MegatronLogprobs, MegatronTopk, LogprobCalls, FinishShard, EndGlobalBatch, Return
  <2> QED BY <2>1, <2>2 DEF PolicyTypes
<1> QED BY <1>1, <1>2, <1>3, <1>4 DEF Next

\* Handing over rows, none of which is called yet.
LEMMA HandIs ==
    ASSUME PolicyTypes, rollout # "handed", Flatten \/ Collate
    PROVE  /\ call = "none" /\ call' = "none" /\ rollout' = "handed" /\ Len(lengths') > 0
           /\ todo' \in StepCalls(algorithm') /\ valid' <= Len(lengths')
           /\ UNCHANGED <<plan, globalBatch, microBatch, finished, weights, results, outputs,
                          gradients, steps>>
<1>1. call = "none"
  BY DEF PolicyTypes
<1>2. ASSUME NEW name, NEW batch, NEW count, Hand(name, batch, count), Len(batch) > 0,
             count <= Len(batch)
      PROVE  /\ call' = "none" /\ rollout' = "handed" /\ Len(lengths') > 0
             /\ todo' \in StepCalls(algorithm') /\ valid' <= Len(lengths')
             /\ UNCHANGED <<plan, globalBatch, microBatch, finished, weights, results, outputs,
                            gradients, steps>>
  BY <1>1, <1>2 DEF Hand
<1>3. CASE Flatten
  <2> DEFINE batch == [i \in Sample |-> Length(rows[i])]
             N == IF asyncEngine THEN AsyncBatch ELSE SyncBatch
  <2>1. PICK name \in {"grpo", "distillation"} : Hand(name, batch, Cardinality(Sample))
    BY <1>3 DEF Flatten
  <2>2. Sample = 1..N /\ N \in Nat \ {0}
    BY RolloutConstants DEF Sample
  <2> HIDE DEF N
  <2>3. Len(batch) = N
    BY <2>2
  <2>4. Cardinality(Sample) = N
    <3>1. 1 \in Int /\ N \in Int
      BY <2>2
    <3>2. Cardinality(1..N) = IF 1 > N THEN 0 ELSE N - 1 + 1
      BY <3>1, FS_Interval
    <3> QED BY <2>2, <3>2
  <2> HIDE DEF batch
  <2>5. Len(batch) > 0 /\ Cardinality(Sample) <= Len(batch)
    BY <2>2, <2>3, <2>4
  <2> QED BY <1>1, <1>2, <2>1, <2>5
<1>4. CASE Collate
  <2>1. PICK name \in {"sft", "dpo", "rm"}, size \in 1..SyncBatch :
            \E batch \in [1..size -> DatasetLengths] :
                Hand(name, PadLastBatch(batch, RowsPerMicroBatch(name) * Shards), size)
    BY <1>4 DEF Collate
  <2>2. PICK batch \in [1..size -> DatasetLengths] :
            Hand(name, PadLastBatch(batch, RowsPerMicroBatch(name) * Shards), size)
    BY <2>1
  <2> DEFINE multiple == RowsPerMicroBatch(name) * Shards
  <2>3. multiple \in Nat \ {0} /\ size \in Nat \ {0}
    <3>1. RowsPerMicroBatch(name) \in Nat \ {0} /\ Shards \in Nat \ {0}
      <4>1. MicroBatchSize \in Nat \ {0} /\ Shards \in Nat \ {0}
        BY PolicyConstants
      <4> QED BY <4>1 DEF RowsPerMicroBatch
    <3> QED BY <3>1
  <2>4. Hand(name, PadLastBatch(batch, multiple), size)
    BY <2>2
  <2> HIDE DEF multiple
  <2>5. /\ PadLastBatch(batch, multiple) \in Seq(1..MaxSeqLen)
        /\ size \in 0..Len(PadLastBatch(batch, multiple))
    BY <2>3, Padded
  <2>6. Len(PadLastBatch(batch, multiple)) > 0 /\ size <= Len(PadLastBatch(batch, multiple))
    BY <2>3, <2>5
  <2> QED BY <1>1, <1>2, <2>4, <2>6
<1> QED BY <1>3, <1>4

\* Every step keeps HandedInv.
LEMMA HandedStep == PolicyTypes /\ HandedInv /\ [Next]_vars => HandedInv'
<1> SUFFICES ASSUME PolicyTypes, HandedInv, [Next]_vars PROVE HandedInv'
  OBVIOUS
<1>1. CASE UNCHANGED policyVars /\ (rollout' = "handed" <=> rollout = "handed")
  BY <1>1 DEF HandedInv, policyVars
<1>2. CASE rollout # "handed" /\ (Flatten \/ Collate)
  BY <1>2, HandIs DEF HandedInv
<1>3. CASE UNCHANGED rolloutVars /\ rollout = "handed" /\ PolicyNext
  <2>1. UNCHANGED lengths
    BY <1>3 DEF PolicyNext, TurnTo, Start, PolicyStep, ForwardPass, DTensorTrain, DTensorLogprobs,
            DTensorTopk, AutomodelTrain, AutomodelLogprobs, AutomodelTopk, MegatronTrain,
            MegatronLogprobs, MegatronTopk, InferencePass, TrainPass, Pass,
            FinishShard, EndGlobalBatch, Return
  <2> QED BY <1>3, <2>1 DEF HandedInv, rolloutVars
<1> QED BY <1>1, <1>2, <1>3, StepIs

\* A worker group that is called leaves the rows and what it is called for alone.
AtWork == UNCHANGED <<algorithm, policy, lengths, valid, evalMode, call, plan, todo>>

\* All of its steps but the last are such.
LEMMA WorkIs ==
    ASSUME PolicyTypes, PolicyStep, ~Return PROVE AtWork /\ call \in Calls /\ UNCHANGED outputs
<1>1. CASE ForwardPass
  <2>1. PICK group \in SUBSET Shard : Infers(group) \/ Trains(group)
    BY <1>1, PassIs
  <2>2. Advances(group) /\ call \in Calls
    BY <2>1 DEF Infers, Trains, Calls
  <2> QED BY <2>2 DEF Advances, AtWork
<1>2. CASE EndGlobalBatch
  BY <1>2 DEF EndGlobalBatch, AtWork, Calls
<1>3. ASSUME NEW s \in Shard, FinishShard(s) PROVE AtWork /\ call \in Calls /\ UNCHANGED outputs
  BY <1>3 DEF FinishShard, AtWork, PolicyTypes
<1> QED BY <1>1, <1>2, <1>3 DEF PolicyStep

\* Rows that are handed over in a configuration can be called.
LEMMA Handed ==
    ASSUME PolicyTypes, HandedInv, rollout = "handed", policy # NoConfiguration
    PROVE  Callable(MaxSeqLen)
<1>1. MaxSeqLen \in Nat
  BY RolloutConstants
<1> QED BY <1>1 DEF Callable, PolicyTypes, HandedInv

\* Every step keeps to the plan.
LEMMA PlanStep == PolicyTypes /\ HandedInv /\ PlanInv /\ [Next]_vars => PlanInv'
<1> SUFFICES ASSUME PolicyTypes, HandedInv, PlanInv, [Next]_vars PROVE PlanInv'
  OBVIOUS
<1>0. "none" \notin Calls /\ "error" \notin Calls
  BY DEF Calls, LogprobCalls
<1>1. ASSUME UNCHANGED <<algorithm, policy, lengths, call, plan>> PROVE PlanInv'
  <2>1. UNCHANGED <<algorithm, policy, lengths>>
    BY <1>1
  <2>2. /\ BatchSizes(call)' = BatchSizes(call)
        /\ \A size : Orders(size)' = Orders(size)
        /\ \A size, tokens, order : Refused(size, tokens, order)' <=> Refused(size, tokens, order)
        /\ \A size, tokens, order : Plan(size, tokens, order)' = Plan(size, tokens, order)
        /\ Callable(MaxSeqLen)' <=> Callable(MaxSeqLen)
    <3>1. /\ \A name : BatchSizes(name)' = BatchSizes(name)
          /\ \A size : Orders(size)' = Orders(size)
          /\ \A size, tokens, order : Refused(size, tokens, order)' <=> Refused(size, tokens, order)
          /\ \A size, tokens, order : Plan(size, tokens, order)' = Plan(size, tokens, order)
          /\ \A n : Callable(n)' <=> Callable(n)
      BY <2>1, SameRows
    <3> QED BY <1>1, <3>1 DEF BatchSizes, TrainBatchSizes
  <2>3. \A size, order : PlannedAs(size, order)' <=> PlannedAs(size, order)
    BY <1>1, <2>2 DEF PlannedAs, Tokens
  <2> QED BY <1>1, <2>2, <2>3 DEF PlanInv
<1>2. CASE UNCHANGED policyVars
  BY <1>1, <1>2 DEF policyVars
<1>3. CASE rollout # "handed" /\ (Flatten \/ Collate)
  BY <1>0, <1>3, HandIs DEF PlanInv
<1>4. CASE UNCHANGED rolloutVars /\ rollout = "handed" /\ PolicyNext
  <2>1. CASE TurnTo
    BY <1>0, <2>1 DEF TurnTo, PlanInv
  <2>2. CASE Start
    <3>1. Callable(MaxSeqLen)
      BY <1>4, <2>2, Handed DEF Start
    <3>2. UNCHANGED <<algorithm, policy, lengths>>
      BY <2>2 DEF Start
    <3>3. Callable(MaxSeqLen)'
      BY <3>1, <3>2, SameRows
    <3>4. PICK size \in BatchSizes(Head(todo)) : \E order \in Orders(size) :
              IF Refused(size, Tokens(Head(todo)), order)
              THEN call' = "error" /\ plan' = << >>
              ELSE /\ call' = Head(todo) /\ plan' = Plan(size, Tokens(Head(todo)), order)
      BY <2>2 DEF Start
    <3>5. PICK order \in Orders(size) :
              IF Refused(size, Tokens(Head(todo)), order)
              THEN call' = "error" /\ plan' = << >>
              ELSE /\ call' = Head(todo) /\ plan' = Plan(size, Tokens(Head(todo)), order)
      BY <3>4
    <3>6. CASE Refused(size, Tokens(Head(todo)), order)
      BY <1>0, <3>5, <3>6 DEF PlanInv
    <3>7. CASE ~Refused(size, Tokens(Head(todo)), order)
      <4>1. call' = Head(todo) /\ plan' = Plan(size, Tokens(Head(todo)), order)
        BY <3>5, <3>7
      <4>2. Head(todo) \in Calls
        BY <2>2 DEF Start, PolicyTypes
      <4>3. PICK t : t = Tokens(Head(todo))
        OBVIOUS
      <4>4. Tokens(call)' = t
        BY <4>1, <4>3 DEF Tokens
      <4>5. size \in BatchSizes(call)'
        <5>1. BatchSizes(call)' = BatchSizes(Head(todo))
          BY <3>2, <4>1 DEF BatchSizes, TrainBatchSizes
        <5> QED BY <5>1
      <4>6. order \in Orders(size)' /\ ~Refused(size, t, order)' /\ plan' = Plan(size, t, order)'
        BY <3>2, <3>5, <3>7, <4>1, <4>3, SameRows
      <4>7. PlannedAs(size, order)'
        BY <4>4, <4>5, <4>6 DEF PlannedAs
      <4>8. \E s \in BatchSizes(call)' : \E o \in Orders(s)' : PlannedAs(s, o)'
        BY <4>5, <4>6, <4>7
      <4> QED BY <3>3, <4>1, <4>2, <4>8 DEF PlanInv
    <3> QED BY <3>6, <3>7
  <2>3. CASE PolicyStep /\ ~Return
    BY <1>1, <2>3, WorkIs DEF AtWork
  <2>4. CASE Return
    BY <1>0, <2>4 DEF Return, PlanInv
  <2> QED BY <1>4, <2>1, <2>2, <2>3, <2>4 DEF PolicyNext
<1> QED BY <1>2, <1>3, <1>4, StepIs

\* A plan is always divided.
DividedInv == call \in Calls => \E size \in BatchSizes(call) : Divided(size)

\* So it follows from how plans are made.
LEMMA PlansDivide == PlanInv => DividedInv
BY PlanDivides DEF DividedInv

\* And so after every step.
LEMMA PlansDivideNext == PlanInv' => DividedInv'
BY PlansDivide, PTL

\* The microbatches of the shards in the global batch under way.
Work(s) == /\ Mine(s) \in Seq(Seq(Row)) /\ Passes(s) = Len(Mine(s)) /\ Len(plan[s]) = Len(plan[1])
           /\ Len(plan[1]) \in Nat \ {0}

\* A divided plan has them for each shard.
LEMMA WorkOf ==
    DividedInv /\ call \in Calls /\ globalBatch \in 1..Len(plan[1]) => \A s \in Shard : Work(s)
<1> SUFFICES ASSUME DividedInv, call \in Calls, globalBatch \in 1..Len(plan[1]), NEW s \in Shard
             PROVE  Work(s)
  OBVIOUS
<1>1. PICK size \in BatchSizes(call) : Divided(size)
  BY DEF DividedInv
<1>2. 1 \in Shard
  BY PolicyConstants DEF Shard
<1> DEFINE N == NumChunks(size)
<1>3. \A t \in Shard : Len(plan[t]) = N
  BY <1>1 DEF Divided
<1>4. globalBatch \in 1..N /\ N \in Nat \ {0} /\ size \in Nat \ {0}
  BY <1>1, <1>2, <1>3 DEF Divided
<1>5. Cuts(CutAt(globalBatch), Rows((globalBatch - 1) * size, size))
  BY <1>1, <1>4 DEF Divided
<1>6. Rows((globalBatch - 1) * size, size) \subseteq Row
  <2>1. Len(lengths) = size * N /\ Len(lengths) \in Nat
    BY <1>1, <1>4 DEF Divided
  <2>2. (globalBatch - 1) * size \in Nat /\ (globalBatch - 1) * size + size <= Len(lengths)
    BY <1>4, <2>1, ChunkOfRows
  <2> DEFINE x == (globalBatch - 1) * size
  <2> HIDE DEF x
  <2> QED BY <1>4, <2>1, <2>2 DEF Rows, Row, x
<1>7. Mine(s) \in Seq(Seq(Row))
  <2>1. CutAt(globalBatch)[s] \in Seq(Seq(Rows((globalBatch - 1) * size, size)))
    BY <1>5 DEF Cuts
  <2>2. Mine(s) = CutAt(globalBatch)[s]
    BY DEF Mine, CutAt
  <2> DEFINE R == Rows((globalBatch - 1) * size, size)
  <2> HIDE DEF R
  <2>3. Seq(Seq(R)) \subseteq Seq(Seq(Row))
    <3>1. Seq(R) \subseteq Seq(Row)
      BY <1>6 DEF R
    <3> QED BY <3>1
  <2> QED BY <2>1, <2>2, <2>3 DEF R
<1>8. Passes(s) = Len(Mine(s))
  BY <1>1, <1>4, PassesAre
<1> QED BY <1>2, <1>3, <1>4, <1>7, <1>8 DEF Work

\* And so after every step.
LEMMA WorkOfNext ==
    DividedInv' /\ (call \in Calls)' /\ (globalBatch \in 1..Len(plan[1]))' => (\A s \in Shard : Work(s))'
BY WorkOf, PTL

\* Shards are within the microbatches of a global batch, those that have returned at their end.
ProgressInv ==
    call \in Calls =>
        /\ globalBatch \in 1..Len(plan[1])
        /\ DOMAIN microBatch = Shard /\ finished \subseteq Shard
        /\ \A s \in Shard : microBatch[s] \in 0..Len(Mine(s))
        /\ \A s \in finished : microBatch[s] = Len(Mine(s)) /\ globalBatch = Len(plan[1])

\* Every step keeps the progress.
LEMMA ProgressStep ==
    PolicyTypes /\ WeightsInv /\ PlanInv /\ PlanInv' /\ ProgressInv /\ [Next]_vars => ProgressInv'
<1> SUFFICES ASSUME PolicyTypes, WeightsInv, PlanInv, PlanInv', ProgressInv, [Next]_vars PROVE ProgressInv'
  OBVIOUS
<1>0. "none" \notin Calls /\ "error" \notin Calls
  BY DEF Calls, LogprobCalls
<1>d. DividedInv /\ DividedInv'
  BY PlansDivide, PlansDivideNext
<1>1. CASE UNCHANGED policyVars
  BY <1>1 DEF policyVars, ProgressInv, Mine
<1>2. CASE rollout # "handed" /\ (Flatten \/ Collate)
  BY <1>0, <1>2, HandIs DEF ProgressInv
<1>w. call \in Calls => \A s \in Shard : Mine(s) \in Seq(Seq(Row)) /\ Passes(s) = Len(Mine(s))
  BY <1>d, WorkOf DEF ProgressInv, Work
<1>3. CASE UNCHANGED rolloutVars /\ rollout = "handed" /\ PolicyNext
  <2>1. CASE TurnTo
    BY <1>0, <2>1 DEF TurnTo, ProgressInv
  <2>2. CASE Start
    <3>1. /\ microBatch' = [s \in Shard |-> 0] /\ finished' = {}
          /\ call' # "error" => globalBatch' = 1
      <4>1. PICK size \in BatchSizes(Head(todo)) : \E order \in Orders(size) :
                IF Refused(size, Tokens(Head(todo)), order)
                THEN call' = "error" ELSE globalBatch' = 1
        BY <2>2 DEF Start
      <4> QED BY <2>2, <4>1 DEF Start
    <3>2. SUFFICES ASSUME call' \in Calls PROVE ProgressInv'
      BY DEF ProgressInv
    <3>3. globalBatch' = 1
      BY <1>0, <3>1, <3>2
    <3>4. PICK size : Divided(size)'
      BY <1>d, <3>2 DEF DividedInv
    <3>5. 1 \in Shard /\ Shard' = Shard
      BY PolicyConstants DEF Shard
    <3>6. Len(plan[1])' \in Nat \ {0}
      BY <3>4, <3>5 DEF Divided
    <3>7. globalBatch' \in 1..Len(plan'[1])
      BY <3>3, <3>6
    <3>8. (\A s \in Shard : Work(s))'
      <4>1. (call \in Calls)' /\ (globalBatch \in 1..Len(plan[1]))'
        BY <3>2, <3>7
      <4> QED BY <1>d, <4>1, WorkOfNext
    <3>9. \A s \in Shard : Len(Mine(s)') \in Nat
      BY <3>8 DEF Work
    <3> QED BY <3>1, <3>7, <3>9 DEF ProgressInv
  <2>3. CASE ForwardPass
    <3>1. PICK group \in SUBSET Shard : Infers(group) \/ Trains(group)
      BY <2>3, PassIs
    <3>2. Advances(group) /\ call \in Calls
      BY <3>1 DEF Infers, Trains, Calls
    <3>3. UNCHANGED <<call, plan, globalBatch, finished>>
      BY <3>2 DEF Advances
    <3>4. \A s \in Shard : Mine(s)' = Mine(s)
      BY <3>3 DEF Mine
    <3>5. ASSUME NEW s \in Shard PROVE microBatch'[s] \in 0..Len(Mine(s))
      <4>1. microBatch'[s] = IF s \in group THEN microBatch[s] + 1 ELSE microBatch[s]
        BY <3>2 DEF Advances
      <4>2. microBatch[s] \in 0..Len(Mine(s)) /\ Len(Mine(s)) \in Nat
        BY <1>w, <3>2 DEF ProgressInv
      <4>3. s \in group => microBatch[s] < Len(Mine(s))
        BY <1>w, <3>2 DEF Advances
      <4> QED BY <4>1, <4>2, <4>3
    <3>6. ASSUME NEW s \in finished PROVE microBatch'[s] = microBatch[s]
      BY <3>2 DEF Advances, WeightsInv
    <3>7. DOMAIN microBatch' = Shard
      BY <3>2 DEF Advances
    <3> QED BY <3>2, <3>3, <3>4, <3>5, <3>6, <3>7 DEF ProgressInv
  <2>4. ASSUME NEW s \in Shard, FinishShard(s) PROVE ProgressInv'
    <3>1. /\ UNCHANGED <<call, plan, globalBatch, microBatch>> /\ finished' = finished \cup {s}
          /\ microBatch[s] = Passes(s)
      BY <2>4 DEF FinishShard
    <3>2. CASE call \in Calls
      <4>0. \A t \in Shard : Mine(t)' = Mine(t)
        BY <3>1 DEF Mine
      <4>1. microBatch[s] = Len(Mine(s))
        BY <1>w, <3>1, <3>2
      <4>2. globalBatch = Len(plan[1])
        <5>1. PICK size \in BatchSizes(call) : Divided(size)
          BY <1>d, <3>2 DEF DividedInv
        <5>2. call # "train"
          BY <2>4 DEF FinishShard
        <5>3. size = Len(lengths)
          BY <5>2 DEF BatchSizes
        <5>4. Len(lengths) = size * NumChunks(size) /\ size \in Nat \ {0} /\ NumChunks(size) \in Nat \ {0}
          BY <5>1 DEF Divided
        <5>5. NumChunks(size) = 1
          <6> DEFINE N == NumChunks(size)
          <6>1. size * N = size * 1 /\ N \in Nat
            BY <5>3, <5>4
          <6> HIDE DEF N
          <6>2. N = 1
            BY <5>4, <6>1
          <6> QED BY <6>2 DEF N
        <5>6. 1 \in Shard
          BY PolicyConstants DEF Shard
        <5>7. Len(plan[1]) = 1
          BY <5>1, <5>5, <5>6 DEF Divided
        <5> QED BY <3>2, <5>7 DEF ProgressInv
      <4> QED BY <3>1, <3>2, <4>0, <4>1, <4>2 DEF ProgressInv
    <3> QED BY <3>1, <3>2 DEF ProgressInv
  <2>5. CASE EndGlobalBatch
    <3>1. /\ call = "train" /\ \A s \in Shard : microBatch[s] = Passes(s)
          /\ UNCHANGED <<call, plan>>
      BY <2>5 DEF EndGlobalBatch
    <3>2. call \in Calls
      BY <3>1 DEF Calls
    <3>3. \A s \in Shard : microBatch[s] = Len(Mine(s))
      BY <1>w, <3>1, <3>2
    <3>4. globalBatch \in 1..Len(plan[1]) /\ Len(plan[1]) \in Nat
      <4>1. PICK size \in BatchSizes(call) : Divided(size)
        BY <1>d, <3>2 DEF DividedInv
      <4>2. 1 \in Shard
        BY PolicyConstants DEF Shard
      <4> QED BY <3>2, <4>1, <4>2 DEF ProgressInv, Divided
    <3>5. CASE globalBatch < Len(plan[1])
      <4>1. globalBatch' = globalBatch + 1 /\ microBatch' = [s \in Shard |-> 0] /\ finished' = finished
        BY <2>5, <3>5 DEF EndGlobalBatch
      <4>2. finished = {}
        BY <2>5 DEF EndGlobalBatch, WeightsInv
      <4>3. globalBatch' \in 1..Len(plan'[1])
        BY <3>1, <3>4, <3>5, <4>1
      <4>4. (\A s \in Shard : Work(s))'
        <5>1. (call \in Calls)' /\ (globalBatch \in 1..Len(plan[1]))'
          BY <3>1, <3>2, <4>3
        <5> QED BY <1>d, <5>1, WorkOfNext
      <4>5. \A s \in Shard : Len(Mine(s)') \in Nat
        BY <4>4 DEF Work, Shard
      <4> QED BY <4>1, <4>2, <4>3, <4>5 DEF ProgressInv
    <3>6. CASE ~(globalBatch < Len(plan[1]))
      <4>1. globalBatch' = globalBatch /\ microBatch' = microBatch /\ finished' = Shard
        BY <2>5, <3>6 DEF EndGlobalBatch
      <4>2. globalBatch = Len(plan[1])
        BY <3>4, <3>6
      <4>3. \A s \in Shard : Mine(s)' = Mine(s)
        BY <3>1, <4>1 DEF Mine
      <4> QED BY <3>1, <3>2, <3>3, <4>1, <4>2, <4>3 DEF ProgressInv
    <3> QED BY <3>5, <3>6
  <2>6. CASE Return
    BY <1>0, <2>6 DEF Return, ProgressInv
  <2> QED BY <1>3, <2>1, <2>2, <2>3, <2>4, <2>5, <2>6 DEF PolicyNext, PolicyStep
<1> QED BY <1>1, <1>2, <1>3, StepIs

\* No pieces, nothing.
LEMMA FlattenNone == FlattenSeq(<< >>) = << >>
<1> DEFINE T == {}
           none == << >>
           start == [k \in 0..0 |-> 0]
<1>1. none \in [1..0 -> Seq(T)] /\ 0 \in Nat
  OBVIOUS
<1>2. StartsOf(start, none, 0) /\ start[0] = 0
  BY DEF StartsOf
<1> HIDE DEF T, none, start
<1>3. FlattenSeq(none) \in Seq(T) /\ LaysOut(FlattenSeq(none), none, start, 0)
  BY <1>1, <1>2, Flattened
<1>4. Len(FlattenSeq(none)) = 0
  BY <1>2, <1>3 DEF LaysOut
<1>5. FlattenSeq(none) = << >>
  BY <1>3, <1>4
<1> QED BY <1>5 DEF none

\* Tags of two lists one after the other.
LEMMA TaggedJoined ==
    ASSUME NEW T, NEW a, a \in Seq(T), NEW b, b \in Seq(T), NEW x
    PROVE  Tagged(x, a \o b) = Tagged(x, a) \o Tagged(x, b)
<1> DEFINE U == {x} \X T
           l == Tagged(x, a \o b)
           r == Tagged(x, a) \o Tagged(x, b)
<1>1. /\ a \o b \in Seq(T) /\ Len(a) \in Nat /\ Len(b) \in Nat /\ Len(a \o b) = Len(a) + Len(b)
      /\ \A p \in 1..Len(a) : (a \o b)[p] = a[p]
      /\ \A j \in 1..Len(b) : (a \o b)[Len(a) + j] = b[j]
  BY Joined
<1>2. /\ Tagged(x, a) \in Seq(U) /\ Len(Tagged(x, a)) = Len(a)
      /\ Tagged(x, b) \in Seq(U) /\ Len(Tagged(x, b)) = Len(b)
      /\ l \in Seq(U) /\ Len(l) = Len(a \o b)
  BY <1>1, TaggedSeq
<1>3. \A p \in 1..Len(a) : Tagged(x, a)[p] = <<x, a[p]>>
  BY DEF Tagged
<1>4. \A p \in 1..Len(b) : Tagged(x, b)[p] = <<x, b[p]>>
  BY DEF Tagged
<1>5. \A p \in 1..Len(a \o b) : l[p] = <<x, (a \o b)[p]>>
  BY <1>1 DEF Tagged
<1> HIDE DEF l, U
<1>6. /\ r \in Seq(U) /\ Len(r) = Len(a) + Len(b)
      /\ \A p \in 1..Len(a) : r[p] = Tagged(x, a)[p]
      /\ \A j \in 1..Len(b) : r[Len(a) + j] = Tagged(x, b)[j]
  <2> DEFINE s == Tagged(x, a)
             t == Tagged(x, b)
  <2>1. s \in Seq(U) /\ t \in Seq(U) /\ Len(s) = Len(a) /\ Len(t) = Len(b)
    BY <1>2
  <2> HIDE DEF s, t
  <2>2. /\ s \o t \in Seq(U) /\ Len(s \o t) = Len(s) + Len(t)
        /\ \A p \in 1..Len(s) : (s \o t)[p] = s[p]
        /\ \A j \in 1..Len(t) : (s \o t)[Len(s) + j] = t[j]
    BY <2>1, Joined
  <2> QED BY <2>1, <2>2 DEF s, t
<1> HIDE DEF r
<1>7. ASSUME NEW p \in 1..Len(l) PROVE l[p] = r[p]
  <2>0. p \in 1..Len(a \o b) /\ p \in Nat
    BY <1>1, <1>2
  <2>1. CASE p <= Len(a)
    <3>1. p \in 1..Len(a)
      BY <2>0, <2>1, <1>1
    <3> QED BY <1>1, <1>3, <1>5, <1>6, <2>0, <3>1
  <2>2. CASE p > Len(a)
    <3>1. PICK j \in 1..Len(b) : p = Len(a) + j
      <4>1. p - Len(a) \in 1..Len(b) /\ p = Len(a) + (p - Len(a))
        BY <1>1, <2>0, <2>2
      <4> QED BY <4>1
    <3> QED BY <1>1, <1>4, <1>5, <1>6, <2>0, <3>1
  <2> QED BY <1>1, <2>0, <2>1, <2>2
<1>8. l \in Seq(U) /\ r \in Seq(U) /\ Len(l) = Len(r)
  BY <1>1, <1>2, <1>6
<1>9. l = r
  BY <1>7, <1>8, SameSeq
<1> QED BY <1>9 DEF l, r

\* The microbatches a shard has been through.
FirstOf(s) == [m \in 1..microBatch[s] |-> Mine(s)[m]]

\* Results are those of the microbatches so far, on the last stage, and everywhere on a
\* shard that has returned; they are of the model the call is about.
Has(w) ==
    IF ShardOfWorker(w) \in finished \/ LastStage(w)
    THEN Tagged(Model(call), FlattenSeq(FirstOf(ShardOfWorker(w)))) ELSE << >>

\* What a call without gradients has got at any time.
InferenceInv ==
    call \in Calls \ {"train"} =>
        /\ \A s \in Shard : s \notin finished => weights[s] = Model(call)
        /\ DOMAIN results = CalledWorkers
        /\ \A w \in CalledWorkers : results[w] = Has(w)

\* The workers of a configuration.
LEMMA SameWorkers ==
    ASSUME UNCHANGED policy
    PROVE  /\ CalledWorkers' = CalledWorkers
           /\ \A w : ShardOfWorker(w)' = ShardOfWorker(w) /\ (LastStage(w)' <=> LastStage(w))
           /\ Layout' = Layout
<1>1. Layout' = Layout
  BY DEF Layout
<1> QED BY <1>1 DEF CalledWorkers, ShardOfWorker, LastStage

\* Another pass has the results of another microbatch.
LEMMA MorePasses ==
    ASSUME NEW s \in Shard, Mine(s) \in Seq(Seq(Row)), NEW m, m = microBatch[s], m \in Nat, m < Len(Mine(s)),
           NEW first, first = [k \in 1..(m + 1) |-> Mine(s)[k]], NEW x
    PROVE  Tagged(x, FlattenSeq(first)) = Tagged(x, FlattenSeq(FirstOf(s))) \o Tagged(x, NextRows(s))
<1>1. first \in [1..(m + 1) -> Seq(Row)]
  OBVIOUS
<1>2. FirstOf(s) = [k \in 1..m |-> first[k]] /\ first[m + 1] = NextRows(s)
  BY DEF FirstOf, NextRows
<1>3. FirstOf(s) \in [1..m -> Seq(Row)] /\ NextRows(s) \in Seq(Row)
  <2>1. first[m + 1] \in Seq(Row)
    BY <1>1
  <2> QED BY <1>1, <1>2, <2>1
<1>4. FlattenSeq(first) = FlattenSeq(FirstOf(s)) \o first[m + 1]
  <2> DEFINE old == FirstOf(s)
  <2>1. old = [k \in 1..m |-> first[k]]
    BY <1>2
  <2> HIDE DEF old
  <2>2. FlattenSeq(first) = FlattenSeq(old) \o first[m + 1]
    <3>1. m \in Nat
      OBVIOUS
    <3> QED BY ONLY <1>1, <2>1, <3>1, FlattenMore
  <2> QED BY <2>2 DEF old
<1>5. FlattenSeq(FirstOf(s)) \in Seq(Row)
  <2> DEFINE old == FirstOf(s)
  <2>1. old \in [1..m -> Seq(Row)]
    BY <1>3
  <2> HIDE DEF old
  <2>2. PICK start : StartsOf(start, old, m)
    BY <2>1, StartsAre
  <2>3. FlattenSeq(old) \in Seq(Row)
    BY <2>1, <2>2, Flattened
  <2> QED BY <2>3 DEF old
<1> DEFINE a == FlattenSeq(FirstOf(s))
           b == NextRows(s)
<1>6. a \in Seq(Row) /\ b \in Seq(Row) /\ FlattenSeq(first) = a \o b
  BY <1>2, <1>3, <1>4, <1>5
<1> HIDE DEF a, b
<1>7. Tagged(x, a \o b) = Tagged(x, a) \o Tagged(x, b)
  BY ONLY <1>6, TaggedJoined
<1> QED BY <1>6, <1>7 DEF a, b

\* A call starts with nothing, on the model it is about.
LEMMA InferenceStarts ==
    ASSUME PolicyTypes, WeightsInv, Start PROVE InferenceInv'
<1> SUFFICES ASSUME call' \in Calls \ {"train"} PROVE InferenceInv'
  BY DEF InferenceInv
<1>0. "none" \notin Calls /\ "error" \notin Calls
  BY DEF Calls, LogprobCalls
<1>1. /\ microBatch' = [s \in Shard |-> 0] /\ finished' = {} /\ UNCHANGED policy
      /\ results' = [w \in CalledWorkers |-> << >>] /\ weights' = WeightsFor(call') /\ call = "none"
  <2>1. PICK size \in BatchSizes(Head(todo)) : \E order \in Orders(size) :
            IF Refused(size, Tokens(Head(todo)), order)
            THEN call' = "error" ELSE results' = [w \in CalledWorkers |-> << >>]
    BY DEF Start
  <2> QED BY <1>0, <2>1 DEF Start
<1>2. /\ CalledWorkers' = CalledWorkers
      /\ \A w : ShardOfWorker(w)' = ShardOfWorker(w) /\ (LastStage(w)' <=> LastStage(w))
  BY <1>1, SameWorkers
<1>3. \A s \in Shard : weights'[s] = Model(call)'
  <2>1. \A s \in Shard : weights[s] = "policy"
    BY <1>0, <1>1 DEF WeightsInv
  <2> QED BY <1>1, <2>1 DEF WeightsFor, Model
<1>4. ASSUME NEW w \in CalledWorkers PROVE (results[w] = Has(w))'
  <2>1. ShardOfWorker(w) \in Shard
    <3>1. policy \in Configurations(algorithm)
      BY DEF Start, PolicyTypes
    <3> QED BY <3>1, CalledAre
  <2>2. results'[w] = << >>
    BY <1>1
  <2>3. Tagged(Model(call)', FlattenSeq(FirstOf(ShardOfWorker(w))')) = << >>
    <3>1. FirstOf(ShardOfWorker(w))' = << >>
      <4>1. microBatch'[ShardOfWorker(w)'] = 0
        BY <1>1, <1>2, <2>1
      <4> QED BY <4>1 DEF FirstOf
    <3>2. FlattenSeq(FirstOf(ShardOfWorker(w))') = << >>
      BY <3>1, FlattenNone
    <3> QED BY <3>2 DEF Tagged
  <2> QED BY <2>2, <2>3 DEF Has
<1>5. DOMAIN results' = CalledWorkers'
  BY <1>1, <1>2
<1> QED BY <1>2, <1>3, <1>4, <1>5 DEF InferenceInv, Shard

\* A pass.
LEMMA InferencePasses ==
    ASSUME Callable(MaxSeqLen), DividedInv, ProgressInv, InferenceInv, NEW group \in SUBSET Shard, Infers(group)
    PROVE  InferenceInv'
<1>1. /\ call \in Calls \ {"train"} /\ Advances(group)
      /\ UNCHANGED <<policy, call, plan, globalBatch, finished, weights>>
      /\ microBatch' = [s \in Shard |-> IF s \in group THEN microBatch[s] + 1 ELSE microBatch[s]]
  BY DEF Infers, Advances
<1>2. /\ CalledWorkers' = CalledWorkers
      /\ \A w : ShardOfWorker(w)' = ShardOfWorker(w) /\ (LastStage(w)' <=> LastStage(w))
  BY <1>1, SameWorkers
<1>3. /\ \A s \in Shard : s \notin finished => weights[s] = Model(call)
      /\ DOMAIN results = CalledWorkers /\ \A w \in CalledWorkers : results[w] = Has(w)
  BY <1>1 DEF InferenceInv
<1>4. \A s \in Shard : Mine(s) \in Seq(Seq(Row)) /\ Passes(s) = Len(Mine(s)) /\ microBatch[s] \in 0..Len(Mine(s))
  BY <1>1, WorkOf DEF ProgressInv, Work
<1>5. \A s \in Shard : Mine(s)' = Mine(s)
  BY <1>1 DEF Mine
<1>6. Model(call)' = Model(call) /\ Shard' = Shard
  BY <1>1 DEF Model, Shard
<1>7. ASSUME NEW w \in CalledWorkers PROVE (results[w] = Has(w))'
  <2> DEFINE s == ShardOfWorker(w)
  <2>1. s \in Shard
    BY CalledAre DEF Callable
  <2>2. results'[w] = IF s \in group /\ LastStage(w)
                      THEN results[w] \o Tagged(weights[s], NextRows(s)) ELSE results[w]
    BY <1>3 DEF Infers
  <2>3. results[w] = IF s \in finished \/ LastStage(w)
                     THEN Tagged(Model(call), FlattenSeq(FirstOf(s))) ELSE << >>
    BY <1>3 DEF Has
  <2>4. Has(w)' = IF s \in finished \/ LastStage(w)
                  THEN Tagged(Model(call), FlattenSeq(FirstOf(s)')) ELSE << >>
    <3>1. FirstOf(ShardOfWorker(w))' = FirstOf(s)'
      OBVIOUS
    <3> QED BY <1>1, <1>2, <1>6, <3>1 DEF Has
  <2>5. FirstOf(s)' = [m \in 1..microBatch'[s] |-> Mine(s)[m]]
    <3>1. s' = s
      BY <1>2
    <3> QED BY <1>5, <2>1, <3>1 DEF FirstOf
  <2>6. CASE s \in group
    <3>1. s \notin finished /\ microBatch[s] < Len(Mine(s)) /\ microBatch[s] \in Nat
      BY <1>1, <1>4, <2>1, <2>6 DEF Advances
    <3>2. weights[s] = Model(call)
      BY <1>3, <2>1, <3>1
    <3>3. Tagged(Model(call), FlattenSeq(FirstOf(s)'))
              = Tagged(Model(call), FlattenSeq(FirstOf(s))) \o Tagged(Model(call), NextRows(s))
      <4> DEFINE f == FirstOf(s)'
                 m == microBatch[s]
      <4>1. f = [k \in 1..(m + 1) |-> Mine(s)[k]]
        BY <1>1, <2>1, <2>5, <2>6
      <4>2. m \in Nat /\ m < Len(Mine(s)) /\ Mine(s) \in Seq(Seq(Row)) /\ m = microBatch[s]
        BY <1>4, <2>1, <3>1
      <4> HIDE DEF f, m, s
      <4>3. Tagged(Model(call), FlattenSeq(f))
                = Tagged(Model(call), FlattenSeq(FirstOf(s))) \o Tagged(Model(call), NextRows(s))
        BY <2>1, <4>1, <4>2, MorePasses
      <4> QED BY <4>3 DEF f
    <3> HIDE DEF s
    <3> QED BY <2>2, <2>3, <2>4, <2>6, <3>1, <3>2, <3>3
  <2>7. CASE s \notin group
    <3>1. microBatch'[s] = microBatch[s]
      BY <1>1, <2>1, <2>7
    <3>2. FirstOf(s)' = FirstOf(s)
      BY <2>5, <3>1 DEF FirstOf
    <3> HIDE DEF s
    <3> QED BY <2>2, <2>3, <2>4, <2>7, <3>2
  <2> QED BY <2>6, <2>7
<1>8. DOMAIN results' = CalledWorkers'
  BY <1>2, <1>3 DEF Infers
<1> QED BY <1>1, <1>2, <1>3, <1>6, <1>7, <1>8 DEF InferenceInv

\* What comes from the last stage is of the same shard.
Sources(w) == {v \in DOMAIN results :
    LastStage(v) /\ \A name \in OtherAxes : Coordinate(Layout, v, name) = Coordinate(Layout, w, name)}

\* The worker of the last stage whose results worker w takes.
Source(w) == CHOOSE v \in DOMAIN results :
    LastStage(v) /\ \A name \in OtherAxes : Coordinate(Layout, v, name) = Coordinate(Layout, w, name)

\* Each worker takes the results of one such, and that one is of its shard.
LEMMA FromSource ==
    ASSUME policy \in Configurations(algorithm), DOMAIN results = CalledWorkers, NEW shards
    PROVE  /\ FromLastStage(shards) = [w \in CalledWorkers |->
                  IF ShardOfWorker(w) \in shards THEN results[Source(w)] ELSE results[w]]
           /\ \A w \in CalledWorkers :
                  Source(w) \in CalledWorkers /\ LastStage(Source(w)) /\ ShardOfWorker(Source(w)) = ShardOfWorker(w)
<1>1. FromLastStage(shards) = [w \in CalledWorkers |->
          IF ShardOfWorker(w) \in shards THEN results[Source(w)] ELSE results[w]]
  BY Zenon DEF FromLastStage, Source, OtherAxes
<1>2. ASSUME NEW w \in CalledWorkers
      PROVE  Source(w) \in CalledWorkers /\ LastStage(Source(w)) /\ ShardOfWorker(Source(w)) = ShardOfWorker(w)
  <2>1. PICK v \in DOMAIN results : LastStage(v) /\
            \A name \in OtherAxes : Coordinate(Layout, v, name) = Coordinate(Layout, w, name)
    BY SourceIs
  <2>2. Source(w) \in DOMAIN results /\ LastStage(Source(w)) /\
            \A name \in OtherAxes : Coordinate(Layout, Source(w), name) = Coordinate(Layout, w, name)
    BY <2>1, Zenon DEF Source
  <2>3. "data_parallel" \in OtherAxes
    BY DEF OtherAxes
  <2> QED BY <2>2, <2>3 DEF ShardOfWorker
<1> QED BY <1>1, <1>2

\* A shard returns.
LEMMA InferenceEnds ==
    ASSUME Callable(MaxSeqLen), WeightsInv, InferenceInv, call \in Calls, NEW s \in Shard, FinishShard(s)
    PROVE  InferenceInv'
<1>1. /\ call \in Calls \ {"train"} /\ UNCHANGED <<policy, call, plan, globalBatch, microBatch>>
      /\ results' = FromLastStage({s}) /\ weights' = [weights EXCEPT ![s] = "policy"]
      /\ finished' = finished \cup {s}
  BY DEF FinishShard
<1>2. /\ CalledWorkers' = CalledWorkers
      /\ \A w : ShardOfWorker(w)' = ShardOfWorker(w) /\ (LastStage(w)' <=> LastStage(w))
  BY <1>1, SameWorkers
<1>3. /\ \A t \in Shard : t \notin finished => weights[t] = Model(call)
      /\ DOMAIN results = CalledWorkers /\ \A w \in CalledWorkers : results[w] = Has(w)
  BY <1>1 DEF InferenceInv
<1>4. /\ results' = [w \in CalledWorkers |-> IF ShardOfWorker(w) \in {s} THEN results[Source(w)] ELSE results[w]]
      /\ \A w \in CalledWorkers :
            Source(w) \in CalledWorkers /\ LastStage(Source(w)) /\ ShardOfWorker(Source(w)) = ShardOfWorker(w)
  BY <1>1, <1>3, FromSource DEF Callable
<1>5. \A t : FirstOf(t)' = FirstOf(t)
  BY <1>1 DEF FirstOf, Mine
<1>6. Model(call)' = Model(call) /\ Shard' = Shard
  BY <1>1 DEF Model, Shard
<1>7. ASSUME NEW w \in CalledWorkers PROVE (results[w] = Has(w))'
  <2>1. Has(w)' = IF ShardOfWorker(w) \in finished \cup {s} \/ LastStage(w)
                  THEN Tagged(Model(call), FlattenSeq(FirstOf(ShardOfWorker(w)))) ELSE << >>
    <3>1. FirstOf(ShardOfWorker(w))' = FirstOf(ShardOfWorker(w))
      BY <1>1, <1>2 DEF FirstOf, Mine
    <3> QED BY <1>1, <1>2, <1>6, <3>1 DEF Has
  <2>2. CASE ShardOfWorker(w) = s
    <3>1. results'[w] = results[Source(w)]
      BY <1>4, <2>2
    <3>2. results[Source(w)] = Tagged(Model(call), FlattenSeq(FirstOf(ShardOfWorker(w))))
      BY <1>3, <1>4 DEF Has
    <3> QED BY <2>1, <2>2, <3>1, <3>2
  <2>3. CASE ShardOfWorker(w) # s
    <3>1. results'[w] = results[w]
      BY <1>4, <2>3
    <3> QED BY <1>3, <2>1, <2>3, <3>1 DEF Has
  <2> QED BY <2>2, <2>3
<1>8. DOMAIN results' = CalledWorkers'
  BY <1>2, <1>4
<1>9. \A t \in Shard : t \notin finished' => weights'[t] = Model(call)
  BY <1>1, <1>3 DEF WeightsInv
<1> QED BY <1>1, <1>2, <1>6, <1>7, <1>8, <1>9 DEF InferenceInv

\* Every step keeps the results.
LEMMA InferenceStep ==
    PolicyTypes /\ WeightsInv /\ PlanInv /\ ProgressInv /\ InferenceInv /\ [Next]_vars => InferenceInv'
<1> SUFFICES ASSUME PolicyTypes, WeightsInv, PlanInv, ProgressInv, InferenceInv, [Next]_vars
             PROVE  InferenceInv'
  OBVIOUS
<1>0. "none" \notin Calls /\ "error" \notin Calls
  BY DEF Calls, LogprobCalls
<1>1. CASE UNCHANGED policyVars
  <2>1. UNCHANGED <<policy, call, plan, globalBatch, microBatch, finished, weights, results>>
    BY <1>1 DEF policyVars
  <2>2. /\ CalledWorkers' = CalledWorkers
        /\ \A w : ShardOfWorker(w)' = ShardOfWorker(w) /\ (LastStage(w)' <=> LastStage(w))
    BY <2>1, SameWorkers
  <2>3. \A w : Has(w)' = Has(w)
    <3>1. \A w : FirstOf(ShardOfWorker(w))' = FirstOf(ShardOfWorker(w))
      BY <2>1, <2>2 DEF FirstOf, Mine
    <3> QED BY <2>1, <2>2, <3>1 DEF Has, Model
  <2> QED BY <2>1, <2>2, <2>3 DEF InferenceInv, Model, Shard
<1>2. CASE rollout # "handed" /\ (Flatten \/ Collate)
  BY <1>0, <1>2, HandIs DEF InferenceInv
<1>c. call \in Calls => Callable(MaxSeqLen) /\ DividedInv
  BY PlansDivide DEF PlanInv
<1>3. CASE UNCHANGED rolloutVars /\ rollout = "handed" /\ PolicyNext
  <2>1. CASE TurnTo
    BY <1>0, <2>1 DEF TurnTo, InferenceInv
  <2>2. CASE Start
    BY <2>2, InferenceStarts
  <2>3. CASE ForwardPass
    <3>1. PICK group \in SUBSET Shard : Infers(group) \/ Trains(group)
      BY <2>3, PassIs
    <3>2. CASE Infers(group)
      <4>1. call \in Calls
        BY <3>2 DEF Infers
      <4> QED BY <1>c, <3>2, <4>1, InferencePasses
    <3>3. CASE Trains(group)
      BY <3>3 DEF Trains, Advances, InferenceInv
    <3> QED BY <3>1, <3>2, <3>3
  <2>4. ASSUME NEW s \in Shard, FinishShard(s) PROVE InferenceInv'
    <3>1. call \in Calls
      BY <2>4 DEF FinishShard, PolicyTypes
    <3> QED BY <1>c, <2>4, <3>1, InferenceEnds
  <2>5. CASE EndGlobalBatch
    BY <2>5 DEF EndGlobalBatch, InferenceInv
  <2>6. CASE Return
    BY <1>0, <2>6 DEF Return, InferenceInv
  <2> QED BY <1>3, <2>1, <2>2, <2>3, <2>4, <2>5, <2>6 DEF PolicyNext, PolicyStep
<1> QED BY <1>1, <1>2, <1>3, StepIs

\* The rows of a call in the order in which the shards have them.
RowPlaces == FlattenSeq([s \in Shard |-> FlattenSeq(plan[s][1])])

\* What a call without gradients has collected: the results for the rows, shard by shard.
LEMMA CollectedIs ==
    ASSUME Callable(MaxSeqLen), DividedInv, ProgressInv, InferenceInv,
           call \in Calls \ {"train"}, finished = Shard
    PROVE  /\ Gathered(Layout, ReturningWorkers, results) = Tagged(Model(call), RowPlaces)
           /\ RowPlaces \in Seq(Row) /\ \A i \in Row : \E p \in 1..Len(RowPlaces) : RowPlaces[p] = i
           /\ policy.batching = "fixed" => RowPlaces = [i \in Row |-> i]
<1> DEFINE x == Model(call)
           T == {x} \X Row
           parts == [s \in Shard |-> FlattenSeq(plan[s][1])]
           pieces == [s \in Shard |-> results[Head0(s)]]
<1>1. PICK size \in BatchSizes(call) : Divided(size)
  BY DEF DividedInv
<1>2. size = Len(lengths) /\ NumChunks(size) = 1 /\ size \in Nat \ {0}
  <2>1. size = Len(lengths)
    BY DEF BatchSizes
  <2>2. Len(lengths) = size * NumChunks(size) /\ size \in Nat \ {0} /\ NumChunks(size) \in Nat \ {0}
    BY <1>1 DEF Divided
  <2> DEFINE N == NumChunks(size)
  <2>3. size * N = size * 1 /\ N \in Nat
    BY <2>1, <2>2
  <2> HIDE DEF N
  <2>4. N = 1
    BY <2>2, <2>3
  <2> QED BY <2>1, <2>2, <2>4 DEF N
<1>3. 1 \in Shard /\ Shard = 1..Shards /\ Shards \in Nat
  BY PolicyConstants DEF Shard
<1>4. Len(plan[1]) = 1 /\ globalBatch = 1
  BY <1>1, <1>2, <1>3 DEF Divided, ProgressInv
<1>5. /\ Cuts(CutAt(1), Rows((1 - 1) * size, size))
      /\ policy.batching = "fixed" => Successive(CutAt(1), size, (1 - 1) * size)
  BY <1>1, <1>2 DEF Divided
<1>6. (1 - 1) * size = 0 /\ Rows(0, size) = Row
  BY <1>2 DEF Rows, Row, Callable
<1>7. Cuts(CutAt(1), Row) /\ (policy.batching = "fixed" => Successive(CutAt(1), size, 0))
  BY <1>5, <1>6
<1>8. \A s \in Shard : CutAt(1)[s] = plan[s][1] /\ Mine(s) = plan[s][1]
  BY <1>4 DEF CutAt, Mine
<1>9. \A s \in Shard : plan[s][1] \in Seq(Seq(Row))
  BY <1>7, <1>8 DEF Cuts
<1>10. \A s \in Shard : FirstOf(s) = plan[s][1]
  BY <1>8, <1>9 DEF FirstOf, ProgressInv
<1>11. parts \in [Shard -> Seq(Row)] /\ RowPlaces = FlattenSeq(parts)
  <2>1. ASSUME NEW s \in Shard PROVE FlattenSeq(plan[s][1]) \in Seq(Row)
    <3> DEFINE l == plan[s][1]
               n == Len(l)
    <3>1. l \in [1..n -> Seq(Row)] /\ n \in Nat
      BY <1>9
    <3> HIDE DEF l, n
    <3>2. PICK start : StartsOf(start, l, n)
      BY <3>1, StartsAre
    <3>3. FlattenSeq(l) \in Seq(Row)
      BY <3>1, <3>2, Flattened
    <3> QED BY <3>3 DEF l
  <2> QED BY <2>1 DEF RowPlaces
<1>12. pieces = [s \in Shard |-> Tagged(x, parts[s])]
  <2>1. ASSUME NEW s \in Shard PROVE results[Head0(s)] = Tagged(x, parts[s])
    <3>1. Head0(s) \in CalledWorkers /\ ShardOfWorker(Head0(s)) = s
      BY ReturningAre DEF Callable
    <3>2. results[Head0(s)] = Has(Head0(s))
      BY <3>1 DEF InferenceInv
    <3>3. Has(Head0(s)) = Tagged(x, FlattenSeq(FirstOf(s)))
      BY <3>1 DEF Has
    <3> QED BY <1>10, <3>2, <3>3
  <2> QED BY <2>1
<1> HIDE DEF parts
<1>13. /\ FlattenSeq(pieces) = Tagged(x, FlattenSeq(parts)) /\ FlattenSeq(parts) \in Seq(Row)
  <2> HIDE DEF pieces, x
  <2> DEFINE S == Row
             n == Shards
  <2>1. n \in Nat /\ parts \in [1..n -> Seq(S)]
    BY <1>3, <1>11
  <2>2. pieces = TaggedPieces(x, parts)
    BY <1>11, <1>12 DEF TaggedPieces
  <2> HIDE DEF n, S
  <2>3. /\ FlattenSeq(pieces) = Tagged(x, FlattenSeq(parts)) /\ FlattenSeq(parts) \in Seq(S)
    BY <2>1, <2>2, FlattenTagged
  <2> QED BY <2>3 DEF S
<1>14. pieces \in [Shard -> Seq(T)]
  <2>1. ASSUME NEW s \in Shard PROVE Tagged(x, parts[s]) \in Seq(T)
    BY <1>11, TaggedSeq
  <2> HIDE DEF x, T
  <2> QED BY <1>12, <2>1
<1>15. Gathered(Layout, ReturningWorkers, results) = FlattenSeq(pieces)
  <2>1. policy \in Configurations(algorithm) /\ pieces = [s \in Shard |-> results[Head0(s)]]
    BY DEF Callable
  <2> HIDE DEF pieces, T
  <2> QED BY <1>14, <2>1, GatheredShards
<1>16. ASSUME NEW i \in Row PROVE \E p \in 1..Len(RowPlaces) : RowPlaces[p] = i
  <2>0. PICK s \in Shard : \E m \in 1..Len(plan[s][1]) : \E k \in 1..Len(plan[s][1][m]) :
            plan[s][1][m][k] = i
    <3>1. PICK s \in Shard : \E m \in 1..Len(CutAt(1)[s]) : \E k \in 1..Len(CutAt(1)[s][m]) :
              CutAt(1)[s][m][k] = i
      BY <1>7 DEF Cuts
    <3>2. CutAt(1)[s] = plan[s][1]
      BY <1>8
    <3> QED BY <3>1, <3>2
  <2>1. PICK m \in 1..Len(plan[s][1]) : \E k \in 1..Len(plan[s][1][m]) : plan[s][1][m][k] = i
    BY <2>0
  <2>k. PICK k \in 1..Len(plan[s][1][m]) : plan[s][1][m][k] = i
    BY <2>1
  <2>2. PICK j \in 1..Len(parts[s]) : parts[s][j] = i
    <3> DEFINE l == plan[s][1]
               n == Len(l)
    <3>1. l \in [1..n -> Seq(Row)] /\ n \in Nat
      BY <1>9
    <3>2. m \in 1..n /\ k \in 1..Len(l[m]) /\ l[m][k] = i /\ parts[s] = FlattenSeq(l)
      BY <2>k DEF parts
    <3> HIDE DEF l, n
    <3>3. PICK start : StartsOf(start, l, n)
      BY <3>1, StartsAre
    <3>4. LaysOut(FlattenSeq(l), l, start, n)
      BY <3>1, <3>3, Flattened
    <3>5. start[m - 1] + k \in 1..start[n] /\ FlattenSeq(l)[start[m - 1] + k] = i
          /\ Len(FlattenSeq(l)) = start[n]
      BY <3>2, <3>4 DEF LaysOut
    <3> QED BY <3>2, <3>5
  <2>3. PICK start : StartsOf(start, parts, Shards)
    BY <1>3, <1>11, StartsAre
  <2>4. LaysOut(FlattenSeq(parts), parts, start, Shards)
    BY <1>3, <1>11, <2>3, Flattened
  <2>5. /\ start[s - 1] + j \in 1..start[Shards] /\ FlattenSeq(parts)[start[s - 1] + j] = i
        /\ Len(FlattenSeq(parts)) = start[Shards]
    BY <1>3, <2>2, <2>4 DEF LaysOut
  <2> QED BY <1>11, <2>5
<1>17. policy.batching = "fixed" => RowPlaces = [i \in Row |-> i]
  <2>1. SUFFICES ASSUME policy.batching = "fixed" PROVE RowPlaces = [i \in Row |-> i]
    OBVIOUS
  <2>2. FlattenSeq([s \in Shard |-> FlattenSeq(CutAt(1)[s])]) = [k \in 1..size |-> 0 + k]
    BY <1>7, <2>1 DEF Successive
  <2>3. [s \in Shard |-> FlattenSeq(CutAt(1)[s])] = parts
    BY <1>8 DEF parts
  <2>4. [k \in 1..size |-> 0 + k] = [i \in Row |-> i]
    BY <1>2 DEF Row, Callable
  <2> QED BY <1>11, <2>2, <2>3, <2>4
<1> QED BY <1>11, <1>13, <1>15, <1>16, <1>17

\* Put in order, every row has its own.
LEMMA ReorderedIs ==
    ASSUME NEW collected, NEW x, collected = Tagged(x, RowPlaces), RowPlaces \in Seq(Row),
           \A i \in Row : \E p \in 1..Len(RowPlaces) : RowPlaces[p] = i,
           policy.batching = "fixed" => RowPlaces = [i \in Row |-> i]
    PROVE  Reordered(collected) = [i \in Row |-> <<x, i>>]
<1> DEFINE At(i) == SelectInSeq(RowPlaces, LAMBDA j : j = i)
<1>1. Reordered(collected) = IF policy.batching = "fixed" THEN collected ELSE [i \in Row |-> collected[At(i)]]
  BY Zenon DEF Reordered, RowPlaces
<1>2. CASE policy.batching = "fixed"
  BY <1>1, <1>2 DEF Tagged
<1>3. ASSUME NEW i \in Row PROVE At(i) \in 1..Len(RowPlaces) /\ RowPlaces[At(i)] = i
  <2> DEFINE at == {k \in 1..Len(RowPlaces) : RowPlaces[k] = i}
  <2>1. At(i) = IF at # {} THEN Min(at) ELSE 0
    BY Zenon DEF SelectInSeq
  <2>2. at \in SUBSET Nat /\ at # {}
    OBVIOUS
  <2>3. \A k \in at : k \in 1..Len(RowPlaces) /\ RowPlaces[k] = i
    OBVIOUS
  <2> HIDE DEF at, At
  <2>4. Min(at) \in at
    BY <2>2, Smallest DEF Min
  <2> QED BY <2>1, <2>2, <2>3, <2>4
<1> HIDE DEF At
<1>4. CASE policy.batching # "fixed"
  <2>1. ASSUME NEW i \in Row PROVE collected[At(i)] = <<x, i>>
    <3>0. DOMAIN RowPlaces = 1..Len(RowPlaces)
      OBVIOUS
    <3>1. At(i) \in DOMAIN RowPlaces /\ RowPlaces[At(i)] = i
      BY <1>3, <3>0, Zenon
    <3> QED BY <3>1 DEF Tagged
  <2> QED BY <1>1, <1>4, <2>1
<1> QED BY <1>2, <1>4

\* Every step keeps what calls return.
LEMMA OutputsStep ==
    PolicyTypes /\ HandedInv /\ PlanInv /\ ProgressInv /\ InferenceInv /\ OwnOutputs /\ [Next]_vars => OwnOutputs'
<1> SUFFICES ASSUME PolicyTypes, HandedInv, PlanInv, ProgressInv, InferenceInv, OwnOutputs, [Next]_vars
             PROVE  OwnOutputs'
  OBVIOUS
<1>1. ASSUME UNCHANGED <<lengths, outputs>> PROVE OwnOutputs'
  BY <1>1 DEF OwnOutputs, Row
<1>2. CASE UNCHANGED policyVars
  BY <1>1, <1>2 DEF policyVars
<1>3. CASE rollout # "handed" /\ (Flatten \/ Collate)
  <2>1. outputs' = << >>
    BY <1>3, HandIs DEF HandedInv
  <2> QED BY <2>1 DEF OwnOutputs
<1>4. CASE UNCHANGED rolloutVars /\ rollout = "handed" /\ PolicyNext
  <2>1. CASE TurnTo \/ Start
    BY <1>1, <2>1 DEF TurnTo, Start
  <2>2. CASE PolicyStep /\ ~Return
    BY <1>1, <2>2, WorkIs DEF AtWork
  <2>3. CASE Return
    <3> DEFINE collected == Gathered(Layout, ReturningWorkers, results)
    <3>1. /\ outputs' = [name \in DOMAIN outputs \cup {call} |->
                IF name # call THEN outputs[name]
                ELSE IF call = "train" THEN collected ELSE Reordered(collected)]
          /\ UNCHANGED lengths /\ call \in Calls /\ finished = Shard
      BY <2>3 DEF Return, PolicyTypes
    <3>2. ASSUME call # "train" PROVE Reordered(collected) = [i \in Row |-> <<Model(call), i>>]
      <4>1. Callable(MaxSeqLen) /\ DividedInv
        BY <3>1, PlansDivide DEF PlanInv
      <4>2. /\ collected = Tagged(Model(call), RowPlaces)
            /\ RowPlaces \in Seq(Row) /\ \A i \in Row : \E p \in 1..Len(RowPlaces) : RowPlaces[p] = i
            /\ policy.batching = "fixed" => RowPlaces = [i \in Row |-> i]
        BY <3>1, <3>2, <4>1, CollectedIs
      <4> HIDE DEF collected
      <4> QED BY <4>2, ReorderedIs
    <3> HIDE DEF collected
    <3>3. ASSUME NEW name \in DOMAIN outputs' \ {"train"}
          PROVE  outputs'[name] = [i \in Row |-> <<Model(name), i>>]
      <4>1. CASE name = call
        BY <3>1, <3>2, <3>3, <4>1
      <4>2. CASE name # call
        <5>1. outputs'[name] = outputs[name] /\ name \in DOMAIN outputs \ {"train"}
          BY <3>1, <3>3, <4>2
        <5> QED BY <5>1 DEF OwnOutputs, Model
      <4> QED BY <4>1, <4>2
    <3> QED BY <3>1, <3>3 DEF OwnOutputs, Model, Row
  <2> QED BY <1>4, <2>1, <2>2, <2>3 DEF PolicyNext
<1> QED BY <1>2, <1>3, <1>4, StepIs

\* The inductive invariant of the calls without gradients.
CallInv == HandedInv /\ PlanInv /\ ProgressInv /\ InferenceInv /\ OwnOutputs

\* Every step keeps the invariant of the calls.
LEMMA CallStep == ExperienceInv /\ CallInv /\ [Next]_vars => CallInv'
<1> SUFFICES ASSUME ExperienceInv, CallInv, [Next]_vars PROVE CallInv'
  OBVIOUS
<1>1. PolicyTypes /\ WeightsInv
  BY DEF ExperienceInv
<1>2. HandedInv' /\ PlanInv'
  BY <1>1, HandedStep, PlanStep DEF CallInv
<1>3. ProgressInv' /\ InferenceInv' /\ OwnOutputs'
  BY <1>1, <1>2, ProgressStep, InferenceStep, OutputsStep DEF CallInv
<1> QED BY <1>2, <1>3 DEF CallInv

\* No call is made at first.
LEMMA CallBegins == Init => CallInv
<1> SUFFICES ASSUME Init PROVE CallInv
  OBVIOUS
<1>1. rollout # "handed" /\ outputs = << >> /\ steps = << >> /\ call = "none" /\ plan = << >>
  BY DEF Init, RolloutInit, NoRollouts, PolicyInit
<1>2. "none" \notin Calls
  BY DEF Calls, LogprobCalls
<1> QED BY <1>1, <1>2 DEF CallInv, HandedInv, PlanInv, ProgressInv, InferenceInv, OwnOutputs

\* However the rows are sharded, packed, cut, dealt out and gathered: each keeps its own.
THEOREM EveryRowKeepsItsOwn == Spec => []OwnExperience
<1>1. ExperienceInv /\ CallInv => OwnExperience
  <2>1. ExperienceInv => (~asyncEngine /\ rollout # "handed" => \A i \in Sample : OwnHistory(i))
    BY SyncHistoriesAreOwn DEF ExperienceInv, IdleInv
  <2> QED BY <2>1 DEF OwnExperience, CallInv
<1>2. Init => ExperienceInv /\ CallInv
  BY ExperienceBegins, CallBegins
<1>3. ExperienceInv /\ CallInv /\ [Next]_vars => ExperienceInv' /\ CallInv'
  BY ExperienceStep, CallStep
<1> QED BY <1>1, <1>2, <1>3, PTL DEF Spec

-----------------------------------------------------------------------------
(* Equal work. *)

\* Two lists of different things.
LEMMA ListsJoined ==
    ASSUME NEW S, NEW a, Lists(a, S), NEW T, NEW b, Lists(b, T), S \cap T = {}
    PROVE  Lists(a \o b, S \cup T)
<1> DEFINE U == S \cup T
           l == a \o b
<1>1. a \in Seq(U) /\ b \in Seq(U)
  <2>1. a \in Seq(S) /\ b \in Seq(T) /\ S \subseteq U /\ T \subseteq U
    BY DEF Lists
  <2> HIDE DEF U
  <2> QED BY <2>1
<1> HIDE DEF U
<1>2. /\ l \in Seq(U) /\ Len(a) \in Nat /\ Len(b) \in Nat /\ Len(l) = Len(a) + Len(b)
      /\ \A p \in 1..Len(a) : l[p] = a[p]
      /\ \A j \in 1..Len(b) : l[Len(a) + j] = b[j]
  BY <1>1, Joined
<1>3. /\ \A p \in 1..Len(a) : a[p] \in S
      /\ \A p \in 1..Len(b) : b[p] \in T
  <2>1. a \in Seq(S) /\ b \in Seq(T)
    BY DEF Lists
  <2> QED BY <2>1
<1> HIDE DEF l
<1>4. \A p \in 1..Len(l) : p \in 1..Len(a) \/ \E j \in 1..Len(b) : p = Len(a) + j
  <2> TAKE p \in 1..Len(l)
  <2>1. p \in Nat /\ (p <= Len(a) \/ (p - Len(a) \in 1..Len(b) /\ p = Len(a) + (p - Len(a))))
    BY <1>2
  <2> QED BY <2>1
<1>5. ASSUME NEW k \in 1..Len(l), NEW m \in 1..Len(l), l[k] = l[m] PROVE k = m
  <2>1. CASE k \in 1..Len(a) /\ m \in 1..Len(a)
    BY <1>2, <1>5, <2>1 DEF Lists
  <2>2. ASSUME NEW i \in 1..Len(b), NEW j \in 1..Len(b), k = Len(a) + i, m = Len(a) + j PROVE k = m
    <3>1. b[i] = b[j]
      BY <1>2, <1>5, <2>2
    <3>2. i = j
      BY <3>1 DEF Lists
    <3> QED BY <2>2, <3>2
  <2>3. ASSUME NEW i \in 1..Len(a), NEW j \in 1..Len(b), l[i] = l[Len(a) + j] PROVE FALSE
    <3>1. a[i] = b[j]
      BY <1>2, <2>3
    <3> QED BY <1>3, <3>1
  <2> QED BY <1>4, <1>5, <2>1, <2>2, <2>3
<1>6. ASSUME NEW i \in U PROVE \E k \in 1..Len(l) : l[k] = i
  <2>1. CASE i \in S
    <3>1. PICK k \in 1..Len(a) : a[k] = i
      BY <2>1 DEF Lists
    <3>2. k \in 1..Len(l) /\ l[k] = i
      BY <1>2, <3>1
    <3> QED BY <3>2
  <2>2. CASE i \in T
    <3>1. PICK k \in 1..Len(b) : b[k] = i
      BY <2>2 DEF Lists
    <3>2. Len(a) + k \in 1..Len(l) /\ l[Len(a) + k] = i
      BY <1>2, <3>1
    <3> QED BY <3>2
  <2> QED BY <2>1, <2>2 DEF U
<1>7. Lists(l, U)
  BY <1>2, <1>5, <1>6 DEF Lists
<1> QED BY <1>7 DEF l, U

\* A list with a tag.
LEMMA ListsTagged ==
    ASSUME NEW S, NEW list, Lists(list, S), NEW x
    PROVE  Lists(Tagged(x, list), {x} \X S)
<1> DEFINE l == Tagged(x, list)
           U == {x} \X S
<1>1. list \in Seq(S)
  BY DEF Lists
<1>2. l \in Seq(U) /\ Len(l) = Len(list)
  BY <1>1, TaggedSeq
<1>3. \A k \in 1..Len(list) : l[k] = <<x, list[k]>>
  BY <1>1 DEF Tagged
<1>u. \A u \in U : \E i \in S : u = <<x, i>>
  OBVIOUS
<1> HIDE DEF l, U
<1>4. ASSUME NEW k \in 1..Len(l), NEW m \in 1..Len(l), l[k] = l[m] PROVE k = m
  <2>1. list[k] = list[m] /\ k \in 1..Len(list) /\ m \in 1..Len(list)
    BY <1>2, <1>3, <1>4
  <2> QED BY <2>1 DEF Lists
<1>5. ASSUME NEW u \in U PROVE \E k \in 1..Len(l) : l[k] = u
  <2>1. PICK i \in S : u = <<x, i>>
    BY <1>u
  <2>2. PICK k \in 1..Len(list) : list[k] = i
    BY DEF Lists
  <2> QED BY <1>2, <1>3, <2>1, <2>2
<1>6. Lists(l, U)
  BY <1>2, <1>4, <1>5 DEF Lists
<1> QED BY <1>6 DEF l, U

\* The rows of a list that count.
LEMMA CountedLists ==
    ASSUME NEW S, NEW list, Lists(list, S)
    PROVE  Lists(Counting(list), {i \in S : i <= valid})
<1> DEFINE n == Len(list)
           seqs == [k \in 1..n |-> IF list[k] <= valid THEN <<list[k]>> ELSE << >>]
           flat == Counting(list)
           R == {i \in S : i <= valid}
<1>1. list \in Seq(S) /\ n \in Nat /\ DOMAIN list = 1..n /\ \A k \in 1..n : list[k] \in S
  BY DEF Lists
<1>2. flat = FlattenSeq(seqs)
  BY <1>1 DEF Counting, Those
<1>3. seqs \in [1..n -> Seq(S)]
  BY <1>1
<1>4. \A k \in 1..n : (list[k] <= valid => Len(seqs[k]) = 1 /\ seqs[k][1] = list[k])
                      /\ (~(list[k] <= valid) => Len(seqs[k]) = 0)
  OBVIOUS
<1>5. PICK start : StartsOf(start, seqs, n)
  <2> HIDE DEF seqs, n
  <2> QED BY <1>1, <1>3, StartsAre
<1> HIDE DEF seqs, flat
<1>6. flat \in Seq(S) /\ LaysOut(flat, seqs, start, n)
  <2> HIDE DEF n
  <2> QED BY <1>1, <1>2, <1>3, <1>5, Flattened
<1>7. ASSUME NEW p \in 1..Len(flat)
      PROVE  \E k \in 1..n : list[k] <= valid /\ p = start[k - 1] + 1 /\ flat[p] = list[k]
  <2>1. PICK k \in 1..n : \E j \in 1..Len(seqs[k]) : p = start[k - 1] + j
    BY <1>6 DEF LaysOut
  <2>2. PICK j \in 1..Len(seqs[k]) : p = start[k - 1] + j
    BY <2>1
  <2>3. flat[start[k - 1] + j] = seqs[k][j]
    BY <1>6, <2>2 DEF LaysOut
  <2>4. list[k] <= valid /\ j = 1
    <3>1. CASE ~(list[k] <= valid)
      <4>1. Len(seqs[k]) = 0
        BY <1>4, <3>1
      <4>2. FALSE
        BY <2>2, <4>1
      <4> QED BY <4>2
    <3>2. CASE list[k] <= valid
      <4>1. Len(seqs[k]) = 1
        BY <1>4, <3>2
      <4>2. j = 1
        BY <2>2, <4>1
      <4> QED BY <3>2, <4>2
    <3> QED BY <3>1, <3>2
  <2> QED BY <1>4, <2>2, <2>3, <2>4
<1>8. ASSUME NEW k \in 1..n, list[k] <= valid
      PROVE  start[k - 1] + 1 \in 1..Len(flat) /\ flat[start[k - 1] + 1] = list[k]
  <2>1. 1 \in 1..Len(seqs[k]) /\ seqs[k][1] = list[k]
    BY <1>4, <1>8
  <2> QED BY <1>6, <2>1 DEF LaysOut
<1>9. flat \in Seq(R)
  <2>1. \A p \in 1..Len(flat) : flat[p] \in R
    BY <1>1, <1>7
  <2> HIDE DEF R
  <2> QED BY <1>6, <2>1, IsSeqOf
<1>10. ASSUME NEW p \in 1..Len(flat), NEW q \in 1..Len(flat), flat[p] = flat[q] PROVE p = q
  <2>1. PICK k \in 1..n : list[k] <= valid /\ p = start[k - 1] + 1 /\ flat[p] = list[k]
    BY <1>7
  <2>2. PICK l \in 1..n : list[l] <= valid /\ q = start[l - 1] + 1 /\ flat[q] = list[l]
    BY <1>7
  <2>3. k = l
    BY <1>10, <2>1, <2>2 DEF Lists
  <2> QED BY <2>1, <2>2, <2>3
<1>11. ASSUME NEW i \in R PROVE \E p \in 1..Len(flat) : flat[p] = i
  <2>1. PICK k \in 1..n : list[k] = i
    BY DEF Lists
  <2> QED BY <1>8, <2>1
<1>12. Lists(flat, R)
  <2> HIDE DEF R
  <2> QED BY <1>9, <1>10, <1>11 DEF Lists
<1> QED BY <1>12 DEF flat

\* The pieces list disjoint sets, which make up the given one.
Parted(pieces, n, sets, all) ==
    /\ \A s \in 1..n : Lists(pieces[s], sets[s])
    /\ \A s, t \in 1..n : s # t => sets[s] \cap sets[t] = {}
    /\ all = UNION {sets[s] : s \in 1..n}

\* Lists of different things one after the other.
LEMMA FlattenLists ==
    ASSUME NEW n, n \in Nat, NEW T, NEW pieces, pieces \in [1..n -> Seq(T)],
           NEW sets, NEW all, Parted(pieces, n, sets, all)
    PROVE  Lists(FlattenSeq(pieces), all)
<1> DEFINE flat == FlattenSeq(pieces)
<1> USE DEF Parted
<1>1. PICK start : StartsOf(start, pieces, n)
  BY StartsAre
<1>2. flat \in Seq(T) /\ LaysOut(flat, pieces, start, n)
  BY <1>1, Flattened
<1> HIDE DEF flat
<1>3. ASSUME NEW p \in 1..Len(flat)
      PROVE  \E s \in 1..n : \E j \in 1..Len(pieces[s]) : p = start[s - 1] + j /\ flat[p] = pieces[s][j]
  <2>1. PICK s \in 1..n : \E j \in 1..Len(pieces[s]) : p = start[s - 1] + j
    <3>1. Len(flat) = start[n]
      BY <1>2 DEF LaysOut
    <3> QED BY <1>2, <3>1 DEF LaysOut
  <2>2. PICK j \in 1..Len(pieces[s]) : p = start[s - 1] + j
    BY <2>1
  <2>3. flat[start[s - 1] + j] = pieces[s][j]
    BY <1>2, <2>2 DEF LaysOut
  <2>4. flat[p] = pieces[s][j]
    BY <2>2, <2>3
  <2> QED BY <2>1, <2>2, <2>4
<1>4. ASSUME NEW s \in 1..n, NEW j \in 1..Len(pieces[s]) PROVE pieces[s][j] \in sets[s]
  <2>1. pieces[s] \in Seq(sets[s])
    BY DEF Lists
  <2> QED BY <2>1
<1>5. flat \in Seq(all)
  <2>1. ASSUME NEW p \in 1..Len(flat) PROVE flat[p] \in all
    <3>1. PICK s \in 1..n : \E j \in 1..Len(pieces[s]) : p = start[s - 1] + j /\ flat[p] = pieces[s][j]
      BY <1>3
    <3>2. PICK j \in 1..Len(pieces[s]) : p = start[s - 1] + j /\ flat[p] = pieces[s][j]
      BY <3>1
    <3>3. flat[p] \in sets[s]
      BY <1>4, <3>2
    <3> QED BY <3>3
  <2> QED BY <1>2, <2>1, IsSeqOf
<1>6. ASSUME NEW p \in 1..Len(flat), NEW q \in 1..Len(flat), flat[p] = flat[q] PROVE p = q
  <2>1. PICK s \in 1..n : \E j \in 1..Len(pieces[s]) : p = start[s - 1] + j /\ flat[p] = pieces[s][j]
    BY <1>3
  <2>2. PICK j \in 1..Len(pieces[s]) : p = start[s - 1] + j /\ flat[p] = pieces[s][j]
    BY <2>1
  <2>3. PICK t \in 1..n : \E l \in 1..Len(pieces[t]) : q = start[t - 1] + l /\ flat[q] = pieces[t][l]
    BY <1>3
  <2>4. PICK l \in 1..Len(pieces[t]) : q = start[t - 1] + l /\ flat[q] = pieces[t][l]
    BY <2>3
  <2>5. pieces[s][j] \in sets[s] /\ pieces[s][j] \in sets[t]
    BY <1>4, <1>6, <2>2, <2>4
  <2>6. s = t
    BY <2>5
  <2>7. j = l
    BY <1>6, <2>2, <2>4, <2>6 DEF Lists
  <2> QED BY <2>2, <2>4, <2>6, <2>7
<1>7. ASSUME NEW i \in all PROVE \E p \in 1..Len(flat) : flat[p] = i
  <2>1. PICK s \in 1..n : i \in sets[s]
    OBVIOUS
  <2>2. PICK j \in 1..Len(pieces[s]) : pieces[s][j] = i
    BY <2>1 DEF Lists
  <2>3. start[s - 1] + j \in 1..Len(flat) /\ flat[start[s - 1] + j] = i
    BY <1>2, <2>2 DEF LaysOut
  <2> QED BY <2>3
<1>8. Lists(flat, all)
  BY <1>5, <1>6, <1>7 DEF Lists
<1> QED BY <1>8 DEF flat

\* What a call makes its workers do, global batch by global batch.
PlanIsEqual ==
    plan # << >> => \A g \in 1..NumSteps :
        /\ \A s, t \in Shard : Len(plan[s][g]) = Len(plan[t][g])
        /\ \A s \in Shard : \A m \in DOMAIN plan[s][g] :
               LET rowsOf == plan[s][g][m]
               IN  rowsOf # << >> /\ WithinCapacity(rowsOf) /\ PairsTogether(rowsOf)

\* A place that is an even number of rows further on.
LEMMA PairPlaces ==
    ASSUME NEW b, b \in Nat \ {0}, NEW q, q \in Nat \ {0}, NEW s, s \in Nat \ {0}, NEW m, m \in Nat \ {0},
           NEW k, k \in Nat
    PROVE  \E x \in Nat : PlaceInChunk(2 * b, q, s, m, k) = k + 2 * x
<1> DEFINE x == (m - 1) * b
           y == b * q
           z == (s - 1) * y
<1>1. x \in Nat /\ y \in Nat
  BY SMT
<1>2. z \in Nat
  <2> HIDE DEF y
  <2> QED BY <1>1
<1>3. (2 * b) * q = 2 * y /\ (m - 1) * (2 * b) = 2 * x
  BY SMT
<1>4. (s - 1) * (2 * y) = 2 * z
  <2> HIDE DEF y
  <2> QED BY <1>1, SMT
<1>5. PlaceInChunk(2 * b, q, s, m, k) = k + (m - 1) * (2 * b) + (s - 1) * ((2 * b) * q)
  BY DEF PlaceInChunk, Turn
<1> HIDE DEF x, y, z
<1>6. PlaceInChunk(2 * b, q, s, m, k) = k + 2 * (x + z) /\ x + z \in Nat
  BY <1>1, <1>2, <1>3, <1>4, <1>5
<1> QED BY <1>6

\* Preferences are trained on a batch at a time.
LEMMA PreferencesAtOnce ==
    ASSUME Callable(MaxSeqLen), Preferences(algorithm), NEW size, Divided(size)
    PROVE  NumChunks(size) = 1
<1>1. size = Len(lengths) /\ size \in Nat \ {0} /\ NumChunks(size) = Len(lengths) \div size
  BY DEF Divided, BatchSizes, TrainBatchSizes, Preferences, NumChunks
<1>2. size \div size = 1
  BY <1>1
<1> QED BY <1>1, <1>2

\* Pairs are not torn apart.
LEMMA PairsKept ==
    ASSUME Callable(MaxSeqLen), NEW size, Divided(size), NEW g \in 1..NumChunks(size),
           NEW s \in Shard, NEW m \in 1..Len(plan[s][g])
    PROVE  PairsTogether(plan[s][g][m])
<1> DEFINE rowsOf == plan[s][g][m]
<1>1. SUFFICES ASSUME Preferences(algorithm), policy.batching # "dynamic"
               PROVE  /\ Len(rowsOf) % 2 = 0
                      /\ \A k \in DOMAIN rowsOf :
                             k % 2 = 1 => rowsOf[k] % 2 = 1 /\ rowsOf[k + 1] = rowsOf[k] + 1
  BY DEF PairsTogether
<1>2. policy.batching = "fixed"
  <2>1. policy.batching \in Packers \cup {"fixed", "dynamic"}
    BY PolicyNumbers
  <2>2. Admitted(policy, algorithm)
    BY DEF Callable, Configurations
  <2> QED BY <1>1, <2>1, <2>2 DEF Admitted, Preferences, Packers
<1>3. NumChunks(size) = 1 /\ g = 1 /\ size \in Nat
  <2>1. NumChunks(size) = 1
    BY <1>1, PreferencesAtOnce
  <2> QED BY <2>1 DEF Divided
<1>4. (g - 1) * size = 0
  BY <1>3
<1>5. Successive(CutAt(g), size, 0)
  <2>1. Successive(CutAt(g), size, (g - 1) * size)
    BY <1>2 DEF Divided
  <2> QED BY <1>4, <2>1
<1>6. CutAt(g)[s] = plan[s][g]
  BY DEF CutAt
<1>7. PICK q \in Nat \ {0} : \A u \in Shard : \A n \in 1..Len(CutAt(g)[u]) :
          /\ Len(CutAt(g)[u][n]) = MicroBatchRows
          /\ \A k \in 1..MicroBatchRows :
                 CutAt(g)[u][n][k] = 0 + PlaceInChunk(MicroBatchRows, q, u, n, k)
  BY <1>5 DEF Successive
<1>8. /\ Len(rowsOf) = MicroBatchRows
      /\ \A k \in 1..MicroBatchRows : rowsOf[k] = 0 + PlaceInChunk(MicroBatchRows, q, s, m, k)
  BY <1>6, <1>7
<1>9. MicroBatchSize \in Nat \ {0} /\ MicroBatchRows = 2 * MicroBatchSize /\ s \in Nat \ {0} /\ m \in Nat \ {0}
  <2>1. MicroBatchSize \in Nat \ {0} /\ Shards \in Nat \ {0}
    BY PolicyConstants
  <2>2. s \in Nat \ {0}
    BY <2>1 DEF Shard
  <2>3. m \in Nat \ {0}
    <3>1. CutAt(g) \in [Shard -> Seq(Seq(Rows((g - 1) * size, size)))]
      BY DEF Divided, Cuts
    <3>2. Len(plan[s][g]) \in Nat
      BY <1>6, <3>1
    <3> QED BY <3>2
  <2> QED BY <1>1, <2>1, <2>2, <2>3 DEF MicroBatchRows, RowsPerMicroBatch
<1>10. DOMAIN rowsOf = 1..Len(rowsOf)
  <2>1. CutAt(g) \in [Shard -> Seq(Seq(Rows((g - 1) * size, size)))]
    BY DEF Divided, Cuts
  <2>2. rowsOf \in Seq(Rows((g - 1) * size, size))
    BY <1>6, <2>1
  <2> QED BY <2>2
<1> HIDE DEF rowsOf
<1>11. ASSUME NEW k \in 1..Len(rowsOf) PROVE \E x \in Nat : rowsOf[k] = k + 2 * x
  <2>1. k \in Nat /\ k \in 1..MicroBatchRows
    BY <1>8, <1>9
  <2>2. MicroBatchSize \in Nat \ {0} /\ q \in Nat \ {0} /\ s \in Nat \ {0} /\ m \in Nat \ {0}
    BY <1>9
  <2>3. PICK x \in Nat : PlaceInChunk(2 * MicroBatchSize, q, s, m, k) = k + 2 * x
    BY <2>1, <2>2, PairPlaces, ZenonT(30)
  <2>4. rowsOf[k] = 0 + PlaceInChunk(MicroBatchRows, q, s, m, k) /\ MicroBatchRows = 2 * MicroBatchSize
    BY <1>8, <1>9, <2>1
  <2>5. rowsOf[k] = 0 + (k + 2 * x)
    BY <2>3, <2>4
  <2>6. rowsOf[k] = k + 2 * x
    BY <2>1, <2>3, <2>5
  <2> QED BY <2>3, <2>6
<1>12. ASSUME NEW k \in 1..Len(rowsOf), k % 2 = 1
       PROVE  rowsOf[k] % 2 = 1 /\ rowsOf[k + 1] = rowsOf[k] + 1
  <2>1. k + 1 \in 1..Len(rowsOf)
    BY <1>8, <1>9, <1>12
  <2>2. PICK x \in Nat : rowsOf[k] = k + 2 * x
    BY <1>11
  <2>3. rowsOf[k] % 2 = 1
    BY <1>12, <2>2
  <2>4. rowsOf[k + 1] = rowsOf[k] + 1
    <3>1. PlaceInChunk(MicroBatchRows, q, s, m, k + 1) = (k + 1) + (m - 1) * MicroBatchRows + (s - 1) * (MicroBatchRows * q)
      BY DEF PlaceInChunk, Turn
    <3>2. PlaceInChunk(MicroBatchRows, q, s, m, k) = k + (m - 1) * MicroBatchRows + (s - 1) * (MicroBatchRows * q)
      BY DEF PlaceInChunk, Turn
    <3>3. rowsOf[k] = 0 + PlaceInChunk(MicroBatchRows, q, s, m, k) /\ rowsOf[k + 1] = 0 + PlaceInChunk(MicroBatchRows, q, s, m, k + 1)
      BY <1>8, <2>1
    <3> DEFINE u == (m - 1) * MicroBatchRows
               v == (s - 1) * (MicroBatchRows * q)
    <3>4. u \in Int /\ v \in Int
      BY <1>9
    <3> HIDE DEF u, v
    <3>5. rowsOf[k] = 0 + (k + u + v) /\ rowsOf[k + 1] = 0 + ((k + 1) + u + v)
      BY <3>1, <3>2, <3>3 DEF u, v
    <3> QED BY <3>4, <3>5
  <2> QED BY <2>3, <2>4
<1>13. Len(rowsOf) % 2 = 0
  BY <1>8, <1>9
<1> QED BY <1>10, <1>12, <1>13

\* The second part of EqualWork follows from how plans are made.
LEMMA PlansAreEqual == PlanInv => PlanIsEqual
<1> SUFFICES ASSUME PlanInv, plan # << >>, NEW g \in 1..NumSteps
             PROVE  /\ \A s, t \in Shard : Len(plan[s][g]) = Len(plan[t][g])
                    /\ \A s \in Shard : \A m \in DOMAIN plan[s][g] :
                           /\ plan[s][g][m] # << >> /\ WithinCapacity(plan[s][g][m])
                           /\ PairsTogether(plan[s][g][m])
  BY DEF PlanIsEqual
<1>1. call \in Calls /\ Callable(MaxSeqLen)
  BY DEF PlanInv
<1>2. PICK size \in BatchSizes(call) : Divided(size)
  BY <1>1, PlanDivides
<1>3. NumSteps = NumChunks(size) /\ g \in 1..NumChunks(size)
  <2>1. 1 \in Shard
    BY PolicyConstants DEF Shard
  <2> QED BY <1>2, <2>1 DEF NumSteps, Divided
<1>4. Cuts(CutAt(g), Rows((g - 1) * size, size)) /\ Affordable(CutAt(g), Tokens(call))
  BY <1>2, <1>3 DEF Divided
<1>5. \A s \in Shard : CutAt(g)[s] = plan[s][g] /\ CutAt(g)[s] \in Seq(Seq(Rows((g - 1) * size, size)))
  BY <1>4 DEF CutAt, Cuts
<1>6. ASSUME NEW s \in Shard, NEW t \in Shard PROVE Len(plan[s][g]) = Len(plan[t][g])
  BY <1>4, <1>5 DEF Cuts
<1>7. ASSUME NEW s \in Shard, NEW m \in DOMAIN plan[s][g]
      PROVE  /\ plan[s][g][m] # << >> /\ WithinCapacity(plan[s][g][m])
             /\ PairsTogether(plan[s][g][m])
  <2>1. m \in 1..Len(plan[s][g]) /\ plan[s][g][m] \in Seq(Rows((g - 1) * size, size))
    BY <1>5
  <2>2. Len(plan[s][g][m]) > 0
    BY <1>4, <1>5, <2>1 DEF Cuts
  <2>3. plan[s][g][m] # << >>
    BY <2>2
  <2>4. WithinCapacity(plan[s][g][m])
    <3>1. CASE policy.batching = "dynamic"
      <4>1. \A k \in 1..Len(plan[s][g][m]) : Len(plan[s][g][m]) * lengths[plan[s][g][m][k]] <= Tokens(call)
        BY <1>4, <1>5, <2>1, <3>1 DEF Affordable, Rectangular
      <4>2. DOMAIN plan[s][g][m] = 1..Len(plan[s][g][m])
        BY <2>1
      <4> QED BY <3>1, <4>1, <4>2 DEF WithinCapacity
    <3>2. CASE policy.batching # "dynamic" /\ policy.batching \in Packers
      <4>1. Load(PaddedRows, plan[s][g][m]) <= Tokens(call)
        BY <1>4, <1>5, <2>1, <3>2 DEF Affordable
      <4> QED BY <3>2, <4>1 DEF WithinCapacity, PaddedRows
    <3>3. CASE policy.batching # "dynamic" /\ policy.batching \notin Packers
      BY <3>3 DEF WithinCapacity
    <3> QED BY <3>1, <3>2, <3>3
  <2>5. PairsTogether(plan[s][g][m])
    BY <1>1, <1>2, <1>3, <2>1, PairsKept
  <2> QED BY <2>3, <2>4, <2>5
<1> QED BY <1>6, <1>7

\* A number is among the rows of the chunk that its quotient says.
LEMMA InChunk ==
    ASSUME NEW size, size \in Nat \ {0}, NEW g, g \in Nat \ {0}, NEW i, i \in Nat \ {0}
    PROVE  i \in Rows((g - 1) * size, size) <=> (i - 1) \div size = g - 1
<1> DEFINE x == i - 1
           h == g - 1
           last == h * size
<1>1. x \in Nat /\ h \in Nat /\ last = size * h /\ last \in Nat
  BY SMT
<1>2. i \in Rows(h * size, size) <=> last <= x /\ x < last + size
  <2>1. i = x + 1
    BY <1>1
  <2> HIDE DEF x, h
  <2>2. i \in Rows(h * size, size) <=> i \in (last + 1)..(last + size)
    BY DEF Rows
  <2> HIDE DEF last
  <2> QED BY <1>1, <2>1, <2>2
<1> HIDE DEF x, h
<1>3. ASSUME last <= x, x < last + size PROVE x \div size = h
  <2> DEFINE r == x - last
  <2>1. r \in 0..(size - 1) /\ x = size * h + r
    <3> HIDE DEF last
    <3> QED BY <1>1, <1>3
  <2> HIDE DEF r
  <2>2. (size * h + r) \div size = h
    BY <1>1, <2>1, Quotient
  <2> QED BY <2>1, <2>2
<1>4. ASSUME x \div size = h PROVE last <= x /\ x < last + size
  <2>1. x % size \in 0..(size - 1) /\ x = size * (x \div size) + (x % size)
    BY <1>1, Division
  <2>2. x = size * h + (x % size)
    BY <1>4, <2>1
  <2>3. x = last + (x % size)
    BY <1>1, <2>2
  <2> HIDE DEF last
  <2> QED BY <1>1, <2>1, <2>3
<1> QED BY <1>2, <1>3, <1>4 DEF x, h

\* The global batches are made of all rows.
LEMMA ChunksOfRows ==
    ASSUME Len(lengths) \in Nat, NEW size, Divided(size)
    PROVE  /\ Len(plan[1]) = NumChunks(size)
           /\ \A g \in 1..NumChunks(size) : \A i :
                  i \in Rows((g - 1) * size, size) <=> i \in 1..Len(lengths) /\ (i - 1) \div size = g - 1
           /\ \A i \in 1..Len(lengths) : \E g \in 1..NumChunks(size) : i \in Rows((g - 1) * size, size)
<1> DEFINE N == NumChunks(size)
           L == Len(lengths)
<1>1. size \in Nat \ {0} /\ N \in Nat \ {0} /\ L = size * N /\ L \in Nat
  BY DEF Divided
<1>2. Len(plan[1]) = N
  <2>1. 1 \in Shard
    BY PolicyConstants DEF Shard
  <2> QED BY <2>1 DEF Divided
<1> HIDE DEF N, L
<1>3. ASSUME NEW g \in 1..N, NEW i
      PROVE  i \in Rows((g - 1) * size, size) <=> i \in 1..L /\ (i - 1) \div size = g - 1
  <2> DEFINE h == g - 1
             last == h * size
             most == N * size
  <2>1. g \in Nat \ {0} /\ h \in Nat /\ h + 1 <= N /\ h + 1 \in Nat
    BY <1>1
  <2>2. last \in Nat /\ (h + 1) * size = last + size
    BY <1>1, <2>1, SMT
  <2>3. (h + 1) * size <= most /\ most = L
    <3>1. (h + 1) * size <= N * size
      BY <1>1, <2>1, Order
    <3>2. N * size = L
      BY <1>1, SMT
    <3> QED BY <3>1, <3>2
  <2>4. \A j : j \in Rows(last, size) <=> j \in (last + 1)..(last + size)
    BY DEF Rows
  <2> HIDE DEF last, most
  <2>5. i \in Rows(last, size) => i \in 1..L /\ i \in Nat \ {0}
    BY <1>1, <2>2, <2>3, <2>4
  <2>6. i \in 1..L => i \in Nat \ {0}
    BY <1>1
  <2>7. i \in Nat \ {0} => (i \in Rows((g - 1) * size, size) <=> (i - 1) \div size = g - 1)
    BY <1>1, <2>1, InChunk
  <2>8. last = (g - 1) * size
    BY DEF last
  <2> QED BY <2>5, <2>6, <2>7, <2>8
<1>4. ASSUME NEW i \in 1..L PROVE \E g \in 1..N : i \in Rows((g - 1) * size, size)
  <2> DEFINE x == i - 1
             q == x \div size
  <2>1. x \in Nat /\ x < size * N
    BY <1>1
  <2>2. q \in Nat
    BY <1>1, <2>1, Division
  <2>3. q < N
    BY <1>1, <2>1, QuotientBelow
  <2>4. q + 1 \in 1..N /\ (q + 1) - 1 = q
    <3> HIDE DEF q
    <3> QED BY <1>1, <2>2, <2>3
  <2>5. i \in Rows(((q + 1) - 1) * size, size)
    BY <1>3, <2>4
  <2> QED BY <2>4, <2>5
<1> QED BY <1>2, <1>3, <1>4 DEF N, L

\* A row is among the first n microbatches that a shard has of a global batch, or among
\* those of an earlier one.
Through(s, g, n, i) == \E m \in 1..n : \E k \in 1..Len(plan[s][g][m]) : plan[s][g][m][k] = i
Earlier(s, g, i) == \E h \in 1..(g - 1) : Through(s, h, Len(plan[s][h]), i)

\* The microbatches of a plan have every row once.
OnceEach(n) ==
    /\ Len(plan[1]) \in Nat \ {0}
    /\ \A s \in Shard : \A g \in 1..Len(plan[1]) :
           /\ plan[s][g] \in Seq(Seq(1..n))
           /\ \A m, o \in 1..Len(plan[s][g]) : \A k \in 1..Len(plan[s][g][m]) : \A l \in 1..Len(plan[s][g][o]) :
                  plan[s][g][m][k] = plan[s][g][o][l] => m = o /\ k = l
    /\ \A s, t \in Shard : \A g, h \in 1..Len(plan[1]) : \A i :
           Through(s, g, Len(plan[s][g]), i) /\ Through(t, h, Len(plan[t][h]), i) => s = t /\ g = h
    /\ \A g \in 1..Len(plan[1]) : \A i :
           (\E s \in Shard : Through(s, g, Len(plan[s][g]), i)) <=> i \in GlobalBatch(g)
    /\ \A i \in 1..n : \E g \in 1..Len(plan[1]) : i \in GlobalBatch(g)

\* Where a cut has a row, and where a plan has it in a global batch.
At(cut, i, s, m, k) ==
    s \in Shard /\ m \in 1..Len(cut[s]) /\ k \in 1..Len(cut[s][m]) /\ cut[s][m][k] = i

\* A row is in one place only.
LEMMA CutsOnce ==
    ASSUME NEW S, NEW cut, Cuts(cut, S), NEW i, NEW s, NEW m, NEW k, At(cut, i, s, m, k),
           NEW t, NEW o, NEW l, At(cut, i, t, o, l)
    PROVE  s = t /\ m = o /\ k = l
<1>1. \A w, z \in Shard : \A b \in 1..Len(cut[w]) : \A c \in 1..Len(cut[z]) :
            \A d \in 1..Len(cut[w][b]) : \A e \in 1..Len(cut[z][c]) :
                cut[w][b][d] = cut[z][c][e] => w = z /\ b = c /\ d = e
    BY DEF Cuts
<1> USE DEF At
<1>2. \A b \in 1..Len(cut[s]) : \A c \in 1..Len(cut[t]) :
            \A d \in 1..Len(cut[s][b]) : \A e \in 1..Len(cut[t][c]) :
                cut[s][b][d] = cut[t][c][e] => s = t /\ b = c /\ d = e
    BY <1>1
<1>3. \A c \in 1..Len(cut[t]) : \A d \in 1..Len(cut[s][m]) : \A e \in 1..Len(cut[t][c]) :
                cut[s][m][d] = cut[t][c][e] => s = t /\ m = c /\ d = e
    BY <1>2
<1>4. \A d \in 1..Len(cut[s][m]) : \A e \in 1..Len(cut[t][o]) :
                cut[s][m][d] = cut[t][o][e] => s = t /\ m = o /\ d = e
    BY <1>3
<1> QED BY <1>4

\* That is what dividing comes to.
LEMMA OnceEachRow ==
    ASSUME NEW n, n \in Nat, Len(lengths) = n, NEW size, Divided(size)
    PROVE  OnceEach(n)
<1>0. 1 \in Shard
  BY PolicyConstants, SMTT(30) DEF Shard
<1> DEFINE N == NumChunks(size)
           R(g) == Rows((g - 1) * size, size)
           D(g) == CutAt(g)
<1>1. /\ Len(plan[1]) = N /\ N \in Nat \ {0} /\ size \in Nat \ {0}
      /\ \A g \in 1..N : \A i : i \in R(g) <=> i \in 1..n /\ (i - 1) \div size = g - 1
      /\ \A i \in 1..n : \E g \in 1..N : i \in R(g)
  <2>1. N \in Nat \ {0} /\ size \in Nat \ {0}
    BY DEF Divided
  <2> QED BY <2>1, ChunksOfRows
<1>2. \A g \in 1..N : Cuts(D(g), R(g))
  BY DEF Divided
<1>3. \A g \in 1..N : \A s \in Shard : D(g)[s] = plan[s][g]
  BY DEF CutAt
<1> HIDE DEF N, D
<1>4. ASSUME NEW g \in 1..N, NEW i PROVE i \in GlobalBatch(g) <=> i \in R(g)
  <2>1. 1 \in Shard
    BY <1>0
  <2>2. plan # << >>
    <3>1. DOMAIN plan = Shard
      BY DEF Divided
    <3> QED BY <2>1, <3>1
  <2>3. NumSteps = N
    BY <1>1, <2>2 DEF NumSteps
  <2>4. n \div N = size
    <3>1. n = size * N
      BY DEF Divided, N
    <3>2. n = N * size + 0 /\ 0 \in 0..(N - 1) /\ size \in Nat
      BY <1>1, <3>1
    <3>3. (N * size + 0) \div N = size
      BY <1>1, <3>2, Quotient
    <3> QED BY <3>2, <3>3
  <2>5. Row = 1..n
    BY DEF Row
  <2>6. i \in GlobalBatch(g) <=> i \in 1..n /\ (i - 1) \div size = g - 1
    BY <2>3, <2>4, <2>5 DEF GlobalBatch
  <2> QED BY <1>1, <2>6
<1>5. ASSUME NEW g \in 1..N, NEW s \in Shard PROVE plan[s][g] \in Seq(Seq(1..n))
  <2>1. plan[s][g] \in Seq(Seq(R(g)))
    BY <1>2, <1>3 DEF Cuts
  <2>2. R(g) \subseteq 1..n
    BY <1>1
  <2> DEFINE T == R(g)
             U == 1..n
  <2> HIDE DEF T, U
  <2>3. Seq(T) \subseteq Seq(U)
    BY <2>2 DEF T, U
  <2>4. Seq(Seq(T)) \subseteq Seq(Seq(U))
    BY <2>3
  <2> QED BY <2>1, <2>4 DEF T, U
<1>6. ASSUME NEW g \in 1..N, NEW i, NEW s, NEW m, NEW k, At(D(g), i, s, m, k),
             NEW t, NEW o, NEW l, At(D(g), i, t, o, l)
      PROVE  s = t /\ m = o /\ k = l
  <2> DEFINE S == R(g)
             cut == D(g)
  <2>1. Cuts(cut, S) /\ At(cut, i, s, m, k) /\ At(cut, i, t, o, l)
    BY <1>2, <1>6
  <2> HIDE DEF S, cut
  <2> QED BY <2>1, CutsOnce
<1>7. ASSUME NEW g \in 1..N, NEW s \in Shard, NEW i, Through(s, g, Len(plan[s][g]), i) PROVE i \in R(g)
  <2>1. PICK m \in 1..Len(plan[s][g]) : \E k \in 1..Len(plan[s][g][m]) : plan[s][g][m][k] = i
    BY <1>7 DEF Through
  <2>2. PICK k \in 1..Len(plan[s][g][m]) : plan[s][g][m][k] = i
    BY <2>1
  <2>3. plan[s][g] \in Seq(Seq(R(g)))
    BY <1>2, <1>3 DEF Cuts
  <2>4. plan[s][g][m] \in Seq(R(g))
    BY <2>3
  <2> HIDE DEF R
  <2> QED BY <2>2, <2>4
<1>8. ASSUME NEW g \in 1..N, NEW i \in R(g) PROVE \E s \in Shard : Through(s, g, Len(plan[s][g]), i)
  <2>1. PICK s \in Shard : \E m \in 1..Len(D(g)[s]) : \E k \in 1..Len(D(g)[s][m]) : D(g)[s][m][k] = i
    BY <1>2 DEF Cuts
  <2>2. D(g)[s] = plan[s][g]
    BY <1>3
  <2>3. \E m \in 1..Len(plan[s][g]) : \E k \in 1..Len(plan[s][g][m]) : plan[s][g][m][k] = i
    BY <2>1, <2>2
  <2> QED BY <2>3 DEF Through
<1>9. ASSUME NEW s \in Shard, NEW t \in Shard, NEW g \in 1..N, NEW h \in 1..N, NEW i,
             Through(s, g, Len(plan[s][g]), i), Through(t, h, Len(plan[t][h]), i)
      PROVE  s = t /\ g = h
  <2>1. i \in R(g) /\ i \in R(h)
    BY <1>7, <1>9
  <2>2. (i - 1) \div size = g - 1 /\ (i - 1) \div size = h - 1
    BY <1>1, <2>1
  <2>3. g = h
    <3>1. g \in Nat /\ h \in Nat /\ g - 1 = h - 1
      BY <1>1, <2>2
    <3> QED BY <3>1
  <2>4. PICK m \in 1..Len(plan[s][g]) : \E k \in 1..Len(plan[s][g][m]) : plan[s][g][m][k] = i
    BY <1>9 DEF Through
  <2>5. PICK k \in 1..Len(plan[s][g][m]) : plan[s][g][m][k] = i
    BY <2>4
  <2>6. PICK o \in 1..Len(plan[t][g]) : \E l \in 1..Len(plan[t][g][o]) : plan[t][g][o][l] = i
    BY <1>9, <2>3 DEF Through
  <2>7. PICK l \in 1..Len(plan[t][g][o]) : plan[t][g][o][l] = i
    BY <2>6
  <2>8. s = t
    <3>1. D(g)[s] = plan[s][g] /\ D(g)[t] = plan[t][g]
      BY <1>3
    <3>2. At(D(g), i, s, m, k) /\ At(D(g), i, t, o, l)
      BY <2>5, <2>7, <3>1 DEF At
    <3> QED BY <1>6, <3>2
  <2> QED BY <2>3, <2>8
<1> QED
  <2>1. Len(plan[1]) = N /\ N \in Nat \ {0}
    BY <1>1
  <2>2. \A g \in 1..N : \A i : (\E s \in Shard : Through(s, g, Len(plan[s][g]), i)) <=> i \in GlobalBatch(g)
    BY <1>4, <1>7, <1>8
  <2>3. \A i \in 1..n : \E g \in 1..N : i \in GlobalBatch(g)
    BY <1>1, <1>4
  <2>4. ASSUME NEW s \in Shard, NEW g \in 1..N
        PROVE  /\ plan[s][g] \in Seq(Seq(1..n))
               /\ \A m, o \in 1..Len(plan[s][g]) : \A k \in 1..Len(plan[s][g][m]) : \A l \in 1..Len(plan[s][g][o]) :
                      plan[s][g][m][k] = plan[s][g][o][l] => m = o /\ k = l
    <3>1. ASSUME NEW m \in 1..Len(plan[s][g]), NEW o \in 1..Len(plan[s][g]), NEW k \in 1..Len(plan[s][g][m]),
                 NEW l \in 1..Len(plan[s][g][o]), plan[s][g][m][k] = plan[s][g][o][l]
          PROVE  m = o /\ k = l
      <4>1. D(g)[s] = plan[s][g]
        BY <1>3
      <4>2. At(D(g), plan[s][g][m][k], s, m, k) /\ At(D(g), plan[s][g][m][k], s, o, l)
        BY <3>1, <4>1 DEF At
      <4> QED BY <1>6, <4>2
    <3> QED BY <1>5, <3>1
  <2> QED BY <1>9, <2>1, <2>2, <2>3, <2>4 DEF OnceEach

\* Another microbatch, and another global batch.
LEMMA ThroughMore ==
    ASSUME NEW s, NEW g, NEW n, n \in Nat, NEW i
    PROVE  /\ Through(s, g, n + 1, i) <=>
                  Through(s, g, n, i) \/ \E k \in 1..Len(plan[s][g][n + 1]) : plan[s][g][n + 1][k] = i
           /\ ~Through(s, g, 0, i)
<1>1. \A m : m \in 1..(n + 1) <=> m \in 1..n \/ m = n + 1
  OBVIOUS
<1>2. \A m : m \notin 1..0
  OBVIOUS
<1> QED BY <1>1, <1>2 DEF Through

\* A row is still among more microbatches.
LEMMA ThroughAll ==
    ASSUME NEW s, NEW g, NEW n, n \in Nat, NEW m, m \in Nat, n <= m, NEW i, Through(s, g, n, i)
    PROVE  Through(s, g, m, i)
<1>1. \A o : o \in 1..n => o \in 1..m
  OBVIOUS
<1> QED BY <1>1 DEF Through

\* One more global batch is behind; at first there is none.
LEMMA EarlierMore ==
    ASSUME NEW s, NEW g, g \in Nat \ {0}, NEW i
    PROVE  /\ Earlier(s, g + 1, i) <=> Earlier(s, g, i) \/ Through(s, g, Len(plan[s][g]), i)
           /\ ~Earlier(s, 1, i)
<1>1. \A h : h \in 1..((g + 1) - 1) <=> h \in 1..(g - 1) \/ h = g
  OBVIOUS
<1>2. \A h : h \notin 1..(1 - 1)
  OBVIOUS
<1> QED BY <1>1, <1>2 DEF Earlier

\* The rows that count among those that a shard has been through.
Trained(s, g, n) == {i \in 1..valid : Earlier(s, g, i) \/ Through(s, g, n, i)}

\* The rows of a microbatch.
RowsIn(list) == {list[k] : k \in 1..Len(list)}

\* A microbatch, and those of its rows that count.
LEMMA MicroBatchLists ==
    ASSUME NEW n, n \in Nat, OnceEach(n), NEW s, s \in Shard, NEW g, g \in 1..Len(plan[1]),
           NEW m, m \in 1..Len(plan[s][g])
    PROVE  /\ Lists(plan[s][g][m], RowsIn(plan[s][g][m])) /\ RowsIn(plan[s][g][m]) \subseteq 1..n
           /\ Lists(Counting(plan[s][g][m]), {i \in RowsIn(plan[s][g][m]) : i <= valid})
<1> DEFINE list == plan[s][g][m]
           R == RowsIn(list)
<1>1. list \in Seq(1..n)
  BY DEF OnceEach
<1>2. \A k, l \in 1..Len(list) : list[k] = list[l] => k = l
  <2>1. \A x, y \in 1..Len(plan[s][g]) : \A c \in 1..Len(plan[s][g][x]) : \A d \in 1..Len(plan[s][g][y]) :
            plan[s][g][x][c] = plan[s][g][y][d] => x = y /\ c = d
    BY DEF OnceEach
  <2>2. \A y \in 1..Len(plan[s][g]) : \A c \in 1..Len(plan[s][g][m]) : \A d \in 1..Len(plan[s][g][y]) :
            plan[s][g][m][c] = plan[s][g][y][d] => m = y /\ c = d
    BY <2>1
  <2> QED BY <2>2
<1> HIDE DEF list
<1>3. R \subseteq 1..n /\ \A k \in 1..Len(list) : list[k] \in R
  BY <1>1 DEF RowsIn
<1>4. list \in Seq(R)
  <2>1. \A k \in 1..Len(list) : list[k] \in R
    BY <1>3
  <2> HIDE DEF R
  <2> QED BY <1>1, <2>1, IsSeqOf
<1>5. \A i \in R : \E k \in 1..Len(list) : list[k] = i
  BY DEF RowsIn
<1>6. Lists(list, R)
  <2> HIDE DEF R
  <2> QED BY <1>2, <1>4, <1>5 DEF Lists
<1>7. Lists(Counting(list), {i \in R : i <= valid})
  <2> HIDE DEF R
  <2> QED BY <1>6, CountedLists
<1> QED BY <1>3, <1>6, <1>7 DEF list

\* The next microbatch has rows that its shard has not been through.
LEMMA NextIsNew ==
    ASSUME NEW n, n \in Nat, OnceEach(n), NEW s, s \in Shard, NEW g, g \in 1..Len(plan[1]),
           NEW m, m \in Nat, m < Len(plan[s][g]), NEW i, i \in RowsIn(plan[s][g][m + 1])
    PROVE  ~Through(s, g, m, i) /\ ~Earlier(s, g, i) /\ Through(s, g, Len(plan[s][g]), i)
<1>0. Len(plan[s][g]) \in Nat /\ m + 1 \in 1..Len(plan[s][g]) /\ g \in Nat \ {0}
  <2>1. Len(plan[s][g]) \in Nat /\ Len(plan[1]) \in Nat
    BY DEF OnceEach
  <2> QED BY <2>1
<1>1. PICK k \in 1..Len(plan[s][g][m + 1]) : plan[s][g][m + 1][k] = i
  BY DEF RowsIn
<1>2. Through(s, g, Len(plan[s][g]), i)
  BY <1>0, <1>1 DEF Through
<1>3. ASSUME Through(s, g, m, i) PROVE FALSE
  <2>1. PICK o \in 1..m : \E l \in 1..Len(plan[s][g][o]) : plan[s][g][o][l] = i
    BY <1>3 DEF Through
  <2>2. PICK l \in 1..Len(plan[s][g][o]) : plan[s][g][o][l] = i
    BY <2>1
  <2>3. o \in 1..Len(plan[s][g]) /\ o # m + 1
    BY <1>0
  <2>4. \A x, y \in 1..Len(plan[s][g]) : \A c \in 1..Len(plan[s][g][x]) : \A d \in 1..Len(plan[s][g][y]) :
            plan[s][g][x][c] = plan[s][g][y][d] => x = y /\ c = d
    BY DEF OnceEach
  <2>5. \A y \in 1..Len(plan[s][g]) : \A c \in 1..Len(plan[s][g][m + 1]) : \A d \in 1..Len(plan[s][g][y]) :
            plan[s][g][m + 1][c] = plan[s][g][y][d] => m + 1 = y /\ c = d
    BY <1>0, <2>4
  <2>6. \A c \in 1..Len(plan[s][g][m + 1]) : \A d \in 1..Len(plan[s][g][o]) :
            plan[s][g][m + 1][c] = plan[s][g][o][d] => m + 1 = o /\ c = d
    BY <2>3, <2>5
  <2>7. plan[s][g][m + 1][k] = plan[s][g][o][l] => m + 1 = o
    BY <1>1, <2>2, <2>6
  <2> QED BY <1>1, <2>2, <2>3, <2>7
<1>4. ASSUME Earlier(s, g, i) PROVE FALSE
  <2>1. PICK h \in 1..(g - 1) : Through(s, h, Len(plan[s][h]), i)
    BY <1>4 DEF Earlier
  <2>2. h \in 1..Len(plan[1]) /\ h # g
    <3>1. Len(plan[1]) \in Nat
      BY DEF OnceEach
    <3> QED BY <1>0, <3>1
  <2> QED BY <1>2, <2>1, <2>2 DEF OnceEach
<1> QED BY <1>2, <1>3, <1>4

\* After another pass a shard has results of another microbatch.
LEMMA MoreTrained ==
    ASSUME NEW n, n \in Nat, OnceEach(n), valid \in 0..n, NEW s, s \in Shard, NEW g, g \in 1..Len(plan[1]),
           NEW m, m \in Nat, m < Len(plan[s][g]), NEW old, Lists(old, {"policy"} \X Trained(s, g, m))
    PROVE  Lists(old \o Tagged("policy", Counting(plan[s][g][m + 1])), {"policy"} \X Trained(s, g, m + 1))
<1> DEFINE list == plan[s][g][m + 1]
           R == {i \in RowsIn(list) : i <= valid}
           A == Trained(s, g, m)
           B == Trained(s, g, m + 1)
<1>0. Len(plan[s][g]) \in Nat /\ m + 1 \in 1..Len(plan[s][g]) /\ g \in Nat \ {0}
  <2>1. Len(plan[s][g]) \in Nat /\ Len(plan[1]) \in Nat
    BY DEF OnceEach
  <2> QED BY <2>1
<1>1. RowsIn(list) \subseteq 1..n /\ Lists(Counting(list), R)
  BY <1>0, MicroBatchLists
<1>2. Lists(Tagged("policy", Counting(list)), {"policy"} \X R)
  <2> HIDE DEF R, list
  <2> QED BY <1>1, ListsTagged
<1>3. \A i : (\E k \in 1..Len(list) : list[k] = i) <=> i \in RowsIn(list)
  BY DEF RowsIn
<1>4. \A i : Through(s, g, m + 1, i) <=> Through(s, g, m, i) \/ i \in RowsIn(list)
  BY <1>3, ThroughMore, SMTT(30)
<1>5. B = A \cup R
  <2>1. \A i : i \in RowsIn(list) /\ i <= valid <=> i \in RowsIn(list) /\ i \in 1..valid
    BY <1>1
  <2> HIDE DEF list
  <2> QED BY <1>4, <2>1 DEF Trained
<1>6. A \cap R = {}
  <2>1. \A i \in RowsIn(list) : ~Through(s, g, m, i) /\ ~Earlier(s, g, i)
    BY NextIsNew
  <2> QED BY <2>1 DEF Trained
<1>7. ({"policy"} \X A) \cap ({"policy"} \X R) = {} /\ ({"policy"} \X A) \cup ({"policy"} \X R) = {"policy"} \X B
  <2> HIDE DEF A, B, R
  <2> QED BY <1>5, <1>6
<1> HIDE DEF R, list, B
<1>8. Lists(old \o Tagged("policy", Counting(list)), ({"policy"} \X A) \cup ({"policy"} \X R))
  <2> DEFINE S == {"policy"} \X A
             T == {"policy"} \X R
             b == Tagged("policy", Counting(list))
  <2>1. Lists(old, S) /\ Lists(b, T) /\ S \cap T = {}
    BY <1>2, <1>7
  <2> HIDE DEF S, T, b, A
  <2>2. Lists(old \o b, S \cup T)
    BY <2>1, ListsJoined
  <2> QED BY <2>2 DEF S, T, b
<1> QED BY <1>7, <1>8 DEF list, B

\* A list of numbers up to n has no more than n elements.
LEMMA ListsBounded ==
    ASSUME NEW n, n \in Nat, NEW S, S \subseteq 1..n, NEW list, Lists(list, S)
    PROVE  Len(list) \in 0..n
<1>1. IsFiniteSet(S) /\ Cardinality(S) = Len(list)
  BY ListLength
<1>2. IsFiniteSet(1..n) /\ Cardinality(1..n) = n
  <2>1. 0 \in Int /\ 1 \in Int /\ n \in Int /\ n - 1 + 1 = n /\ (1 > n => n = 0)
    OBVIOUS
  <2> QED BY <2>1, FS_Interval
<1>3. Len(list) \in Nat
  BY DEF Lists
<1>4. Cardinality(S) <= Cardinality(1..n)
  <2> DEFINE V == 1..n
  <2> HIDE DEF V
  <2> SUFFICES Cardinality(S) <= Cardinality(V)
    BY DEF V
  <2> QED BY <1>2, FS_Subset DEF V
<1> QED BY <1>1, <1>2, <1>3, <1>4

\* The next passes of a group of shards.
Coming(group, g) ==
    \A s \in group : /\ s \in Shard /\ microBatch[s] \in Nat /\ microBatch[s] < Len(plan[s][g])
                     /\ NextRows(s) = plan[s][g][microBatch[s] + 1]

\* How many of the rows of these passes are row i.
Hits(group, i) ==
    {at \in group \X Row : /\ at[2] \in DOMAIN Counting(NextRows(at[1]))
                           /\ Counting(NextRows(at[1]))[at[2]] = i}

\* Row i counts and is in these passes.
Hit(group, i) == i <= valid /\ \E s \in group : i \in RowsIn(NextRows(s))

\* One, if it counts and one of them has it.
LEMMA HitsAre ==
    ASSUME NEW n, n \in Nat, Row = 1..n, OnceEach(n), NEW g, g \in 1..Len(plan[1]), NEW group, Coming(group, g),
           NEW i, i \in Row
    PROVE  Cardinality(Hits(group, i)) = IF Hit(group, i) THEN 1 ELSE 0
<1>0. ASSUME NEW s \in group
      PROVE  /\ s \in Shard /\ Lists(Counting(NextRows(s)), {j \in RowsIn(NextRows(s)) : j <= valid})
             /\ RowsIn(NextRows(s)) \subseteq 1..n
             /\ \A j \in RowsIn(NextRows(s)) : Through(s, g, Len(plan[s][g]), j)
  <2>1. /\ s \in Shard /\ microBatch[s] \in Nat /\ microBatch[s] < Len(plan[s][g])
        /\ NextRows(s) = plan[s][g][microBatch[s] + 1]
    BY DEF Coming
  <2>2. microBatch[s] + 1 \in 1..Len(plan[s][g])
    <3>1. Len(plan[s][g]) \in Nat
      BY <2>1 DEF OnceEach
    <3> QED BY <2>1, <3>1
  <2>3. \A j \in RowsIn(NextRows(s)) : Through(s, g, Len(plan[s][g]), j)
    BY <2>1, NextIsNew
  <2>4. /\ RowsIn(NextRows(s)) \subseteq 1..n
        /\ Lists(Counting(NextRows(s)), {j \in RowsIn(NextRows(s)) : j <= valid})
    <3> DEFINE m == microBatch[s] + 1
    <3>1. NextRows(s) = plan[s][g][m] /\ m \in 1..Len(plan[s][g])
      BY <2>1, <2>2
    <3> HIDE DEF m
    <3>2. /\ RowsIn(plan[s][g][m]) \subseteq 1..n
          /\ Lists(Counting(plan[s][g][m]), {j \in RowsIn(plan[s][g][m]) : j <= valid})
      BY <2>1, <3>1, MicroBatchLists
    <3> QED BY <3>1, <3>2
  <2> QED BY <2>1, <2>3, <2>4
<1>1. ASSUME NEW at, at \in Hits(group, i)
      PROVE  /\ at[1] \in group /\ at[2] \in 1..Len(Counting(NextRows(at[1]))) /\ at = <<at[1], at[2]>>
             /\ Counting(NextRows(at[1]))[at[2]] = i /\ i <= valid /\ i \in RowsIn(NextRows(at[1]))
  <2>1. /\ at[1] \in group /\ at[2] \in DOMAIN Counting(NextRows(at[1])) /\ at = <<at[1], at[2]>>
        /\ Counting(NextRows(at[1]))[at[2]] = i
    BY <1>1 DEF Hits
  <2>2. Counting(NextRows(at[1])) \in Seq({j \in RowsIn(NextRows(at[1])) : j <= valid})
    BY <1>0, <2>1 DEF Lists
  <2> DEFINE list == Counting(NextRows(at[1]))
             S == {j \in RowsIn(NextRows(at[1])) : j <= valid}
  <2>3. at[2] \in 1..Len(list) /\ list[at[2]] \in S
    <3> HIDE DEF S
    <3>1. list \in Seq(S) /\ at[2] \in DOMAIN list
      BY <2>1, <2>2 DEF S
    <3> HIDE DEF list
    <3> QED BY <3>1
  <2> QED BY <2>1, <2>3
<1>2. ASSUME NEW at, at \in Hits(group, i), NEW other, other \in Hits(group, i) PROVE at = other
  <2>1. /\ at[1] \in group /\ at[2] \in 1..Len(Counting(NextRows(at[1]))) /\ at = <<at[1], at[2]>>
        /\ Counting(NextRows(at[1]))[at[2]] = i /\ i \in RowsIn(NextRows(at[1]))
    BY <1>1, <1>2
  <2>2. /\ other[1] \in group /\ other[2] \in 1..Len(Counting(NextRows(other[1]))) /\ other = <<other[1], other[2]>>
        /\ Counting(NextRows(other[1]))[other[2]] = i /\ i \in RowsIn(NextRows(other[1]))
    BY <1>1, <1>2
  <2>3. at[1] = other[1]
    <3>1. /\ at[1] \in Shard /\ Through(at[1], g, Len(plan[at[1]][g]), i)
          /\ other[1] \in Shard /\ Through(other[1], g, Len(plan[other[1]][g]), i)
      BY <1>0, <2>1, <2>2
    <3> QED BY <3>1 DEF OnceEach
  <2>4. at[2] = other[2]
    <3>1. Lists(Counting(NextRows(at[1])), {j \in RowsIn(NextRows(at[1])) : j <= valid})
      BY <1>0, <2>1
    <3>2. \A k, l \in 1..Len(Counting(NextRows(at[1]))) :
              Counting(NextRows(at[1]))[k] = Counting(NextRows(at[1]))[l] => k = l
      BY <3>1 DEF Lists
    <3> QED BY <2>1, <2>2, <2>3, <3>2
  <2> QED BY <2>1, <2>2, <2>3, <2>4
<1>3. ASSUME Hit(group, i) PROVE \E at : at \in Hits(group, i)
  <2>1. PICK s \in group : i <= valid /\ i \in RowsIn(NextRows(s))
    BY <1>3 DEF Hit
  <2> DEFINE list == Counting(NextRows(s))
             S == {j \in RowsIn(NextRows(s)) : j <= valid}
  <2>2. Lists(list, S) /\ i \in S /\ S \subseteq 1..n
    BY <1>0, <2>1
  <2> HIDE DEF list, S
  <2>3. PICK k \in 1..Len(list) : list[k] = i
    BY <2>2 DEF Lists
  <2>4. k \in Row /\ k \in DOMAIN list
    <3>1. Len(list) \in 0..n
      BY <2>2, ListsBounded
    <3>2. DOMAIN list = 1..Len(list)
      BY <2>2 DEF Lists
    <3> QED BY <2>3, <3>1, <3>2
  <2>5. <<s, k>> \in Hits(group, i)
    BY <2>1, <2>3, <2>4 DEF Hits, list
  <2> QED BY <2>5
<1>4. CASE Hit(group, i)
  <2>1. PICK at : at \in Hits(group, i)
    BY <1>3, <1>4
  <2>2. Hits(group, i) = {at}
    BY <1>2, <2>1
  <2>3. Cardinality({at}) = 1
    BY FS_Singleton
  <2> QED BY <1>4, <2>2, <2>3
<1>5. CASE ~Hit(group, i)
  <2>1. Hits(group, i) = {}
    BY <1>1, <1>5 DEF Hit
  <2>2. Cardinality({}) = 0
    BY FS_EmptySet
  <2> QED BY <1>5, <2>1, <2>2
<1> QED BY <1>4, <1>5

\* While workers train, they have results of the rows they have been through, and the
\* gradients are of those of the global batch under way.
CameTo(w) == IF finished = {} /\ ~LastStage(w) THEN 0 ELSE microBatch[ShardOfWorker(w)]

\* The rows of the global batch under way that have entered the gradients.
Entered ==
    IF evalMode \/ finished # {} THEN {}
    ELSE {i \in 1..valid : \E s \in Shard : Through(s, globalBatch, microBatch[s], i)}

\* What training has done at any time.
TrainInv ==
    call = "train" =>
        /\ finished \in {{}, Shard}
        /\ DOMAIN results = CalledWorkers
        /\ \A w \in CalledWorkers :
               Lists(results[w], {"policy"} \X Trained(ShardOfWorker(w), globalBatch, CameTo(w)))
        /\ gradients = Once(Entered)
        /\ evalMode => steps = << >>
        /\ ~evalMode => Len(steps) = IF finished = {} THEN globalBatch - 1 ELSE globalBatch

\* What a shard has been through depends on the plan, and on the rows that count.
LEMMA SameTrained ==
    ASSUME UNCHANGED <<plan, valid>>
    PROVE  \A s, g, n : Trained(s, g, n)' = Trained(s, g, n) /\ \A i : Through(s, g, n, i)' <=> Through(s, g, n, i)
BY DEF Trained, Earlier, Through

\* The rows of a call are there once in its plan.
LEMMA CallOnceEach ==
    ASSUME Callable(MaxSeqLen), DividedInv, call \in Calls
    PROVE  /\ Len(lengths) \in Nat /\ Row = 1..Len(lengths) /\ OnceEach(Len(lengths))
           /\ plan # << >> /\ NumSteps = Len(plan[1])
<1>1. PICK size \in BatchSizes(call) : Divided(size)
  BY DEF DividedInv
<1>3. Len(lengths) \in Nat /\ Row = 1..Len(lengths)
  BY DEF Callable, Row
<1>4. OnceEach(Len(lengths))
  BY <1>1, <1>3, OnceEachRow
<1>5. plan # << >>
  <2>1. DOMAIN plan = Shard
    BY <1>1 DEF Divided
  <2>2. 1 \in Shard
    BY PolicyConstants DEF Shard
  <2> QED BY <2>1, <2>2
<1> QED BY <1>3, <1>4, <1>5 DEF NumSteps

\* The gradients take the rows of a pass.
LEMMA PassGradients ==
    ASSUME Callable(MaxSeqLen), DividedInv, ProgressInv, TrainInv, valid \in 0..Len(lengths),
           NEW group \in SUBSET Shard, Trains(group)
    PROVE  gradients' = Once(Entered)'
<1> DEFINE n == Len(lengths)
           g == globalBatch
<1>1. /\ call = "train" /\ Advances(group) /\ call \in Calls
      /\ microBatch' = [s \in Shard |-> IF s \in group THEN microBatch[s] + 1 ELSE microBatch[s]]
      /\ UNCHANGED <<valid, lengths, evalMode, call, plan, globalBatch, finished>>
  BY DEF Trains, Advances, Calls
<1>2. n \in Nat /\ Row = 1..n /\ OnceEach(n)
  BY <1>1, CallOnceEach
<1>3. g \in 1..Len(plan[1]) /\ \A s \in Shard : microBatch[s] \in 0..Len(Mine(s)) /\ Passes(s) = Len(Mine(s)) /\ Mine(s) = plan[s][g]
  BY <1>1, WorkOf DEF ProgressInv, Work, Mine
<1>4. Row' = Row
  BY <1>1 DEF Row
<1>5. gradients = Once(Entered) /\ finished \in {{}, Shard}
  BY <1>1 DEF TrainInv
<1>6. gradients' = [i \in Row |-> gradients[i] + IF evalMode THEN 0 ELSE Cardinality(Hits(group, i))]
  BY DEF Trains, Hits
<1>7. Once(Entered)' = [i \in Row |-> IF i \in Entered' THEN 1 ELSE 0]
  BY <1>4 DEF Once
<1>8. \A i \in Row : gradients[i] = IF i \in Entered THEN 1 ELSE 0
  BY <1>5 DEF Once
<1> HIDE DEF n
<1>9. CASE evalMode
  <2>1. Entered = {} /\ Entered' = {}
    BY <1>1, <1>9 DEF Entered
  <2>2. gradients' = [i \in Row |-> 0]
    BY <1>6, <1>8, <1>9, <2>1
  <2> QED BY <1>7, <2>1, <2>2
<1>10. CASE ~evalMode /\ finished # {}
  <2>1. group = {}
    <3>1. finished = Shard
      BY <1>5, <1>10
    <3> QED BY <1>1, <3>1 DEF Advances
  <2>2. \A i \in Row : Cardinality(Hits(group, i)) = 0
    <3>1. \A i \in Row : Hits(group, i) = {}
      BY <2>1 DEF Hits
    <3>2. Cardinality({}) = 0
      BY FS_EmptySet
    <3> QED BY <3>1, <3>2
  <2>3. Entered = {} /\ Entered' = {}
    BY <1>1, <1>10 DEF Entered
  <2>4. gradients' = [i \in Row |-> 0]
    BY <1>6, <1>8, <1>10, <2>2, <2>3
  <2> QED BY <1>7, <2>3, <2>4
<1>11. CASE ~evalMode /\ finished = {}
  <2>1. Coming(group, g)
    <3>1. ASSUME NEW s \in group
          PROVE  /\ s \in Shard /\ microBatch[s] \in Nat /\ microBatch[s] < Len(plan[s][g])
                 /\ NextRows(s) = plan[s][g][microBatch[s] + 1]
      <4>1. s \in Shard /\ microBatch[s] < Passes(s)
        BY <1>1 DEF Advances
      <4>2. microBatch[s] < Len(plan[s][g]) /\ Mine(s) = plan[s][g] /\ microBatch[s] \in Nat
        BY <1>3, <4>1
      <4> QED BY <4>1, <4>2 DEF NextRows
    <3> QED BY <3>1 DEF Coming
  <2>2. \A i \in Row : Cardinality(Hits(group, i)) = IF Hit(group, i) THEN 1 ELSE 0
    BY <1>2, <1>3, <2>1, HitsAre
  <2>3. Entered = {i \in 1..valid : \E s \in Shard : Through(s, g, microBatch[s], i)}
    BY <1>11 DEF Entered
  <2>4. \A s, m, i : Through(s, g, m, i)' <=> Through(s, g, m, i)
    BY <1>1 DEF Through
  <2>5. Entered' = {i \in 1..valid : \E s \in Shard : Through(s, g, microBatch'[s], i)}
    BY <1>1, <1>11 DEF Entered, Shard, Through
  <2>6. ASSUME NEW i \in Row PROVE /\ i \in Entered' <=> i \in Entered \/ Hit(group, i)
                                   /\ ~(i \in Entered /\ Hit(group, i))
    <3>1. i \in 1..valid <=> i <= valid
      BY <1>2
    <3>2. ASSUME NEW s \in group PROVE Through(s, g, microBatch'[s], i) <=> Through(s, g, microBatch[s], i) \/ i \in RowsIn(NextRows(s))
      <4>1. s \in Shard /\ microBatch[s] \in Nat /\ NextRows(s) = plan[s][g][microBatch[s] + 1] /\ microBatch'[s] = microBatch[s] + 1
        BY <1>1, <2>1 DEF Coming
      <4>2. i \in RowsIn(NextRows(s)) <=> \E k \in 1..Len(plan[s][g][microBatch[s] + 1]) : plan[s][g][microBatch[s] + 1][k] = i
        BY <4>1 DEF RowsIn
      <4> DEFINE m == microBatch[s]
      <4>3. m \in Nat /\ microBatch'[s] = m + 1 /\ (i \in RowsIn(NextRows(s)) <=> \E k \in 1..Len(plan[s][g][m + 1]) : plan[s][g][m + 1][k] = i)
        BY <4>1, <4>2
      <4> HIDE DEF m, g
      <4>4. Through(s, g, m + 1, i) <=> Through(s, g, m, i) \/ i \in RowsIn(NextRows(s))
        <5>1. Through(s, g, m + 1, i) <=>
                  Through(s, g, m, i) \/ \E k \in 1..Len(plan[s][g][m + 1]) : plan[s][g][m + 1][k] = i
          BY <4>3, ThroughMore
        <5> QED BY <4>3, <5>1
      <4> QED BY <4>3, <4>4 DEF m
    <3>3. ASSUME NEW s \in Shard, s \notin group PROVE microBatch'[s] = microBatch[s]
      BY <1>1, <3>3
    <3>4. i \in Entered' <=> i \in Entered \/ Hit(group, i)
      BY <2>1, <2>3, <2>5, <3>1, <3>2, <3>3 DEF Hit, Coming
    <3>5. ASSUME i \in Entered, Hit(group, i) PROVE FALSE
      <4>1. PICK t \in Shard : Through(t, g, microBatch[t], i)
        BY <2>3, <3>5
      <4>2. PICK s \in group : i \in RowsIn(NextRows(s))
        BY <3>5 DEF Hit
      <4>3. /\ s \in Shard /\ microBatch[s] \in Nat /\ microBatch[s] < Len(plan[s][g])
            /\ i \in RowsIn(plan[s][g][microBatch[s] + 1])
        BY <2>1, <4>2 DEF Coming
      <4>4. ~Through(s, g, microBatch[s], i) /\ Through(s, g, Len(plan[s][g]), i)
        BY <1>2, <1>3, <4>3, NextIsNew
      <4>5. Through(t, g, Len(plan[t][g]), i)
        <5>1. microBatch[t] \in 0..Len(plan[t][g]) /\ Len(plan[t][g]) \in Nat
          <6>1. Len(plan[t][g]) \in Nat
            BY <1>2, <1>3 DEF OnceEach
          <6> QED BY <1>3, <6>1
        <5>2. microBatch[t] \in Nat /\ microBatch[t] <= Len(plan[t][g])
          BY <5>1
        <5> QED BY <4>1, <5>1, <5>2, ThroughAll
      <4>6. s = t
        BY <1>2, <1>3, <4>3, <4>4, <4>5 DEF OnceEach
      <4> QED BY <4>1, <4>4, <4>6
    <3> QED BY <3>4, <3>5
  <2>7. \A i \in Row : gradients'[i] = IF i \in Entered' THEN 1 ELSE 0
    BY <1>6, <1>8, <1>11, <2>2, <2>6
  <2>8. gradients' = [i \in Row |-> IF i \in Entered' THEN 1 ELSE 0]
    BY <1>6, <2>7
  <2> QED BY <1>7, <2>8
<1> QED BY <1>9, <1>10, <1>11

\* A pass of training.
LEMMA TrainingPasses ==
    ASSUME Callable(MaxSeqLen), DividedInv, WeightsInv, ProgressInv, TrainInv, valid \in 0..Len(lengths),
           NEW group \in SUBSET Shard, Trains(group)
    PROVE  TrainInv'
<1> DEFINE n == Len(lengths)
           g == globalBatch
<1>1. /\ call = "train" /\ Advances(group) /\ call \in Calls
      /\ microBatch' = [s \in Shard |-> IF s \in group THEN microBatch[s] + 1 ELSE microBatch[s]]
      /\ UNCHANGED <<valid, lengths, policy, evalMode, call, plan, globalBatch, finished, weights, steps>>
  BY DEF Trains, Advances, Calls
<1>2. n \in Nat /\ OnceEach(n)
  BY <1>1, CallOnceEach
<1>3. g \in 1..Len(plan[1]) /\ \A s \in Shard : microBatch[s] \in 0..Len(Mine(s)) /\ Passes(s) = Len(Mine(s)) /\ Mine(s) = plan[s][g]
  BY <1>1, WorkOf DEF ProgressInv, Work, Mine
<1>4. /\ CalledWorkers' = CalledWorkers /\ Shard' = Shard
      /\ \A w : ShardOfWorker(w)' = ShardOfWorker(w) /\ (LastStage(w)' <=> LastStage(w))
  BY <1>1, SameWorkers DEF Shard
<1>5. /\ finished \in {{}, Shard} /\ DOMAIN results = CalledWorkers
      /\ \A w \in CalledWorkers :
             Lists(results[w], {"policy"} \X Trained(ShardOfWorker(w), globalBatch, CameTo(w)))
      /\ evalMode => steps = << >>
      /\ ~evalMode => Len(steps) = IF finished = {} THEN globalBatch - 1 ELSE globalBatch
  BY <1>1 DEF TrainInv
<1>6. \A s, m : Trained(s, g, m)' = Trained(s, g, m)
  BY <1>1, SameTrained
<1>7. gradients' = Once(Entered)'
  BY PassGradients
<1>8. ASSUME NEW w \in CalledWorkers
      PROVE  Lists(results'[w], {"policy"} \X Trained(ShardOfWorker(w), g, CameTo(w)'))
  <2> DEFINE s == ShardOfWorker(w)
  <2>1. s \in Shard
    BY CalledAre DEF Callable
  <2>2. results'[w] = IF s \in group /\ LastStage(w)
                      THEN results[w] \o Tagged(weights[s], Counting(NextRows(s))) ELSE results[w]
    BY <1>5 DEF Trains
  <2>3. Lists(results[w], {"policy"} \X Trained(s, g, CameTo(w)))
    BY <1>5
  <2>4. CameTo(w)' = IF finished = {} /\ ~LastStage(w) THEN 0 ELSE microBatch'[s]
    BY <1>1, <1>4 DEF CameTo
  <2>5. CameTo(w) = IF finished = {} /\ ~LastStage(w) THEN 0 ELSE microBatch[s]
    BY DEF CameTo
  <2> HIDE DEF s
  <2>6. CASE s \in group /\ LastStage(w)
    <3>1. weights[s] = "policy"
      BY <1>1, <2>1 DEF WeightsInv
    <3>2. microBatch[s] \in Nat /\ microBatch[s] < Len(plan[s][g]) /\ NextRows(s) = plan[s][g][microBatch[s] + 1]
      <4>1. microBatch[s] < Passes(s)
        BY <1>1, <2>6 DEF Advances
      <4> QED BY <1>3, <2>1, <4>1 DEF NextRows
    <3>3. CameTo(w) = microBatch[s] /\ CameTo(w)' = microBatch[s] + 1
      BY <1>1, <2>1, <2>4, <2>5, <2>6
    <3> DEFINE m == microBatch[s]
               old == results[w]
    <3>4. m \in Nat /\ m < Len(plan[s][g]) /\ Lists(old, {"policy"} \X Trained(s, g, m))
      BY <2>3, <3>2, <3>3
    <3>5. results'[w] = old \o Tagged("policy", Counting(plan[s][g][m + 1])) /\ CameTo(w)' = m + 1
      BY <2>2, <2>6, <3>1, <3>2, <3>3
    <3> HIDE DEF m, old, n, g
    <3>6. Lists(old \o Tagged("policy", Counting(plan[s][g][m + 1])), {"policy"} \X Trained(s, g, m + 1))
      BY <1>2, <1>3, <2>1, <3>4, MoreTrained DEF n
    <3> QED BY <3>5, <3>6 DEF s
  <2>7. CASE ~(s \in group /\ LastStage(w))
    <3>1. results'[w] = results[w]
      BY <2>2, <2>7
    <3>2. CameTo(w)' = CameTo(w)
      <4>1. CASE s \notin group
        BY <1>1, <2>1, <2>4, <2>5, <4>1
      <4>2. CASE s \in group /\ ~LastStage(w)
        <5>1. finished = {}
          BY <1>1, <1>5, <2>1, <4>2 DEF Advances
        <5> QED BY <2>4, <2>5, <4>2, <5>1
      <4> QED BY <2>7, <4>1, <4>2
    <3> QED BY <2>3, <3>1, <3>2 DEF s
  <2> QED BY <2>6, <2>7
<1>9. DOMAIN results' = CalledWorkers
  BY <1>5 DEF Trains
<1>10. ASSUME NEW w \in CalledWorkers
       PROVE  Lists(results[w], {"policy"} \X Trained(ShardOfWorker(w), globalBatch, CameTo(w)))'
  <2>1. Trained(ShardOfWorker(w), globalBatch, CameTo(w))' = Trained(ShardOfWorker(w), g, CameTo(w)')
    <3>1. Trained(ShardOfWorker(w), globalBatch, CameTo(w))' = Trained(ShardOfWorker(w)', globalBatch', CameTo(w)')
      BY <1>1 DEF Trained, Earlier, Through
    <3> QED BY <1>1, <1>4, <3>1
  <2>2. Lists(results[w], {"policy"} \X Trained(ShardOfWorker(w), globalBatch, CameTo(w)))'
            = Lists(results'[w], {"policy"} \X Trained(ShardOfWorker(w), globalBatch, CameTo(w))')
    BY DEF Lists
  <2> QED BY <1>8, <2>1, <2>2
<1> QED BY <1>1, <1>4, <1>5, <1>7, <1>9, <1>10 DEF TrainInv

\* Each optimizer step took the rows of its global batch that count, each of them once.
StepsTaken ==
    /\ steps \in Seq([Row -> Nat])
    /\ \A g \in 1..Len(steps) : steps[g] = Once({i \in GlobalBatch(g) : i <= valid})

\* At the end of a global batch, its rows are in the gradients.
LEMMA AllEntered ==
    ASSUME Callable(MaxSeqLen), DividedInv, ProgressInv, call = "train", valid \in 0..Len(lengths),
           ~evalMode, finished = {}, \A s \in Shard : microBatch[s] = Passes(s)
    PROVE  Entered = {i \in GlobalBatch(globalBatch) : i <= valid}
<1> DEFINE n == Len(lengths)
           g == globalBatch
<1>1. call \in Calls
  BY DEF Calls
<1>2. n \in Nat /\ Row = 1..n /\ OnceEach(n)
  BY <1>1, CallOnceEach
<1>3. g \in 1..Len(plan[1]) /\ \A s \in Shard : microBatch[s] = Len(plan[s][g])
  BY <1>1, WorkOf DEF ProgressInv, Work, Mine
<1>4. Entered = {i \in 1..valid : \E s \in Shard : Through(s, g, Len(plan[s][g]), i)}
  BY <1>3 DEF Entered
<1>5. \A i : (\E s \in Shard : Through(s, g, Len(plan[s][g]), i)) <=> i \in GlobalBatch(g)
  BY <1>2, <1>3 DEF OnceEach
<1>6. \A i \in GlobalBatch(g) : i \in 1..n
  BY <1>2 DEF GlobalBatch
<1> HIDE DEF n, g
<1>7. \A i : i \in 1..valid <=> i \in 1..n /\ i <= valid
  BY <1>2 DEF n
<1>8. Entered = {i \in GlobalBatch(g) : i <= valid}
  BY <1>2, <1>4, <1>5, <1>6, <1>7
<1> QED BY <1>8 DEF g

\* A global batch ends.
LEMMA TrainingEnds ==
    ASSUME Callable(MaxSeqLen), DividedInv, ProgressInv, TrainInv, valid \in 0..Len(lengths),
           StepsTaken, EndGlobalBatch
    PROVE  TrainInv' /\ StepsTaken'
<1> DEFINE n == Len(lengths)
           g == globalBatch
<1>1. /\ call = "train" /\ call \in Calls
      /\ \A s \in Shard : s \notin finished /\ microBatch[s] = Passes(s)
      /\ steps' = (IF evalMode THEN steps ELSE Append(steps, gradients))
      /\ gradients' = NoGradients /\ results' = FromLastStage(Shard)
      /\ UNCHANGED <<valid, lengths, policy, algorithm, evalMode, call, plan>>
  BY DEF EndGlobalBatch, Calls
<1>2. n \in Nat /\ Row = 1..n /\ OnceEach(n) /\ plan # << >> /\ NumSteps = Len(plan[1])
  BY <1>1, CallOnceEach
<1>3. g \in 1..Len(plan[1]) /\ \A s \in Shard : microBatch[s] = Len(plan[s][g])
  BY <1>1, WorkOf DEF ProgressInv, Work, Mine
<1>4. /\ CalledWorkers' = CalledWorkers /\ Shard' = Shard /\ Row' = Row
      /\ \A w : ShardOfWorker(w)' = ShardOfWorker(w) /\ (LastStage(w)' <=> LastStage(w))
  BY <1>1, SameWorkers DEF Shard, Row
<1>5. /\ finished \in {{}, Shard} /\ DOMAIN results = CalledWorkers
      /\ \A w \in CalledWorkers :
             Lists(results[w], {"policy"} \X Trained(ShardOfWorker(w), globalBatch, CameTo(w)))
      /\ evalMode => steps = << >>
      /\ ~evalMode => Len(steps) = IF finished = {} THEN globalBatch - 1 ELSE globalBatch
      /\ gradients = Once(Entered)
  BY <1>1 DEF TrainInv
<1>6. 1 \in Shard /\ finished = {}
  <2>1. 1 \in Shard
    BY PolicyConstants DEF Shard
  <2> QED BY <1>1, <1>5, <2>1
<1>7. \/ g < Len(plan[1]) /\ globalBatch' = g + 1 /\ microBatch' = [s \in Shard |-> 0] /\ finished' = {}
      \/ g = Len(plan[1]) /\ globalBatch' = g /\ microBatch' = microBatch /\ finished' = Shard
  <2>1. CASE g < Len(plan[1])
    BY <1>6, <2>1 DEF EndGlobalBatch
  <2>2. CASE ~(g < Len(plan[1]))
    <3>1. g = Len(plan[1])
      BY <1>3, <2>2
    <3> QED BY <2>2, <3>1 DEF EndGlobalBatch
  <2> QED BY <2>1, <2>2
<1>8. \A s, h, m, i : Through(s, h, m, i)' <=> Through(s, h, m, i)
  BY <1>1, SameTrained
<1>9. gradients' = Once(Entered)'
  <2>1. Entered' = {}
    <3>1. CASE finished' # {}
      BY <3>1 DEF Entered
    <3>2. CASE finished' = {}
      <4>1. microBatch' = [s \in Shard |-> 0] /\ globalBatch' = g + 1
        BY <1>6, <1>7, <3>2
      <4>2. \A s, i : ~Through(s, g + 1, 0, i)
        BY ThroughMore
      <4>3. Entered' = {i \in 1..valid : ~evalMode /\ \E s \in Shard : Through(s, g + 1, microBatch'[s], i)}
        <5> HIDE DEF g
        <5> QED BY <1>1, <3>2, <4>1 DEF Entered, Shard, Through
      <4> QED BY <4>1, <4>2, <4>3
    <3> QED BY <3>1, <3>2
  <2>2. Once(Entered)' = [i \in Row |-> 0]
    BY <1>4, <2>1 DEF Once
  <2> QED BY <1>1, <2>2 DEF NoGradients
<1>10. ASSUME NEW w \in CalledWorkers
       PROVE  Lists(results[w], {"policy"} \X Trained(ShardOfWorker(w), globalBatch, CameTo(w)))'
  <2> DEFINE s == ShardOfWorker(w)
             last == Len(plan[s][g])
  <2>1. s \in Shard
    BY CalledAre DEF Callable
  <2>2. /\ results'[w] = results[Source(w)] /\ Source(w) \in CalledWorkers /\ LastStage(Source(w))
        /\ ShardOfWorker(Source(w)) = s
    BY <1>1, <1>5, <2>1, FromSource DEF Callable
  <2>3. Lists(results'[w], {"policy"} \X Trained(s, g, last))
    <3>1. CameTo(Source(w)) = microBatch[s]
      BY <2>2 DEF CameTo
    <3>2. CameTo(Source(w)) = last
      BY <1>3, <2>1, <3>1
    <3> QED BY <1>5, <2>2, <3>2
  <2>4. \/ globalBatch' = g + 1 /\ CameTo(w)' = 0
        \/ globalBatch' = g /\ CameTo(w)' = last
    <3>1. CameTo(w)' = IF finished' = {} /\ ~LastStage(w) THEN 0 ELSE microBatch'[s]
      BY <1>4 DEF CameTo
    <3> HIDE DEF g
    <3> QED BY <1>3, <1>6, <1>7, <2>1, <3>1
  <2>5. Trained(s, globalBatch', CameTo(w)') = Trained(s, g, last)
    <3>1. CASE globalBatch' = g /\ CameTo(w)' = last
      BY <3>1
    <3>2. CASE globalBatch' = g + 1 /\ CameTo(w)' = 0
      <4>1. g \in Nat \ {0}
        <5>1. Len(plan[1]) \in Nat
          BY <1>2 DEF OnceEach
        <5> QED BY <1>3, <5>1
      <4> HIDE DEF s, g
      <4>2. \A i : Earlier(s, g + 1, i) <=> Earlier(s, g, i) \/ Through(s, g, Len(plan[s][g]), i)
        BY <4>1, EarlierMore
      <4>3. \A i : ~Through(s, g + 1, 0, i)
        BY ThroughMore
      <4>4. Trained(s, g + 1, 0) = Trained(s, g, last)
        BY <4>2, <4>3 DEF Trained
      <4> QED BY <3>2, <4>4
    <3> QED BY <2>4, <3>1, <3>2
  <2>6. Trained(ShardOfWorker(w), globalBatch, CameTo(w))' = Trained(s, globalBatch', CameTo(w)')
    <3>1. Trained(ShardOfWorker(w), globalBatch, CameTo(w))' = Trained(ShardOfWorker(w)', globalBatch', CameTo(w)')
      BY <1>1 DEF Trained, Earlier, Through
    <3> QED BY <1>4, <3>1
  <2>7. Lists(results[w], {"policy"} \X Trained(ShardOfWorker(w), globalBatch, CameTo(w)))'
            = Lists(results'[w], {"policy"} \X Trained(ShardOfWorker(w), globalBatch, CameTo(w))')
    BY DEF Lists
  <2> QED BY <2>3, <2>5, <2>6, <2>7
<1>11. DOMAIN results' = CalledWorkers
  BY <1>1, <1>5, FromSource DEF Callable
<1>12. /\ (evalMode => steps = << >>)'
       /\ (~evalMode => Len(steps) = IF finished = {} THEN globalBatch - 1 ELSE globalBatch)'
       /\ steps' \in Seq([Row -> Nat])
       /\ \A h \in 1..Len(steps') : steps'[h] = Once({i \in GlobalBatch(h) : i <= valid})
  <2>1. CASE evalMode
    BY <1>1, <1>5, <2>1 DEF StepsTaken
  <2>2. CASE ~evalMode
    <3> DEFINE T == [Row -> Nat]
               x == Once({i \in GlobalBatch(g) : i <= valid})
    <3>1. gradients = x
      <4>1. Entered = {i \in GlobalBatch(g) : i <= valid}
        BY <1>1, <1>6, <2>2, AllEntered
      <4> QED BY <1>5, <4>1
    <3>2. x \in T
      BY DEF Once
    <3>3. steps \in Seq(T) /\ steps' = Append(steps, x) /\ Len(steps) = g - 1 /\ g \in Nat \ {0}
      <4>1. Len(plan[1]) \in Nat
        BY <1>2 DEF OnceEach
      <4> HIDE DEF x
      <4> QED BY <1>1, <1>3, <1>5, <1>6, <2>2, <3>1, <4>1 DEF StepsTaken
    <3> HIDE DEF T, x, g
    <3>4. /\ steps' \in Seq(T) /\ Len(steps') = g /\ steps'[g] = x
          /\ \A h \in 1..Len(steps) : steps'[h] = steps[h]
      BY <3>2, <3>3
    <3>5. ASSUME NEW h \in 1..Len(steps') PROVE steps'[h] = Once({i \in GlobalBatch(h) : i <= valid})
      <4>1. CASE h = g
        BY <3>4, <4>1 DEF x
      <4>2. CASE h # g
        <5>1. h \in 1..Len(steps)
          BY <3>3, <3>4, <4>2
        <5> QED BY <3>4, <5>1 DEF StepsTaken
      <4> QED BY <4>1, <4>2
    <3>6. Len(steps') = IF finished' = {} THEN globalBatch' - 1 ELSE globalBatch'
      BY <1>6, <1>7, <3>3, <3>4 DEF g
    <3> QED BY <1>1, <2>2, <3>4, <3>5, <3>6 DEF T
  <2> QED BY <2>1, <2>2
<1>13. \A h : Once({i \in GlobalBatch(h) : i <= valid})' = Once({i \in GlobalBatch(h) : i <= valid})
  <2>1. NumSteps' = NumSteps
    BY <1>1, <1>2 DEF NumSteps
  <2>2. \A h : GlobalBatch(h)' = GlobalBatch(h)
    BY <1>1, <1>4, <2>1 DEF GlobalBatch
  <2> QED BY <1>1, <1>4, <2>2 DEF Once
<1>14. finished' \in {{}, Shard}
  BY <1>7
<1>15. TrainInv'
  BY <1>4, <1>9, <1>10, <1>11, <1>12, <1>14 DEF TrainInv
<1>16. StepsTaken'
  BY <1>4, <1>12, <1>13 DEF StepsTaken
<1> QED BY <1>15, <1>16

\* A step trains at its end, and once.
TodoInv ==
    /\ \A k \in 1..Len(todo) : todo[k] = "train" <=> k = Len(todo)
    /\ call = "train" => todo = << >>
    /\ steps # << >> => todo = << >> /\ call \in {"none", "train"}

\* Every step keeps it.
LEMMA TodoStep == PolicyTypes /\ HandedInv /\ TodoInv /\ [Next]_vars => TodoInv'
<1> SUFFICES ASSUME PolicyTypes, HandedInv, TodoInv, [Next]_vars PROVE TodoInv'
  OBVIOUS
<1>1. CASE UNCHANGED <<todo, call, steps>>
  BY <1>1 DEF TodoInv
<1>2. CASE rollout # "handed" /\ (Flatten \/ Collate)
  <2>1. todo' \in StepCalls(algorithm') /\ call' = "none" /\ steps' = << >>
    BY <1>2, HandIs DEF HandedInv
  <2>2. ASSUME NEW name, NEW t, t \in StepCalls(name), NEW k \in 1..Len(t) PROVE t[k] = "train" <=> k = Len(t)
    <3>1. \/ t = <<"get_logprobs", "train">>
          \/ t = <<"get_logprobs", "get_reference_policy_logprobs", "train">>
          \/ t = <<"get_topk_logits", "train">>
          \/ t = <<"get_reference_policy_logprobs", "train">>
          \/ t = <<"train">>
      BY <2>2 DEF StepCalls
    <3>2. CASE t = <<"train">>
      BY <2>2, <3>2
    <3>3. CASE t = <<"get_logprobs", "get_reference_policy_logprobs", "train">>
      <4>1. Len(t) = 3 /\ (k = 1 \/ k = 2 \/ k = 3)
        BY <2>2, <3>3
      <4> QED BY <3>3, <4>1
    <3>4. ASSUME NEW first, first # "train", t = <<first, "train">> PROVE t[k] = "train" <=> k = Len(t)
      <4>1. Len(t) = 2 /\ (k = 1 \/ k = 2) /\ t[2] = "train" /\ t[1] # "train"
        BY <2>2, <3>4
      <4> QED BY <4>1
    <3> QED BY <3>1, <3>2, <3>3, <3>4
  <2>3. \A k \in 1..Len(todo') : todo'[k] = "train" <=> k = Len(todo')
    BY <2>1, <2>2
  <2> QED BY <2>1, <2>3 DEF TodoInv
<1>3. CASE PolicyNext
  <2>1. CASE TurnTo
    BY <1>1, <2>1 DEF TurnTo
  <2>2. CASE Start
    <3>1. todo \in Seq(Calls) /\ todo # << >> /\ todo' = Tail(todo) /\ UNCHANGED steps
      BY <2>2 DEF Start, PolicyTypes
    <3>2. call' = todo[1] \/ call' = "error"
      BY <2>2, <3>1 DEF Start
    <3>3. steps = << >>
      BY <3>1 DEF TodoInv
    <3>4. /\ Len(todo) \in Nat \ {0} /\ Len(todo') = Len(todo) - 1 /\ todo' \in Seq(Calls)
          /\ \A k \in 1..Len(todo') : todo'[k] = todo[k + 1]
      BY <3>1
    <3>5. ASSUME NEW k \in 1..Len(todo') PROVE todo'[k] = "train" <=> k = Len(todo')
      <4>1. k + 1 \in 1..Len(todo) /\ (k + 1 = Len(todo) <=> k = Len(todo'))
        BY <3>4
      <4> QED BY <3>4, <4>1 DEF TodoInv
    <3>6. call' = "train" => todo' = << >>
      <4>1. SUFFICES ASSUME todo[1] = "train" PROVE todo' = << >>
        BY <3>2
      <4>2. 1 = Len(todo)
        BY <3>4, <4>1 DEF TodoInv
      <4>3. Len(todo') = 0
        <5>1. Len(todo') = Len(todo) - 1
          BY <3>4
        <5>2. Len(todo') = 1 - 1
          BY <4>2, <5>1
        <5> QED BY <5>2
      <4> QED BY <3>4, <4>3
    <3> QED BY <3>1, <3>3, <3>5, <3>6 DEF TodoInv
  <2>3. CASE ForwardPass
    <3>1. PICK group \in SUBSET Shard : Infers(group) \/ Trains(group)
      BY <2>3, PassIs
    <3> QED BY <1>1, <3>1 DEF Infers, Trains, Advances
  <2>4. ASSUME NEW s \in Shard, FinishShard(s) PROVE TodoInv'
    BY <1>1, <2>4 DEF FinishShard
  <2>5. CASE EndGlobalBatch
    <3>1. call = "train" /\ UNCHANGED <<todo, call>>
      BY <2>5 DEF EndGlobalBatch
    <3> QED BY <3>1 DEF TodoInv
  <2>6. CASE Return
    BY <2>6 DEF Return, TodoInv
  <2> QED BY <1>3, <2>1, <2>2, <2>3, <2>4, <2>5, <2>6 DEF PolicyNext, PolicyStep
<1> QED BY <1>1, <1>2, <1>3, StepIs DEF policyVars

\* Training starts with nothing.
LEMMA TrainingStarts ==
    ASSUME PolicyTypes, TodoInv, Start PROVE TrainInv'
<1> SUFFICES ASSUME call' = "train" PROVE TrainInv'
  BY DEF TrainInv
<1>1. /\ microBatch' = [s \in Shard |-> 0] /\ finished' = {} /\ globalBatch' = 1
      /\ results' = [w \in CalledWorkers |-> << >>] /\ gradients' = NoGradients
      /\ UNCHANGED <<policy, lengths, valid, evalMode, steps>>
  <2>1. PICK size \in BatchSizes(Head(todo)) : \E order \in Orders(size) :
            IF Refused(size, Tokens(Head(todo)), order)
            THEN call' = "error"
            ELSE results' = [w \in CalledWorkers |-> << >>] /\ globalBatch' = 1
    BY DEF Start
  <2> QED BY <2>1 DEF Start
<1>2. /\ CalledWorkers' = CalledWorkers /\ Shard' = Shard /\ Row' = Row
      /\ \A w : ShardOfWorker(w)' = ShardOfWorker(w) /\ (LastStage(w)' <=> LastStage(w))
  BY <1>1, SameWorkers DEF Shard, Row
<1>3. steps' = << >>
  BY <1>1 DEF Start, TodoInv
<1>4. ASSUME NEW w \in CalledWorkers
      PROVE  Lists(results[w], {"policy"} \X Trained(ShardOfWorker(w), globalBatch, CameTo(w)))'
  <2>1. ShardOfWorker(w) \in Shard
    <3>1. policy \in Configurations(algorithm)
      BY DEF Start, PolicyTypes
    <3> QED BY <3>1, CalledAre
  <2>2. results'[w] = << >>
    BY <1>1
  <2>3. CameTo(w)' = 0
    BY <1>1, <1>2, <2>1 DEF CameTo
  <2>4. Trained(ShardOfWorker(w), globalBatch, CameTo(w))' = {}
    <3>1. 1..0 = {} /\ 1..(1 - 1) = {}
      OBVIOUS
    <3> QED BY <1>1, <2>3, <3>1 DEF Trained, Earlier, Through
  <2>5. ({"policy"} \X Trained(ShardOfWorker(w), globalBatch, CameTo(w)))' = {}
    BY <2>4
  <2> QED BY <2>2, <2>5 DEF Lists
<1>5. gradients' = Once(Entered)'
  <2>1. Entered' = {}
    <3>1. 1..0 = {}
      OBVIOUS
    <3> QED BY <1>1, <1>2, <3>1 DEF Entered, Through, Shard
  <2>2. Once(Entered)' = [i \in Row |-> 0]
    BY <1>2, <2>1 DEF Once
  <2> QED BY <1>1, <2>2 DEF NoGradients
<1>6. DOMAIN results' = CalledWorkers' /\ Len(steps') = globalBatch' - 1
  BY <1>1, <1>2, <1>3
<1> QED BY <1>1, <1>2, <1>3, <1>4, <1>5, <1>6 DEF TrainInv

\* Every step keeps to what a worker group has trained on.
LEMMA TrainStep ==
    PolicyTypes /\ WeightsInv /\ PlanInv /\ ProgressInv /\ TrainInv /\ TodoInv /\ StepsTaken /\ [Next]_vars
        => TrainInv'
<1> SUFFICES ASSUME PolicyTypes, WeightsInv, PlanInv, ProgressInv, TrainInv, TodoInv, StepsTaken, [Next]_vars
             PROVE  TrainInv'
  OBVIOUS
<1>c. call \in Calls => Callable(MaxSeqLen) /\ DividedInv
  BY PlansDivide DEF PlanInv
<1>t. "train" \in Calls /\ valid \in 0..Len(lengths)
  BY DEF Calls, PolicyTypes
<1>1. CASE UNCHANGED policyVars
  <2>1. /\ UNCHANGED <<policy, lengths, valid, evalMode, call, plan, globalBatch, microBatch, finished, results,
                        gradients, steps>>
    BY <1>1 DEF policyVars
  <2>2. /\ CalledWorkers' = CalledWorkers /\ Shard' = Shard
        /\ \A w : ShardOfWorker(w)' = ShardOfWorker(w) /\ (LastStage(w)' <=> LastStage(w))
    BY <2>1, SameWorkers DEF Shard
  <2>3. Once(Entered)' = Once(Entered)
    BY <2>1, <2>2 DEF Once, Entered, Through, Row, Shard
  <2>4. \A w : Lists(results[w], {"policy"} \X Trained(ShardOfWorker(w), globalBatch, CameTo(w)))'
                   <=> Lists(results[w], {"policy"} \X Trained(ShardOfWorker(w), globalBatch, CameTo(w)))
    <3>1. ASSUME NEW w
          PROVE  Trained(ShardOfWorker(w), globalBatch, CameTo(w))' = Trained(ShardOfWorker(w), globalBatch, CameTo(w))
      <4>1. CameTo(w)' = CameTo(w) /\ ShardOfWorker(w)' = ShardOfWorker(w)
        BY <2>1, <2>2 DEF CameTo
      <4>2. Trained(ShardOfWorker(w), globalBatch, CameTo(w))' = Trained(ShardOfWorker(w)', globalBatch', CameTo(w)')
        BY <2>1 DEF Trained, Earlier, Through
      <4> QED BY <2>1, <4>1, <4>2
    <3> QED BY <2>1, <3>1 DEF Lists
  <2> QED BY <2>1, <2>2, <2>3, <2>4 DEF TrainInv
<1>2. CASE rollout # "handed" /\ (Flatten \/ Collate)
  BY <1>2, HandIs DEF TrainInv
<1>3. CASE PolicyNext
  <2>1. CASE TurnTo
    BY <2>1 DEF TurnTo, TrainInv
  <2>2. CASE Start
    BY <2>2, TrainingStarts
  <2>3. CASE ForwardPass
    <3>1. PICK group \in SUBSET Shard : Infers(group) \/ Trains(group)
      BY <2>3, PassIs
    <3>2. CASE Infers(group)
      BY <3>2 DEF Infers, Advances, TrainInv
    <3>3. CASE Trains(group)
      <4>1. call \in Calls
        BY <1>t, <3>3 DEF Trains
      <4> QED BY <1>c, <1>t, <3>3, <4>1, TrainingPasses
    <3> QED BY <3>1, <3>2, <3>3
  <2>4. ASSUME NEW s \in Shard, FinishShard(s) PROVE TrainInv'
    BY <2>4 DEF FinishShard, TrainInv
  <2>5. CASE EndGlobalBatch
    <3>1. call \in Calls
      BY <1>t, <2>5 DEF EndGlobalBatch
    <3> QED BY <1>c, <1>t, <2>5, <3>1, TrainingEnds
  <2>6. CASE Return
    BY <2>6 DEF Return, TrainInv
  <2> QED BY <1>3, <2>1, <2>2, <2>3, <2>4, <2>5, <2>6 DEF PolicyNext, PolicyStep
<1> QED BY <1>1, <1>2, <1>3, StepIs

\* Every step keeps the optimizer steps.
LEMMA StepsStep ==
    PolicyTypes /\ HandedInv /\ PlanInv /\ ProgressInv /\ TrainInv /\ TodoInv /\ StepsTaken /\ [Next]_vars
        => StepsTaken'
<1> SUFFICES ASSUME PolicyTypes, HandedInv, PlanInv, ProgressInv, TrainInv, TodoInv, StepsTaken, [Next]_vars
             PROVE  StepsTaken'
  OBVIOUS
<1>c. call \in Calls => Callable(MaxSeqLen) /\ DividedInv
  BY PlansDivide DEF PlanInv
<1>t. "train" \in Calls /\ valid \in 0..Len(lengths) /\ "none" \notin Calls
  BY DEF Calls, LogprobCalls, PolicyTypes
<1>n. ASSUME steps' = << >> PROVE StepsTaken'
  BY <1>n DEF StepsTaken
<1>1. ASSUME UNCHANGED <<lengths, valid, steps>>, NumSteps' = NumSteps PROVE StepsTaken'
  <2>1. Row' = Row
    BY <1>1 DEF Row
  <2>2. \A g : GlobalBatch(g)' = GlobalBatch(g)
    BY <1>1, <2>1 DEF GlobalBatch
  <2> QED BY <1>1, <2>1, <2>2 DEF StepsTaken, Once
<1>2. ASSUME UNCHANGED <<lengths, valid, steps, plan>> PROVE StepsTaken'
  BY <1>1, <1>2 DEF NumSteps
<1>3. CASE rollout # "handed" /\ (Flatten \/ Collate)
  BY <1>3, <1>n, HandIs DEF HandedInv
<1>4. CASE PolicyNext
  <2>1. CASE TurnTo
    BY <1>2, <2>1 DEF TurnTo
  <2>2. CASE Start
    BY <1>n, <2>2 DEF Start, TodoInv
  <2>3. CASE ForwardPass
    <3>1. PICK group \in SUBSET Shard : Infers(group) \/ Trains(group)
      BY <2>3, PassIs
    <3> QED BY <1>2, <3>1 DEF Infers, Trains, Advances
  <2>4. ASSUME NEW s \in Shard, FinishShard(s) PROVE StepsTaken'
    BY <1>2, <2>4 DEF FinishShard
  <2>5. CASE EndGlobalBatch
    <3>1. call \in Calls
      BY <1>t, <2>5 DEF EndGlobalBatch
    <3> QED BY <1>c, <1>t, <2>5, <3>1, TrainingEnds
  <2>6. CASE Return
    <3>1. CASE steps = << >>
      BY <1>n, <2>6, <3>1 DEF Return
    <3>2. CASE steps # << >>
      <4>1. call = "train" /\ call \in Calls /\ finished = Shard
        BY <1>t, <2>6, <3>2 DEF Return, TodoInv, PolicyTypes
      <4>2. 1 \in Shard
        BY PolicyConstants DEF Shard
      <4>3. Len(steps) = globalBatch
        BY <3>2, <4>1, <4>2 DEF TrainInv
      <4>4. globalBatch = Len(plan[1]) /\ plan # << >>
        <5>1. globalBatch = Len(plan[1])
          BY <4>1, <4>2 DEF ProgressInv
        <5>2. plan # << >>
          BY <1>c, <4>1, CallOnceEach
        <5> QED BY <5>1, <5>2
      <4>5. plan' = << >> /\ UNCHANGED <<lengths, valid, steps>>
        BY <2>6 DEF Return
      <4>6. NumSteps' = NumSteps
        BY <4>3, <4>4, <4>5 DEF NumSteps
      <4> QED BY <1>1, <4>5, <4>6
    <3> QED BY <3>1, <3>2
  <2> QED BY <1>4, <2>1, <2>2, <2>3, <2>4, <2>5, <2>6 DEF PolicyNext, PolicyStep
<1>5. CASE UNCHANGED policyVars
  BY <1>2, <1>5 DEF policyVars
<1> QED BY <1>3, <1>4, <1>5, StepIs

\* What training returns is about every row that counts, once.
TrainOutputs == "train" \in DOMAIN outputs => Lists(outputs["train"], {"policy"} \X (1..valid))

\* What it has collected from the shards when it returns.
LEMMA TrainingCollected ==
    ASSUME Callable(MaxSeqLen), DividedInv, ProgressInv, TrainInv, call = "train", finished = Shard,
           valid \in 0..Len(lengths)
    PROVE  Lists(Gathered(Layout, ReturningWorkers, results), {"policy"} \X (1..valid))
<1> DEFINE n == Len(lengths)
           N == Len(plan[1])
           T == {"policy"} \X (1..valid)
           pieces == [s \in Shard |-> results[Head0(s)]]
           sets == [s \in Shard |-> {"policy"} \X Trained(s, N, Len(plan[s][N]))]
<1>1. call \in Calls /\ 1 \in Shard /\ Shard = 1..Shards /\ Shards \in Nat
  BY PolicyConstants DEF Calls, Shard
<1>2. n \in Nat /\ Row = 1..n /\ OnceEach(n) /\ N \in Nat \ {0} /\ N \in 1..N
  <2>1. n \in Nat /\ Row = 1..n /\ OnceEach(n)
    BY <1>1, CallOnceEach
  <2>2. N \in Nat \ {0}
    BY <2>1 DEF OnceEach
  <2> HIDE DEF N
  <2> QED BY <2>1, <2>2
<1>3. globalBatch = N /\ \A s \in Shard : microBatch[s] = Len(plan[s][N])
  <2>1. globalBatch = N
    BY <1>1 DEF ProgressInv
  <2> QED BY <1>1, <2>1 DEF ProgressInv, Mine
<1>4. ASSUME NEW s \in Shard PROVE Lists(pieces[s], sets[s])
  <2>1. Head0(s) \in CalledWorkers /\ ShardOfWorker(Head0(s)) = s
    BY ReturningAre DEF Callable
  <2>2. CameTo(Head0(s)) = Len(plan[s][N])
    <3>1. finished # {}
      BY <1>1
    <3> QED BY <1>3, <2>1, <3>1 DEF CameTo
  <2>3. Lists(results[Head0(s)], {"policy"} \X Trained(s, N, Len(plan[s][N])))
    <3>1. Lists(results[Head0(s)], {"policy"} \X Trained(ShardOfWorker(Head0(s)), globalBatch, CameTo(Head0(s))))
      BY <2>1 DEF TrainInv
    <3> QED BY <1>3, <2>1, <2>2, <3>1
  <2> QED BY <2>3
<1> HIDE DEF n, N
<1>5. ASSUME NEW s \in Shard, NEW i, Earlier(s, N, i) \/ Through(s, N, Len(plan[s][N]), i)
      PROVE  \E g \in 1..N : Through(s, g, Len(plan[s][g]), i)
  <2>1. CASE Through(s, N, Len(plan[s][N]), i)
    BY <1>2, <2>1
  <2>2. CASE Earlier(s, N, i)
    <3>1. PICK g \in 1..(N - 1) : Through(s, g, Len(plan[s][g]), i)
      BY <2>2 DEF Earlier
    <3>2. g \in 1..N
      BY <1>2
    <3> QED BY <3>1, <3>2
  <2> QED BY <1>5, <2>1, <2>2
<1>6. ASSUME NEW s \in Shard, NEW g \in 1..N, NEW i, Through(s, g, Len(plan[s][g]), i)
      PROVE  Earlier(s, N, i) \/ Through(s, N, Len(plan[s][N]), i)
  <2>1. CASE g = N
    BY <1>6, <2>1
  <2>2. CASE g # N
    <3>1. g \in 1..(N - 1)
      BY <1>2, <2>2
    <3> QED BY <1>6, <3>1 DEF Earlier
  <2> QED BY <2>1, <2>2
<1>7. \A s, t \in Shard : s # t => Trained(s, N, Len(plan[s][N])) \cap Trained(t, N, Len(plan[t][N])) = {}
  <2>1. SUFFICES ASSUME NEW s \in Shard, NEW t \in Shard, NEW i,
                        Earlier(s, N, i) \/ Through(s, N, Len(plan[s][N]), i),
                        Earlier(t, N, i) \/ Through(t, N, Len(plan[t][N]), i)
                 PROVE  s = t
    BY DEF Trained
  <2>2. PICK g \in 1..N : Through(s, g, Len(plan[s][g]), i)
    BY <1>5, <2>1
  <2>3. PICK h \in 1..N : Through(t, h, Len(plan[t][h]), i)
    BY <1>5, <2>1
  <2> QED BY <1>2, <2>2, <2>3 DEF OnceEach, N
<1>8. \A i \in 1..valid : \E s \in Shard : i \in Trained(s, N, Len(plan[s][N]))
  <2> SUFFICES ASSUME NEW i \in 1..valid PROVE \E s \in Shard : Earlier(s, N, i) \/ Through(s, N, Len(plan[s][N]), i)
    BY DEF Trained
  <2>1. i \in 1..n
    <3>1. valid \in 0..n
      BY DEF n
    <3> QED BY <1>2, <3>1
  <2>2. PICK g \in 1..N : i \in GlobalBatch(g)
    BY <1>2, <2>1 DEF OnceEach, N
  <2>3. PICK s \in Shard : Through(s, g, Len(plan[s][g]), i)
    BY <1>2, <2>2 DEF OnceEach, N
  <2> QED BY <1>6, <2>3
<1>9. \A s \in Shard : Trained(s, N, Len(plan[s][N])) \subseteq 1..valid
  BY DEF Trained
<1>10. /\ \A s, t \in Shard : s # t => sets[s] \cap sets[t] = {}
       /\ T = UNION {sets[s] : s \in Shard}
  <2> DEFINE R(s) == Trained(s, N, Len(plan[s][N]))
             V == 1..valid
  <2>1. /\ \A s, t \in Shard : s # t => R(s) \cap R(t) = {}
        /\ \A i \in V : \E s \in Shard : i \in R(s)
        /\ \A s \in Shard : R(s) \subseteq V
        /\ \A s \in Shard : sets[s] = {"policy"} \X R(s) 
    BY <1>7, <1>8, <1>9
  <2>2. T = {"policy"} \X V
    OBVIOUS
  <2> HIDE DEF R, V, sets, T
  <2>3. ASSUME NEW s \in Shard, NEW t \in Shard, s # t PROVE sets[s] \cap sets[t] = {}
    <3>1. R(s) \cap R(t) = {} /\ sets[s] = {"policy"} \X R(s) /\ sets[t] = {"policy"} \X R(t)
      BY <2>1, <2>3
    <3> QED BY <3>1
  <2>4. ASSUME NEW x \in T PROVE \E s \in Shard : x \in sets[s]
    <3>1. PICK i \in V : x = <<"policy", i>>
      BY <2>2
    <3>2. PICK s \in Shard : i \in R(s)
      BY <2>1
    <3> QED BY <2>1, <3>1, <3>2
  <2>5. ASSUME NEW s \in Shard, NEW x \in sets[s] PROVE x \in T
    <3>1. x \in {"policy"} \X R(s) /\ R(s) \subseteq V
      BY <2>1
    <3> QED BY <2>2, <3>1
  <2> QED BY <2>3, <2>4, <2>5
<1>11. pieces \in [Shard -> Seq(T)]
  <2>1. ASSUME NEW s \in Shard PROVE pieces[s] \in Seq(T)
    <3> DEFINE S == sets[s]
               p == pieces[s]
    <3>1. Lists(p, S) /\ S \subseteq T
      BY <1>4, <1>10
    <3> HIDE DEF S, T, p
    <3>2. p \in Seq(S)
      BY <3>1 DEF Lists
    <3>3. p \in Seq(T)
      BY <3>1, <3>2
    <3> QED BY <3>3 DEF p
  <2> HIDE DEF T
  <2> QED BY <2>1
<1>12. /\ Gathered(Layout, ReturningWorkers, results) = FlattenSeq(pieces)
  <2>1. policy \in Configurations(algorithm) /\ pieces = [s \in Shard |-> results[Head0(s)]]
    BY DEF Callable
  <2> HIDE DEF pieces, T
  <2> QED BY <1>11, <2>1, GatheredShards
<1>13. Lists(FlattenSeq(pieces), T)
  <2> DEFINE m == Shards
             flat == FlattenSeq(pieces)
  <2>1. m \in Nat
    BY <1>1
  <2>2. pieces \in [1..m -> Seq(T)]
    BY <1>1, <1>11
  <2>3. \A s \in 1..m : Lists(pieces[s], sets[s])
    BY <1>1, <1>4
  <2>4. \A s, t \in 1..m : s # t => sets[s] \cap sets[t] = {}
    BY <1>1, <1>10
  <2>5. T = UNION {sets[s] : s \in 1..m}
    BY <1>1, <1>10
  <2> HIDE DEF m, pieces, sets, T
  <2>6. Parted(pieces, m, sets, T)
    BY <2>3, <2>4, <2>5 DEF Parted
  <2> QED BY ONLY <2>1, <2>2, <2>6, FlattenLists
<1> QED BY <1>12, <1>13

\* Every step keeps what training returned.
LEMMA TrainOutputsStep ==
    PolicyTypes /\ HandedInv /\ PlanInv /\ ProgressInv /\ TrainInv /\ TrainOutputs /\ [Next]_vars => TrainOutputs'
<1> SUFFICES ASSUME PolicyTypes, HandedInv, PlanInv, ProgressInv, TrainInv, TrainOutputs, [Next]_vars
             PROVE  TrainOutputs'
  OBVIOUS
<1>1. ASSUME UNCHANGED <<valid, outputs>> PROVE TrainOutputs'
  BY <1>1 DEF TrainOutputs
<1>2. CASE UNCHANGED policyVars
  BY <1>1, <1>2 DEF policyVars
<1>3. CASE rollout # "handed" /\ (Flatten \/ Collate)
  <2>1. outputs' = << >>
    BY <1>3, HandIs DEF HandedInv
  <2> QED BY <2>1 DEF TrainOutputs
<1>4. CASE PolicyNext
  <2>1. CASE TurnTo \/ Start
    BY <1>1, <2>1 DEF TurnTo, Start
  <2>2. CASE PolicyStep /\ ~Return
    BY <1>1, <2>2, WorkIs DEF AtWork
  <2>3. CASE Return
    <3> DEFINE collected == Gathered(Layout, ReturningWorkers, results)
    <3>1. /\ outputs' = [name \in DOMAIN outputs \cup {call} |->
                IF name # call THEN outputs[name]
                ELSE IF call = "train" THEN collected ELSE Reordered(collected)]
          /\ UNCHANGED valid /\ call \in Calls /\ finished = Shard /\ valid \in 0..Len(lengths)
      BY <2>3 DEF Return, PolicyTypes
    <3>2. CASE call = "train"
      <4>1. Callable(MaxSeqLen) /\ DividedInv
        BY <3>1, PlansDivide DEF PlanInv
      <4>2. Lists(collected, {"policy"} \X (1..valid))
        BY <3>1, <3>2, <4>1, TrainingCollected
      <4> HIDE DEF collected
      <4>3. outputs'["train"] = collected
        BY <3>1, <3>2
      <4> QED BY <3>1, <4>2, <4>3 DEF TrainOutputs
    <3>3. CASE call # "train"
      <4> HIDE DEF collected
      <4>1. "train" \in DOMAIN outputs' => "train" \in DOMAIN outputs /\ outputs'["train"] = outputs["train"]
        BY <3>1, <3>3
      <4> QED BY <3>1, <4>1 DEF TrainOutputs
    <3> QED BY <3>2, <3>3
  <2> QED BY <1>4, <2>1, <2>2, <2>3 DEF PolicyNext
<1> QED BY <1>2, <1>3, <1>4, StepIs

\* A list has each of its elements once.
LEMMA ListedOnce ==
    ASSUME NEW S, NEW list, Lists(list, S), NEW x
    PROVE  Cardinality({k \in DOMAIN list : list[k] = x}) = IF x \in S THEN 1 ELSE 0
<1> DEFINE K == {k \in DOMAIN list : list[k] = x}
<1>1. DOMAIN list = 1..Len(list) /\ \A k \in 1..Len(list) : list[k] \in S
  BY DEF Lists
<1>2. CASE x \in S
  <2>1. PICK k \in 1..Len(list) : list[k] = x
    BY <1>2 DEF Lists
  <2>2. \A l \in 1..Len(list) : list[l] = x => l = k
    BY <2>1 DEF Lists
  <2>3. K = {k}
    BY <1>1, <2>1, <2>2
  <2>4. Cardinality({k}) = 1
    BY FS_Singleton
  <2> QED BY <1>2, <2>3, <2>4
<1>3. CASE x \notin S
  <2>1. K = {}
    BY <1>1, <1>3
  <2>2. Cardinality({}) = 0
    BY FS_EmptySet
  <2> QED BY <1>3, <2>1, <2>2
<1> QED BY <1>2, <1>3

\* The inductive invariant of training.
WorkInv == TrainInv /\ TodoInv /\ StepsTaken /\ TrainOutputs

\* Every step keeps the invariant of the work.
LEMMA WorkStep == ExperienceInv /\ CallInv /\ WorkInv /\ [Next]_vars => WorkInv'
<1> SUFFICES ASSUME ExperienceInv, CallInv, WorkInv, [Next]_vars PROVE WorkInv'
  OBVIOUS
<1>1. PolicyTypes /\ WeightsInv
  BY DEF ExperienceInv
<1>2. TrainInv' /\ TodoInv'
  BY <1>1, TrainStep, TodoStep DEF CallInv, WorkInv
<1>3. StepsTaken' /\ TrainOutputs'
  BY <1>1, StepsStep, TrainOutputsStep DEF CallInv, WorkInv
<1> QED BY <1>2, <1>3 DEF WorkInv

\* Nothing is done at first.
LEMMA WorkBegins == Init => WorkInv
<1> SUFFICES ASSUME Init PROVE WorkInv
  OBVIOUS
<1>1. outputs = << >> /\ steps = << >> /\ call = "none" /\ todo = << >>
  BY DEF Init, PolicyInit
<1>2. TodoInv /\ TrainInv /\ TrainOutputs
  BY <1>1 DEF TodoInv, TrainInv, TrainOutputs
<1>3. StepsTaken
  BY <1>1 DEF StepsTaken
<1> QED BY <1>2, <1>3 DEF WorkInv

\* Whatever is not refused is equal work: all shards run as many microbatches, none of them
\* empty, too large or without the partner of a row, and each optimizer step, as well as what
\* training returns, has each of its rows once and no padding.
THEOREM WorkIsEqual == Spec => [](call # "error" => EqualWork)
<1>1. ExperienceInv /\ CallInv /\ WorkInv => (call # "error" => EqualWork)
  <2> SUFFICES ASSUME ExperienceInv, CallInv, WorkInv, call # "error" PROVE EqualWork
    OBVIOUS
  <2>1. PlanIsEqual
    BY PlansAreEqual DEF CallInv
  <2>2. \A g \in DOMAIN steps : steps[g] = Once({i \in GlobalBatch(g) : i <= valid})
    BY DEF WorkInv, StepsTaken
  <2>3. ASSUME "train" \in DOMAIN outputs
        PROVE  [i \in Row |-> Cardinality({k \in DOMAIN outputs["train"] :
                    outputs["train"][k] = <<"policy", i>>})] = Once(1..valid)
    <3> DEFINE list == outputs["train"]
               S == {"policy"} \X (1..valid)
    <3>1. Lists(list, S)
      BY <2>3 DEF WorkInv, TrainOutputs
    <3>2. \A i : <<"policy", i>> \in S <=> i \in 1..valid
      OBVIOUS
    <3> HIDE DEF list, S
    <3>3. \A x : Cardinality({k \in DOMAIN list : list[k] = x}) = IF x \in S THEN 1 ELSE 0
      BY <3>1, ListedOnce
    <3>4. \A i : Cardinality({k \in DOMAIN list : list[k] = <<"policy", i>>}) = IF i \in 1..valid THEN 1 ELSE 0
      BY <3>2, <3>3
    <3>5. [i \in Row |-> Cardinality({k \in DOMAIN list : list[k] = <<"policy", i>>})]
              = [i \in Row |-> IF i \in 1..valid THEN 1 ELSE 0]
      BY <3>4
    <3> QED BY <3>5 DEF Once, list
  <2> QED BY <2>1, <2>2, <2>3 DEF EqualWork, PlanIsEqual
<1>2. Init => ExperienceInv /\ CallInv /\ WorkInv
  BY ExperienceBegins, CallBegins, WorkBegins
<1>3. ExperienceInv /\ CallInv /\ WorkInv /\ [Next]_vars => ExperienceInv' /\ CallInv' /\ WorkInv'
  BY ExperienceStep, CallStep, WorkStep
<1> QED BY <1>1, <1>2, <1>3, PTL DEF Spec
=============================================================================
