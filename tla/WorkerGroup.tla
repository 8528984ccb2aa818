----------------------------- MODULE WorkerGroup -----------------------------
(***************************************************************************)
(* How a call reaches the workers of a RayWorkerGroup and how its results  *)
(* come back (run_all_workers_sharded_data and get_all_worker_results in   *)
(* nemo_rl/distributed/worker_groups.py, NamedSharding in                  *)
(* nemo_rl/distributed/named_sharding.py).  A layout is a sequence of named *)
(* axes, the outermost first; workers are numbered from 0 through it.      *)
(***************************************************************************)
EXTENDS Integers, Sequences, FiniteSets, SequencesExt

Axis(name, size) == [name |-> name, size |-> size]
Names(layout) == {layout[a].name : a \in DOMAIN layout}

\* The product of the sizes from axis a on.
Span(layout, a) == FoldLeft(LAMBDA n, axis : n * axis.size, 1, SubSeq(layout, a, Len(layout)))
Workers(layout) == 0..(Span(layout, 1) - 1)

Coordinate(layout, w, name) ==
    LET a == SelectInSeq(layout, LAMBDA axis : axis.name = name)
    IN  (w \div Span(layout, a + 1)) % layout[a].size

\* On a free axis, neither sharded nor replicated, only index 0 is called.
Called(layout, sharded, replicated) ==
    {w \in Workers(layout) : \A name \in Names(layout) \ (sharded \cup replicated) :
        Coordinate(layout, w, name) = 0}

\* Of copies of a result only the one at index 0 is taken.
Returning(layout, called, outputReplicated) ==
    {w \in called : \A name \in outputReplicated : Coordinate(layout, w, name) = 0}

\* The results one after the other, in the order of the workers.
Gathered(layout, workers, results) ==
    FlattenSeq([k \in 1..Span(layout, 1) |->
        IF k - 1 \in workers THEN results[k - 1] ELSE << >>])

\* The elements of a sequence that pass a test, in their order.
Those(seq, Test(_)) ==
    FlattenSeq([k \in DOMAIN seq |-> IF Test(seq[k]) THEN <<seq[k]>> ELSE << >>])
=============================================================================
