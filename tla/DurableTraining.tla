--------------------------- MODULE DurableTraining ---------------------------
(***************************************************************************)
(* What checkpointing promises a training loop: a counter of the steps that*)
(* are over, and a durable copy of it.  The copy only ever becomes the     *)
(* number of the step at hand, before that step is counted; a job that is  *)
(* launched again goes on from the copy, and from nothing else.            *)
(***************************************************************************)
EXTENDS Naturals

VARIABLES
    done,      \* how many steps are over
    durable    \* how many of them the next launch finds

Init == done = 0 /\ durable = 0

CountStep == done' = done + 1 /\ UNCHANGED durable

SaveStep == durable' = done + 1 /\ UNCHANGED done

GoBack == done' = durable /\ UNCHANGED durable

Next == CountStep \/ SaveStep \/ GoBack

Spec == Init /\ [][Next]_<<done, durable>>
=============================================================================
