---------------------------- MODULE AsyncTraining ----------------------------
(***************************************************************************)
(* What asynchronous GRPO promises its training steps, without collector,  *)
(* mailbox or threads: groups appear in a pool, labelled with weights that *)
(* were published; step v trains on exactly NumPrompts of them, all made   *)
(* for step v with weights at most MaxAge steps old, each group at most    *)
(* once; then the weights of step v + 1 are published.  Training may stop  *)
(* at any time.                                                            *)
(***************************************************************************)
EXTENDS Integers, FiniteSets

CONSTANTS NumPrompts, MaxAge, StartStep, MaxNumSteps

VARIABLES
    published,   \* the last version of the weights that generation may use
    pool,        \* the groups nobody has trained on
    made,        \* per target, how many groups were ever made
    busy,        \* a step has taken its groups and not yet published
    stopped

vars == <<published, pool, made, busy, stopped>>

Target == StartStep..(MaxNumSteps + MaxAge)

Init ==
    /\ published = StartStep /\ pool = {} /\ made = [t \in Target |-> 0]
    /\ busy = FALSE /\ stopped = FALSE

Make(target, version, prompt) ==
    /\ version <= published
    /\ pool' = pool \cup {[target |-> target, arrival |-> made[target],
                           version |-> version, prompt |-> prompt]}
    /\ made' = [made EXCEPT ![target] = @ + 1]
    /\ UNCHANGED <<published, busy, stopped>>

InTime(g) == g.target = published /\ g.version \in (published - MaxAge)..published

TakeBatch ==
    /\ ~busy /\ published < MaxNumSteps
    /\ pool' \subseteq pool
    /\ Cardinality(pool \ pool') = NumPrompts
    /\ \A g \in pool \ pool' : InTime(g)
    /\ busy' = TRUE
    /\ UNCHANGED <<published, made, stopped>>

Publish ==
    /\ busy /\ busy' = FALSE
    /\ published' = published + 1
    /\ UNCHANGED <<pool, made, stopped>>

Stop ==
    /\ stopped' = TRUE /\ busy' = FALSE
    /\ UNCHANGED <<published, pool, made>>

Next ==
    /\ ~stopped
    /\ \/ \E target \in Target, version \in StartStep..MaxNumSteps,
             prompt \in 0..(NumPrompts - 1) : Make(target, version, prompt)
       \/ TakeBatch \/ Publish \/ Stop

Spec == Init /\ [][Next]_vars
=============================================================================
