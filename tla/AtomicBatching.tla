--------------------------- MODULE AtomicBatching ---------------------------
(***************************************************************************)
(* What the operator promises of the tasks it is told of, in steps of its  *)
(* own size: tasks are collected in one open window; a window that closes  *)
(* is a batch, which nothing joins any more; a batch is submitted whole    *)
(* and once, or dropped whole; a crash loses what has not been submitted.  *)
(* No handlers, awaits or overlapping calls: Operator is shown to          *)
(* implement this.                                                         *)
(***************************************************************************)
EXTENDS Sequences

CONSTANT Tasks

VARIABLES
    waiting,     \* tasks that may still come to a window
    started,     \* whether a block has been seen since the start
    open,        \* the tasks of the open window
    closed,      \* the batches being worked on
    sent         \* the batches submitted, in order

batchingVars == <<waiting, started, open, closed, sent>>

BatchingInit ==
    /\ waiting = Tasks
    /\ started = FALSE
    /\ open = {} /\ closed = {}
    /\ sent = <<>>

(* A task comes to the open window, or never will to any.                  *)
Collect(t) ==
    /\ waiting' = waiting \ {t}
    /\ open' = open \cup {t}
    /\ UNCHANGED <<started, closed, sent>>

Miss(t) ==
    /\ waiting' = waiting \ {t}
    /\ UNCHANGED <<started, open, closed, sent>>

(* The first block begins the first window, without what came before it.   *)
Begin ==
    /\ ~started /\ started' = TRUE
    /\ open' = {}
    /\ UNCHANGED <<waiting, closed, sent>>

Close ==
    /\ started /\ open # {}
    /\ closed' = closed \cup {open}
    /\ open' = {}
    /\ UNCHANGED <<waiting, started, sent>>

Submit(batch) ==
    /\ closed' = closed \ {batch}
    /\ sent' = Append(sent, batch)
    /\ UNCHANGED <<waiting, started, open>>

Drop(batch) ==
    /\ closed' = closed \ {batch}
    /\ UNCHANGED <<waiting, started, open, sent>>

Crash ==
    /\ waiting' \in SUBSET waiting
    /\ started' = FALSE
    /\ open' = {} /\ closed' = {}
    /\ UNCHANGED sent

BatchingNext ==
    \/ \E t \in waiting : Collect(t) \/ Miss(t)
    \/ Begin \/ Close \/ Crash
    \/ \E batch \in closed : Submit(batch) \/ Drop(batch)

BatchingSpec == BatchingInit /\ [][BatchingNext]_batchingVars
=============================================================================
