------------------------------- MODULE Operator -------------------------------
(***************************************************************************)
(* The operator process of operator/index.ts: the NewTaskCreated handler,  *)
(* the block watcher that closes a window, and the processBatch calls it   *)
(* leaves running.  Between two awaits the code runs alone, so one action  *)
(* is one stretch of code from an await to the next; any number of         *)
(* handlers and of processBatch calls may be suspended at once.            *)
(*                                                                         *)
(* Whatever a promise gives, a value or an error, comes from outside: the  *)
(* node, the quoter, the wallet.  What is matched in a batch is the matter *)
(* of CoWMatching; here a batch is the tasks it holds.                     *)
(***************************************************************************)
EXTENDS Integers, Sequences

CONSTANTS
    Tasks,                  \* tasks created on chain
    MAX_BLOCKS_PER_BATCH,   \* blocks in a window
    MaxBlock,               \* bound: the last block of a run
    MaxRestarts             \* bound: how often the process is restarted

ASSUME OperatorAssumption ==
    /\ MAX_BLOCKS_PER_BATCH \in Nat \ {0}
    /\ MaxBlock \in Nat
    /\ MaxRestarts \in Nat

VARIABLES
    events,              \* tasks whose NewTaskCreated event has not been delivered
    lookups,             \* tasks whose handler awaits hook.poolKeys
    blockNumber,         \* the last block number onBlockNumber was called with
    latestBatchNumber,   \* as in the code, 0 until the first block is seen
    batches,             \* block number -> the array of tasks, empty when undefined
    running,             \* the processBatch calls in progress
    submissions,         \* the batches sent with respondToBatch, in order
    mined,               \* which of the submissions the chain has accepted
    restarts

operatorVars == <<events, lookups, blockNumber, latestBatchNumber, batches, running,
                  submissions, mined, restarts>>

Blocks == 1..MaxBlock
BatchNumbers == 0..MaxBlock
Phases == {"quoting", "hashing", "signing", "sending"}
Elements(s) == {s[i] : i \in DOMAIN s}

OperatorInit ==
    /\ events = Tasks
    /\ lookups = {}
    /\ blockNumber = 0
    /\ latestBatchNumber = 0
    /\ batches = [b \in BatchNumbers |-> <<>>]
    /\ running = {}
    /\ submissions = <<>>
    /\ mined = {}
    /\ restarts = 0

------------------------------------------------------------------------------
(* The NewTaskCreated handler.  Logs it cannot parse are dropped; else it  *)
(* awaits the pool key.                                                    *)
OnNewTask(t) ==
    /\ t \in events
    /\ events' = events \ {t}
    /\ lookups' \in {lookups, lookups \cup {t}}
    /\ UNCHANGED <<blockNumber, latestBatchNumber, batches, running, submissions, mined, restarts>>

(* The key is there: the task joins the batch that is open now, which need *)
(* not be the one that was open when the event came.                       *)
FileTask(t) ==
    /\ t \in lookups
    /\ lookups' = lookups \ {t}
    /\ batches' = [batches EXCEPT ![latestBatchNumber] = Append(@, t)]
    /\ UNCHANGED <<events, blockNumber, latestBatchNumber, running, submissions, mined, restarts>>

(* The lookup failed: the handler returns and the task is forgotten.       *)
LookupFails(t) ==
    /\ t \in lookups
    /\ lookups' = lookups \ {t}
    /\ UNCHANGED <<events, blockNumber, latestBatchNumber, batches, running, submissions, mined,
                   restarts>>

------------------------------------------------------------------------------
(* Wrong: batches of a single task are not worth processing.               *)
ProcessLargeBatch(b) ==
    running' = IF Len(batches[b]) <= 1 THEN running
               ELSE running \cup {[batch |-> b, phase |-> "quoting",
                                   asked |-> Len(batches[b]), quoted |-> {}]}

(* processBatch up to its first await: one quote is asked for each task.   *)
ProcessBatch(b) ==
    running' = IF batches[b] = <<>> THEN running
               ELSE running \cup {[batch |-> b, phase |-> "quoting",
                                   asked |-> Len(batches[b]), quoted |-> {}]}

(* Whether the window is over at block bn, and the number of the next one. *)
(* The wrong ones wait one block more, and keep the old number.            *)
WindowLate(bn) == bn - latestBatchNumber > MAX_BLOCKS_PER_BATCH
WindowOver(bn) == bn - latestBatchNumber >= MAX_BLOCKS_PER_BATCH
SameBatch(bn) == latestBatchNumber
NewBatch(bn) == bn

(* onBlockNumber: numbers grow, and some may be missed; a process that has *)
(* just started may see the number its predecessor saw last.               *)
OnBlockNumber(bn) ==
    /\ bn > blockNumber \/ (bn = blockNumber /\ latestBatchNumber = 0)
    /\ blockNumber' = bn
    /\ \/ /\ latestBatchNumber = 0
          /\ latestBatchNumber' = bn
          /\ UNCHANGED running
       \/ /\ latestBatchNumber # 0
          /\ WindowOver(bn)
          /\ ProcessBatch(latestBatchNumber)
          /\ latestBatchNumber' = NewBatch(bn)
       \/ /\ latestBatchNumber # 0
          /\ ~WindowOver(bn)
          /\ UNCHANGED <<latestBatchNumber, running>>
    /\ UNCHANGED <<events, lookups, batches, submissions, mined, restarts>>

Advance(r, next) == running' = (running \ {r}) \cup {next}

(* The tasks whose quote is out; the wrong one counts one too many.        *)
OutstandingPast(r) == (1..(r.asked + 1)) \ r.quoted
Outstanding(r) == (1..r.asked) \ r.quoted

(* A quote arrives, or fails and counts as zero; after the last one the    *)
(* batch is matched and the message hash is awaited.                       *)
QuoteSettles(r) ==
    /\ r.phase = "quoting"
    /\ \E i \in Outstanding(r) :
         LET quoted == r.quoted \cup {i}
         IN  Advance(r, [r EXCEPT !.quoted = quoted,
                                  !.phase = IF quoted = 1..r.asked THEN "hashing" ELSE @])
    /\ UNCHANGED <<events, lookups, blockNumber, latestBatchNumber, batches, submissions, mined,
                   restarts>>

FinishKeepsBatch(r) ==    \* wrong: the batch is not deleted
    running' = running \ {r} /\ UNCHANGED batches

(* processBatch ends: whatever became of the answer, the batch is deleted. *)
Finish(r) ==
    /\ running' = running \ {r}
    /\ batches' = [batches EXCEPT ![r.batch] = <<>>]

(* getMessageHash gives the hash, or throws and the answer is given up.    *)
HashSettles(r) ==
    /\ r.phase = "hashing"
    /\ \/ Advance(r, [r EXCEPT !.phase = "signing"]) /\ UNCHANGED batches
       \/ Finish(r)
    /\ UNCHANGED <<events, lookups, blockNumber, latestBatchNumber, submissions, mined, restarts>>

(* The wallet signs, and respondToBatch is sent for every task the array   *)
(* holds now; or it refuses and the answer is given up.                    *)
SignSettles(r) ==
    /\ r.phase = "signing"
    /\ \/ /\ Advance(r, [r EXCEPT !.phase = "sending"])
          /\ submissions' = Append(submissions, batches[r.batch])
          /\ UNCHANGED batches
       \/ /\ Finish(r)
          /\ UNCHANGED submissions
    /\ UNCHANGED <<events, lookups, blockNumber, latestBatchNumber, mined, restarts>>

(* Sending succeeds or fails: both are logged, neither is acted upon.      *)
SendSettles(r) ==
    /\ r.phase = "sending"
    /\ Finish(r)
    /\ UNCHANGED <<events, lookups, blockNumber, latestBatchNumber, submissions, mined, restarts>>

(* The chain accepts a transaction that was sent, early or late.           *)
Mine(k) ==
    /\ k \in DOMAIN submissions \ mined
    /\ mined' = mined \cup {k}
    /\ UNCHANGED <<events, lookups, blockNumber, latestBatchNumber, batches, running, submissions,
                   restarts>>

(* The process exits and is started again: it remembers nothing, and       *)
(* listens for new events only.                                            *)
Restart ==
    /\ restarts < MaxRestarts
    /\ restarts' = restarts + 1
    /\ lookups' = {}
    /\ latestBatchNumber' = 0
    /\ batches' = [b \in BatchNumbers |-> <<>>]
    /\ running' = {}
    /\ UNCHANGED <<events, blockNumber, submissions, mined>>

------------------------------------------------------------------------------
Step(r) == QuoteSettles(r) \/ HashSettles(r) \/ SignSettles(r) \/ SendSettles(r)

MonitorStep ==
    \/ \E t \in Tasks : OnNewTask(t) \/ FileTask(t) \/ LookupFails(t)
    \/ \E bn \in Blocks : OnBlockNumber(bn)
    \/ \E r \in running : Step(r)

OperatorNext ==
    \/ MonitorStep
    \/ \E k \in DOMAIN submissions : Mine(k)
    \/ Restart

(* Every promise processBatch awaits settles: each call of the node, the   *)
(* quoter and the wallet answers or times out.                             *)
BatchStep(b) == \E r \in running : r.batch = b /\ Step(r)
Fairness == \A b \in BatchNumbers : WF_operatorVars(BatchStep(b))

OperatorSpec == OperatorInit /\ [][OperatorNext]_operatorVars /\ Fairness

------------------------------------------------------------------------------
(* Every variable has its type.                                            *)
OperatorTypeOK ==
    /\ events \subseteq Tasks /\ lookups \subseteq Tasks
    /\ blockNumber \in BatchNumbers /\ latestBatchNumber \in BatchNumbers
    /\ batches \in [BatchNumbers -> Seq(Tasks)]
    /\ \A r \in running : /\ r.batch \in Blocks /\ r.phase \in Phases
                          /\ r.quoted \subseteq 1..r.asked
    /\ submissions \in Seq(Seq(Tasks))
    /\ mined \subseteq DOMAIN submissions
    /\ restarts \in 0..MaxRestarts

(* The open window is never longer than MAX_BLOCKS_PER_BATCH: as soon as   *)
(* the watcher is called that late, the batch is on its way and a new one  *)
(* is open, also when block numbers were missed.                           *)
WindowBounded ==
    latestBatchNumber # 0 =>
        /\ latestBatchNumber <= blockNumber
        /\ blockNumber - latestBatchNumber < MAX_BLOCKS_PER_BATCH

(* By the time processBatch matches, signs and sends a batch, every task   *)
(* in the array has had its quote: no handler, however long it waited for  *)
(* its pool key, adds a task to a batch that is being processed.           *)
QuotedBeforeMatched ==
    \A r \in running : r.asked = Len(batches[r.batch])

(* No task goes to respondToBatch twice, though calls of processBatch      *)
(* overlap and the process may be restarted.                               *)
SubmittedOnce ==
    /\ \A j, k \in DOMAIN submissions :
          j # k => Elements(submissions[j]) \cap Elements(submissions[k]) = {}
    /\ \A k \in DOMAIN submissions : \A i, j \in DOMAIN submissions[k] :
          i # j => submissions[k][i] # submissions[k][j]

(* A batch that holds tasks is the open one or is being processed, the     *)
(* batch of block 0 apart: none is left behind when windows close.         *)
WindowsDrain ==
    \A b \in Blocks :
        batches[b] # <<>> => b = latestBatchNumber \/ \E r \in running : r.batch = b

(* Operators collect tasks over a ~10-block window: every batch that holds *)
(* tasks is one that a window will close, or did close.                    *)
NoTaskLeftBehind ==
    \A b \in BatchNumbers :
        batches[b] # <<>> /\ latestBatchNumber # 0 =>
            b = latestBatchNumber \/ \E r \in running : r.batch = b

(* The suspended handlers, the overlapping calls of processBatch and the   *)
(* restarts amount to AtomicBatching: the open array is the open window,   *)
(* and the array of a call that has not sent yet is a closed batch.        *)
Window == Elements(batches[latestBatchNumber])
Unsent == {Elements(batches[r.batch]) : r \in {call \in running : call.phase # "sending"}}

Batching == INSTANCE AtomicBatching WITH
    waiting <- events \cup lookups,
    started <- latestBatchNumber # 0,
    open <- Window,
    closed <- Unsent,
    sent <- [k \in DOMAIN submissions |-> Elements(submissions[k])]

(* A task is never in two batches, joins no batch that is closed, and is   *)
(* submitted with its whole batch and once, or not at all.                 *)
ImplementsBatching == Batching!BatchingSpec

(* A batch that is being processed is in the end cleaned up, whichever of  *)
(* its calls failed, and leaves no array behind.                           *)
BatchesFinish ==
    \A b \in Blocks :
        (\E r \in running : r.batch = b) ~>
            (batches[b] = <<>> /\ \A r \in running : r.batch # b)
=============================================================================
