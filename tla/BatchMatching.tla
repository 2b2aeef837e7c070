---------------------------- MODULE BatchMatching ----------------------------
(***************************************************************************)
(* Batches from the traffic script, or of any orders, matched twice: by    *)
(* the passes of processBatch (CoWMatching), and by the library the        *)
(* operator imports to settle what they find (MatchSearch).  A window may  *)
(* close between any two swaps of the script.                              *)
(***************************************************************************)
EXTENDS CoWMatching, TaskTraffic

CONSTANTS
    Traders,
    Senders,        \* who sends the tasks of a batch of any orders: a sequence
    MaxSearched,    \* bound: the longest batch the library searches
    None

ASSUME SenderAssumption == Senders \in Seq(Traders) /\ account \in Traders

(* The script swaps in pools that are there, under the keys it gives.      *)
ASSUME ScriptAssumption ==
    /\ DOMAIN POOL_CONFIGS \subseteq Pools
    /\ \A p \in DOMAIN POOL_CONFIGS : PoolKeyOf[p] = POOL_CONFIGS[p]

VARIABLES
    window,      \* "open" while the batch is filled, "closed" once it is processed
    best,        \* the library's best result for the batch
    balances     \* and its transfers and swaps

libraryVars == <<best, balances>>
batchVars == <<matchVars, trafficVars, window, libraryVars>>

(* What the library knows of a task besides its pool and direction: the    *)
(* sender, one account for all that the script sends, and an amount, equal *)
(* for all here.                                                           *)
SenderOf(k) == IF scenario = NoScenario /\ k \in DOMAIN Senders THEN Senders[k] ELSE account

LibraryTasks ==
    [k \in DOMAIN tasks |->
        [poolId |-> tasks[k].poolId, zeroForOne |-> tasks[k].zeroForOne,
         amountSpecified |-> -1, poolOutputAmount |-> 1, sender |-> SenderOf(k)]]

Library == INSTANCE MatchSearch WITH tasks <- LibraryTasks

EmptyBatch == tasks = <<>> /\ groups = <<>> /\ pass = "circular" /\ i = 1

BatchInit ==
    /\ \/ MatchInit /\ NoTraffic /\ window = "closed"
       \/ EmptyBatch /\ TrafficInit /\ window = "open"
    /\ Library!SearchInit

------------------------------------------------------------------------------
(* A swap of the script becomes a task of the open batch, or the script    *)
(* ends.                                                                   *)
FillBatch ==
    /\ window = "open"
    /\ \/ \E task \in Task : CreateTask(task) /\ tasks' = Append(tasks, task)
       \/ SwapFails /\ UNCHANGED tasks
    /\ UNCHANGED <<groups, pass, i, window, libraryVars>>

(* processBatch returns at once from a batch without tasks.                *)
CloseWindow ==
    /\ window = "open" /\ tasks # <<>>
    /\ window' = "closed"
    /\ UNCHANGED <<matchVars, trafficVars, libraryVars>>

MatchBatch ==
    /\ window = "closed"
    /\ MatchNext
    /\ UNCHANGED <<trafficVars, window, libraryVars>>

SearchBatch ==
    /\ window = "closed" /\ pass = "done" /\ Len(tasks) <= MaxSearched
    /\ UNCHANGED <<matchVars, trafficVars, window>>
    /\ Library!SearchNext

NextWindow ==
    /\ window = "closed" /\ pass = "done" /\ Remaining
    /\ window' = "open"
    /\ tasks' = <<>> /\ groups' = <<>> /\ pass' = "circular" /\ i' = 1
    /\ best' = None /\ balances' = None
    /\ UNCHANGED trafficVars

BatchNext == FillBatch \/ CloseWindow \/ MatchBatch \/ SearchBatch \/ NextWindow

BatchSpec == BatchInit /\ [][BatchNext]_batchVars

------------------------------------------------------------------------------
(* MatchSearch's properties, of the library at work on these batches: its  *)
(* results are possible ones, it finds a circle exactly when there is one, *)
(* and it pays traders and currencies of a circle in their numbers.        *)
SearchTypeOK == Library!SearchTypeOK
FindsACircle == Library!FindsACircle
CirclesBalance == Library!CirclesBalance

(* What becomes of a scenario that falls into one window.  The comments of *)
(* the last two hold: the first three tasks are a circular match, the next *)
(* two a direct one, and the last goes to the AMM.  Those of the first do  *)
(* not: the "2 tasks that can match" of cowMatch, the default scenario,    *)
(* are sent to two pools, and both go to the AMM.                          *)
ScenarioOutcomes ==
    pass = "done" /\ scenario # NoScenario =>
        LET found == {Members(groups[k]) : k \in DOMAIN groups}
        IN  /\ scenario = "cowMatch" /\ Len(tasks) = 2 => found = {{1}, {2}}
            /\ scenario = "circularCow" /\ Len(tasks) = 3 => found = {{1, 2, 3}}
            /\ scenario = "mixedMatching" /\ Len(tasks) = 6 =>
                   found = {{1, 2, 3}, {4, 5}, {6}}
=============================================================================
