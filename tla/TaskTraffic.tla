----------------------------- MODULE TaskTraffic -----------------------------
(***************************************************************************)
(* The traffic script operator/createNewTasks.ts: the swaps of a scenario, *)
(* sent one after the other, each waiting for its receipt.  Of a swap only *)
(* its pool and direction are kept; amounts, price limits and the bytes of *)
(* the hook data decide nothing here.  Swaps are counted from 0, as there. *)
(***************************************************************************)
EXTENDS Integers, Sequences

CONSTANTS
    account,                   \* the script's, the sender of all its orders
    token0, token1, token2,    \* of the hook's deployment
    pool01, pool12, pool02,    \* the ids of the pools of POOL_CONFIGS
    MaxNumTasks,               \* bound: the largest numTasks asked for
    NoScenario                 \* nobody runs the script

ASSUME TrafficAssumption ==
    /\ MaxNumTasks \in Nat \ {0}
    /\ pool01 # pool12 /\ pool12 # pool02 /\ pool01 # pool02

(* The two tokens of each pool; fee, tick spacing and hook are the same.   *)
Config(currency0, currency1) == [currency0 |-> currency0, currency1 |-> currency1]
POOL_CONFIGS ==
    [p \in {pool01, pool12, pool02} |->
        CASE p = pool01 -> Config(token0, token1)
          [] p = pool12 -> Config(token1, token2)
          [] p = pool02 -> Config(token0, token2)]

VARIABLES
    scenario,    \* the scenario being run
    numTasks,    \* how many of its swaps are asked for
    created      \* how many have their receipt: the index i of the loop

trafficVars == <<scenario, numTasks, created>>

(* zeroForOne of each swap.                                                *)
TEST_SCENARIOS ==
    [cowMatch      |-> <<TRUE, FALSE>>,
     circularCow   |-> <<TRUE, TRUE, FALSE>>,
     mixedMatching |-> <<TRUE, TRUE, FALSE, TRUE, FALSE, TRUE>>]

pools == <<pool01, pool12, pool02>>

SequentialPool(i) == pools[(i % Len(pools)) + 1]    \* wrong for mixedMatching
PoolFor(i) ==
    CASE scenario # "mixedMatching" -> pools[(i % Len(pools)) + 1]
      [] scenario = "mixedMatching" /\ i < 3 -> pools[i + 1]
      [] scenario = "mixedMatching" /\ i \in 3..4 -> pool01
      [] OTHER -> pool12

TrafficInit ==
    /\ scenario \in DOMAIN TEST_SCENARIOS
    /\ numTasks \in 1..MaxNumTasks
    /\ created = 0

NoTraffic == scenario = NoScenario /\ numTasks = 0 /\ created = 0

Remaining == scenario # NoScenario /\ created < numTasks /\ created < Len(TEST_SCENARIOS[scenario])

(* One round of the loop: the swap is mined, and its order is task.        *)
CreateTask(task) ==
    /\ Remaining
    /\ task = [poolId |-> PoolFor(created), zeroForOne |-> TEST_SCENARIOS[scenario][created + 1]]
    /\ created' = created + 1
    /\ UNCHANGED <<scenario, numTasks>>

(* The swap or its receipt fails: the script logs the error and exits.     *)
SwapFails ==
    /\ Remaining
    /\ numTasks' = created
    /\ UNCHANGED <<scenario, created>>
=============================================================================
