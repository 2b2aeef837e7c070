----------------------------- MODULE MatchSearch -----------------------------
(***************************************************************************)
(* The matching library of operator/matching.ts: the combinations of a     *)
(* batch (single tasks, and the circles a depth-first search finds), which *)
(* of them are possible, the best result, and the transfers and swaps that *)
(* settle it (computeBalances).  Tasks are numbered from 1.                *)
(***************************************************************************)
EXTENDS Integers, SequencesExt

CONSTANTS
    Currencies,
    Pools,
    PoolKeyOf,     \* [Pools -> [currency0, currency1]]
    Traders,
    None

Task == [poolId : Pools, zeroForOne : BOOLEAN, amountSpecified : Int,
         poolOutputAmount : Nat, sender : Traders]

VARIABLES
    tasks,       \* the batch, which whoever instantiates this module fills
    best,        \* None, then the best result: a combination and its feasibility
    balances     \* None, then its transfers and swaps

InputToken(t) ==
    IF t.zeroForOne THEN PoolKeyOf[t.poolId].currency0 ELSE PoolKeyOf[t.poolId].currency1
OutputToken(t) ==
    IF t.zeroForOne THEN PoolKeyOf[t.poolId].currency1 ELSE PoolKeyOf[t.poolId].currency0

Abs(x) == IF x < 0 THEN -x ELSE x
Feeds(a, b) == OutputToken(tasks[a]) = InputToken(tasks[b])
Connected(path) == \A k \in 1..(Len(path) - 1) : Feeds(path[k], path[k + 1])
Closes(path) == Feeds(path[Len(path)], path[1])

(* findCircularPath: a path of three or more that closes is a match and is *)
(* not extended; any other path is extended by each unused task it feeds.  *)
FindCircularPath[path \in Seq(DOMAIN tasks)] ==
    IF Len(path) >= 3 /\ Closes(path) THEN <<path>>
    ELSE FlattenSeq([k \in DOMAIN tasks |->
            IF k \notin ToSet(path) /\ Feeds(path[Len(path)], k)
            THEN FindCircularPath[Append(path, k)] ELSE <<>>])

(* The search starts at each task; the wrong one at the first only.        *)
MatchesOfFirst == IF Len(tasks) < 3 THEN <<>> ELSE FindCircularPath[<<1>>]
FindCircularMatches ==
    IF Len(tasks) < 3 THEN <<>>
    ELSE FlattenSeq([k \in DOMAIN tasks |-> FindCircularPath[<<k>>]])

GenerateTaskCombinations == [k \in DOMAIN tasks |-> <<k>>] \o FindCircularMatches

IsCombinationPossible(path) ==
    \/ Len(path) = 1
    \/ Len(path) >= 3 /\ Closes(path) /\ Connected(path)

ComputePossibleResult(path) ==
    [tasks |-> path,
     feasibility |-> IF Len(path) = 1 THEN "AMM"
                     ELSE IF Len(path) >= 3 /\ IsCombinationPossible(path) THEN "CIRCULAR"
                     ELSE "NONE"]

(* The first circular result, or else the first AMM result.                *)
ComputeBestResult(results) ==
    LET with(feasibility) == {k \in DOMAIN results : results[k].feasibility = feasibility}
    IN  IF with("CIRCULAR") # {} THEN results[Min(with("CIRCULAR"))]
        ELSE IF with("AMM") # {} THEN results[Min(with("AMM"))] ELSE None

(* An AMM task is given back its input and swapped; in a circle each task  *)
(* has its output paid, in its output token, to the next task's sender.    *)
AmmTransfers(path) ==
    [k \in DOMAIN path |->
        [amount |-> Abs(tasks[path[k]].amountSpecified),
         currency |-> InputToken(tasks[path[k]]),
         sender |-> tasks[path[k]].sender]]

CircularTransfersShort(path) ==    \* wrong: the last task pays nobody
    [k \in 1..(Len(path) - 1) |->
        [amount |-> tasks[path[k]].poolOutputAmount,
         currency |-> OutputToken(tasks[path[k]]),
         sender |-> tasks[path[k + 1]].sender]]

CircularTransfersOpen(path) ==    \* wrong: the last task pays itself, the circle stays open
    [k \in DOMAIN path |->
        [amount |-> tasks[path[k]].poolOutputAmount,
         currency |-> OutputToken(tasks[path[k]]),
         sender |-> tasks[path[IF k < Len(path) THEN k + 1 ELSE k]].sender]]

CircularTransfers(path) ==
    [k \in DOMAIN path |->
        [amount |-> tasks[path[k]].poolOutputAmount,
         currency |-> OutputToken(tasks[path[k]]),
         sender |-> tasks[path[(k % Len(path)) + 1]].sender]]

AmmSwaps(path) ==
    [k \in DOMAIN path |->
        [amountSpecified |-> tasks[path[k]].amountSpecified,
         zeroForOne |-> tasks[path[k]].zeroForOne]]

ComputeBalances(result) ==
    CASE result.feasibility = "AMM" ->
            [transfers |-> AmmTransfers(result.tasks), swaps |-> AmmSwaps(result.tasks)]
      [] result.feasibility = "CIRCULAR" ->
            [transfers |-> CircularTransfers(result.tasks), swaps |-> <<>>]
      [] OTHER -> [transfers |-> <<>>, swaps |-> <<>>]

------------------------------------------------------------------------------
SearchInit ==
    /\ best = None
    /\ balances = None

Search ==
    /\ best = None
    /\ LET combinations == GenerateTaskCombinations
       IN  best' = ComputeBestResult(
                      [k \in DOMAIN combinations |-> ComputePossibleResult(combinations[k])])
    /\ UNCHANGED <<tasks, balances>>

Balance ==
    /\ best # None /\ balances = None
    /\ balances' = ComputeBalances(best)
    /\ UNCHANGED <<tasks, best>>

SearchNext == Search \/ Balance

------------------------------------------------------------------------------
(* Circles by definition: different tasks, three or more, each feeding the *)
(* next and the last the first.                                            *)
Circles ==
    {path \in UNION {[1..m -> DOMAIN tasks] : m \in 3..Len(tasks)} :
        /\ \A k, l \in DOMAIN path : k # l => path[k] # path[l]
        /\ Connected(path) /\ Closes(path)}

(* Every variable has its type, and a best result is a possible one.       *)
SearchTypeOK ==
    /\ tasks \in Seq(Task)
    /\ best # None => IsCombinationPossible(best.tasks) /\ best.feasibility \in {"AMM", "CIRCULAR"}
    /\ balances # None => Len(balances.transfers) = Len(best.tasks)

(* The depth-first search is sound and complete where it counts: the best  *)
(* result is a circle of the batch whenever the batch has any, although    *)
(* the search stops at the first way to close a path and backtracks over   *)
(* the tasks it has used.                                                  *)
FindsACircle ==
    best # None =>
        IF Circles # {} THEN best.feasibility = "CIRCULAR" /\ best.tasks \in Circles
        ELSE best.feasibility = "AMM"

(* In a circle, whichever tasks are one trader's, each trader is paid as   *)
(* often as it has tasks, and each currency is paid out as often as a task *)
(* gave it up: nothing is paid that nobody gave.  Which currency a trader  *)
(* gets is not said.                                                       *)
CirclesBalance ==
    balances # None /\ best.feasibility = "CIRCULAR" =>
        LET paid == balances.transfers
            circle == ToSet(best.tasks)
        IN  /\ \A s \in Traders :
                  Cardinality({j \in DOMAIN paid : paid[j].sender = s}) =
                      Cardinality({k \in circle : tasks[k].sender = s})
            /\ \A c \in Currencies :
                  Cardinality({j \in DOMAIN paid : paid[j].currency = c}) =
                      Cardinality({k \in circle : InputToken(tasks[k]) = c})
=============================================================================
