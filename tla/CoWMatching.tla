----------------------------- MODULE CoWMatching -----------------------------
(***************************************************************************)
(* How processBatch of operator/index.ts groups the tasks of a batch: one  *)
(* look for a circular match among the first three tasks, one pass over    *)
(* the batch that pairs each task with the first later task of the same    *)
(* pool and the opposite direction, and everything else to the AMM.        *)
(* Tasks are numbered from 1 here, from 0 in the code.                     *)
(***************************************************************************)
EXTENDS Integers, Sequences, FiniteSetsExt

CONSTANTS
    Currencies,
    Pools,
    PoolKeyOf,     \* [Pools -> [currency0, currency1]]
    Batches        \* the batches to be matched: sequences of tasks

PoolKey == [currency0 : Currencies, currency1 : Currencies]
Task == [poolId : Pools, zeroForOne : BOOLEAN]

ASSUME MatchingAssumption ==
    /\ PoolKeyOf \in [Pools -> PoolKey]
    /\ Batches \subseteq Seq(Task) \ {<<>>}

VARIABLES
    tasks,      \* the batch
    groups,     \* cowMatchingGroups, then the matchings: sequences of indices
    pass,       \* "circular", "direct", "leftover" or "done"
    i           \* the outer index of the pass

matchVars == <<tasks, groups, pass, i>>

InputToken(t) ==
    IF t.zeroForOne THEN PoolKeyOf[t.poolId].currency0 ELSE PoolKeyOf[t.poolId].currency1
OutputToken(t) ==
    IF t.zeroForOne THEN PoolKeyOf[t.poolId].currency1 ELSE PoolKeyOf[t.poolId].currency0

Feeds(a, b) == OutputToken(tasks[a]) = InputToken(tasks[b])
IsPath(a, b, c) == Feeds(a, b) /\ Feeds(b, c)    \* wrong: it need not close
IsCircle(a, b, c) == Feeds(a, b) /\ Feeds(b, c) /\ Feeds(c, a)
AreOpposite(a, b) ==
    /\ tasks[a].poolId = tasks[b].poolId
    /\ tasks[a].zeroForOne # tasks[b].zeroForOne

Members(group) == {group[k] : k \in DOMAIN group}
Matched == UNION {Members(groups[k]) : k \in DOMAIN groups}

MatchInit ==
    /\ tasks \in Batches
    /\ groups = <<>>
    /\ pass = "circular"
    /\ i = 1

(* The triple loop runs over i < j < k among the first three tasks, so it  *)
(* looks at one triple in one order.                                       *)
ZeroBasedPass ==    \* wrong: counts the tasks from 0
    /\ pass = "circular"
    /\ groups' = IF Len(tasks) >= 3 /\ IsCircle(1, 2, 3) THEN <<<<0, 1, 2>>>> ELSE <<>>
    /\ pass' = "direct"
    /\ UNCHANGED <<tasks, i>>

CircularPass ==
    /\ pass = "circular"
    /\ groups' = IF Len(tasks) >= 3 /\ IsCircle(1, 2, 3) THEN <<<<1, 2, 3>>>> ELSE <<>>
    /\ pass' = "direct"
    /\ UNCHANGED <<tasks, i>>

(* One round of the direct pass: the first unmatched counterpart of i.     *)
(* The wrong one looks at the next task only.                              *)
Neighbour == {j \in {i + 1} \cap DOMAIN tasks : j \notin Matched /\ AreOpposite(i, j)}
Partners == {j \in (i + 1)..Len(tasks) : j \notin Matched /\ AreOpposite(i, j)}

DirectPass ==
    /\ pass = "direct" /\ i <= Len(tasks)
    /\ groups' = IF i \notin Matched /\ Partners # {}
                 THEN Append(groups, <<i, Min(Partners)>>) ELSE groups
    /\ i' = i + 1
    /\ UNCHANGED <<tasks, pass>>

EndDirectKeepsIndex ==    \* wrong: the next pass does not start over
    /\ pass = "direct" /\ i > Len(tasks)
    /\ pass' = "leftover"
    /\ UNCHANGED <<tasks, groups, i>>

EndDirect ==
    /\ pass = "direct" /\ i > Len(tasks)
    /\ pass' = "leftover"
    /\ i' = 1
    /\ UNCHANGED <<tasks, groups>>

(* Each task that is in no group becomes an AMM matching of its own.       *)
LeftoverPass ==
    /\ pass = "leftover" /\ i <= Len(tasks)
    /\ groups' = IF i \notin Matched THEN Append(groups, <<i>>) ELSE groups
    /\ i' = i + 1
    /\ UNCHANGED <<tasks, pass>>

EndLeftover ==
    /\ pass = "leftover" /\ i > Len(tasks)
    /\ pass' = "done"
    /\ UNCHANGED <<tasks, groups, i>>

MatchNext == CircularPass \/ DirectPass \/ EndDirect \/ LeftoverPass \/ EndLeftover

MatchSpec == MatchInit /\ [][MatchNext]_matchVars

------------------------------------------------------------------------------
(* Every variable has its type.                                            *)
MatchTypeOK ==
    /\ tasks \in Seq(Task)
    /\ groups \in Seq(Seq(1..Len(tasks)))
    /\ pass \in {"circular", "direct", "leftover", "done"}
    /\ i \in 1..(Len(tasks) + 1)

GroupsOf(size) == {k \in DOMAIN groups : Len(groups[k]) = size}

(* Every task of the batch is in exactly one matching when the matchings   *)
(* are complete: the circular and the direct pass never share a task, and  *)
(* what they leave over is there once.                                     *)
EachTaskMatchedOnce ==
    pass = "done" =>
        /\ Matched = DOMAIN tasks
        /\ \A k, l \in DOMAIN groups : k # l => Members(groups[k]) \cap Members(groups[l]) = {}
        /\ \A k \in DOMAIN groups : Cardinality(Members(groups[k])) = Len(groups[k])

Selling(S, p, zeroForOne) == {k \in S : tasks[k].poolId = p /\ tasks[k].zeroForOne = zeroForOne}

(* Pairing each task with the first counterpart, and never looking back,   *)
(* finds as many pairs as there are: in each pool the smaller side of the  *)
(* tasks the circular match left over is matched completely.               *)
DirectPassIsMaximum ==
    pass \in {"leftover", "done"} =>
        LET free == DOMAIN tasks \ UNION {Members(groups[k]) : k \in GroupsOf(3)}
            pairs(p) == {k \in GroupsOf(2) : tasks[groups[k][1]].poolId = p}
        IN  \A p \in Pools :
                Cardinality(pairs(p)) =
                    Min({Cardinality(Selling(free, p, TRUE)), Cardinality(Selling(free, p, FALSE))})

(* In a group every task gives the token the next one wants back to the    *)
(* first: a pair trades the two sides of one pool, three tasks a circle.   *)
GroupsClose ==
    \A k \in DOMAIN groups :
        LET g == groups[k]
        IN  Len(g) > 1 => \A m \in DOMAIN g : Feeds(g[m], g[(m % Len(g)) + 1])
=============================================================================
