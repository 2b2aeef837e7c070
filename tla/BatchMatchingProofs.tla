------------------------ MODULE BatchMatchingProofs ------------------------
(***************************************************************************)
(* What the two matchers make of any batch, over any pools.  The passes of *)
(* processBatch: each task is in one matching, the groups close, and there *)
(* are as many pairs as there can be.  The library: its depth-first search *)
(* finds circles only, and some circle if there is one.  And what becomes  *)
(* of the scenarios of the traffic script.                                 *)
(***************************************************************************)
EXTENDS BatchMatching, FiniteSetTheorems, TLAPS

(* One level of the search: what a path gives when the longer ones are     *)
(* known.                                                                  *)
Found(p, path, longer) ==
    IF path \in p.closed THEN <<path>>
    ELSE Library!FlattenSeq([k \in p.dom |->
            IF k \notin Library!ToSet(path) /\ <<path, k>> \in p.feeds
            THEN longer[Append(path, k)] ELSE <<>>])
Deeper(p, longer, n) == [path \in Seq(p.dom) |-> Found(p, path, longer)]
Levels == INSTANCE Recursion
          WITH Base <- LAMBDA p : [path \in Seq(p.dom) |-> <<>>], Step <- Deeper

(* Joining the first n of a sequence of sequences.                         *)
Joined(ss, before, n) == IF n = 1 THEN ss[1] ELSE before \o ss[n]
Joining == INSTANCE Recursion WITH Base <- LAMBDA ss : <<>>, Step <- Joined

(* A set of natural numbers that is not empty has a least element.         *)
LEMMA MinOfNaturals ==
    ASSUME NEW S \in SUBSET Nat, S # {}
    PROVE  Min(S) \in S
<1>1. PICK x \in S : \A y \in S : x <= y
  BY Levels!LeastElement
<1>2. QED
  BY <1>1 DEF Min

------------------------------------------------------------------------------
(* A group of tasks, all different, each giving the next what it wants.    *)
Group == Seq(1..Len(tasks))
Distinct(g) == \A m, n \in DOMAIN g : m # n => g[m] # g[n]
Closed(g) == Len(g) > 1 => \A m \in DOMAIN g : Feeds(g[m], g[(m % Len(g)) + 1])

(* No task is in two groups, or in two places of one.                      *)
GroupsDisjoint ==
    /\ \A k, l \in DOMAIN groups : k # l => Members(groups[k]) \cap Members(groups[l]) = {}
    /\ \A k \in DOMAIN groups : Distinct(groups[k])

(* The circular pass is the first to make a group; the last pass leaves no *)
(* task behind its index without one.                                      *)
Progress ==
    /\ pass = "circular" => groups = <<>> /\ i = 1
    /\ pass = "leftover" => 1..(i - 1) \subseteq Matched
    /\ pass = "done" => DOMAIN tasks \subseteq Matched

IInv == MatchTypeOK /\ GroupsDisjoint /\ GroupsClose /\ Progress

(* The first counterpart of a task is one of its counterparts.             *)
LEMMA FirstPartner ==
    ASSUME MatchTypeOK, Partners # {}
    PROVE  Min(Partners) \in Partners
<1>1. Partners \in SUBSET Nat
  BY DEF Partners, MatchTypeOK
<1>2. QED
  BY <1>1, MinOfNaturals

(* A sequence that has no element twice has as many elements as places.    *)
LEMMA DistinctCardinality ==
    ASSUME NEW S, NEW g \in Seq(S), Distinct(g)
    PROVE  Cardinality(Members(g)) = Len(g)
<1>1. Len(g) \in Nat /\ DOMAIN g = 1..Len(g)
  OBVIOUS
<1>2. g \in Bijection(1..Len(g), Members(g))
  BY <1>1 DEF Bijection, Injection, Surjection, IsInjective, Members, Distinct
<1>3. QED
  BY <1>1, <1>2, FS_CountingElements DEF ExistsBijection

(* The two sides of a pool close, whichever comes first.                   *)
LEMMA PairCloses ==
    ASSUME NEW a, NEW b, AreOpposite(a, b), tasks[a].zeroForOne \in BOOLEAN,
           tasks[b].zeroForOne \in BOOLEAN
    PROVE  Closed(<<a, b>>)
<1>1. Feeds(a, b) /\ Feeds(b, a)
  BY DEF AreOpposite, Feeds, InputToken, OutputToken
<1>2. DOMAIN <<a, b>> = {1, 2} /\ (1 % 2) + 1 = 2 /\ (2 % 2) + 1 = 1
  OBVIOUS
<1>3. QED
  BY <1>1, <1>2 DEF Closed

(* Three tasks that feed each other close in the order of the loops.       *)
LEMMA CircleCloses ==
    ASSUME NEW a, NEW b, NEW c, IsCircle(a, b, c)
    PROVE  Closed(<<a, b, c>>)
<1>1. DOMAIN <<a, b, c>> = {1, 2, 3} /\ (1 % 3) + 1 = 2 /\ (2 % 3) + 1 = 3 /\ (3 % 3) + 1 = 1
  OBVIOUS
<1>2. QED
  BY <1>1 DEF Closed, IsCircle

------------------------------------------------------------------------------
(* What a round does that makes a group of tasks that were in none.        *)
LEMMA NewGroup ==
    ASSUME IInv, UNCHANGED tasks, NEW g \in Group, groups' = Append(groups, g),
           Members(g) \cap Matched = {}, Distinct(g), Closed(g)
    PROVE  /\ groups' \in Seq(Seq(1..Len(tasks)))
           /\ Matched' = Matched \cup Members(g)
           /\ GroupsDisjoint' /\ GroupsClose'
<1>1. groups \in Seq(Group)
  BY DEF IInv, MatchTypeOK, Group
<1>2. /\ groups' \in Seq(Group) /\ Len(groups) \in Nat /\ DOMAIN groups = 1..Len(groups)
      /\ DOMAIN groups' = DOMAIN groups \cup {Len(groups) + 1}
      /\ \A k \in DOMAIN groups : groups'[k] = groups[k] /\ k # Len(groups) + 1
      /\ groups'[Len(groups) + 1] = g
  BY <1>1
<1>3. Matched' = Matched \cup Members(g)
  BY <1>2 DEF Matched
<1>4. \A k \in DOMAIN groups : Members(groups[k]) \cap Members(g) = {}
  BY DEF Matched
<1>5. GroupsDisjoint'
  BY <1>2, <1>4 DEF IInv, GroupsDisjoint
<1>6. \A k \in DOMAIN groups' : Closed(groups'[k])
  BY <1>2 DEF IInv, GroupsClose, Closed
<1>7. GroupsClose'
  BY <1>6 DEF GroupsClose, Closed, Feeds, InputToken, OutputToken
<1>8. QED
  BY <1>2, <1>3, <1>5, <1>7 DEF Group

(* A round that makes none.                                                *)
LEMMA NoGroup ==
    ASSUME IInv, UNCHANGED <<tasks, groups>>
    PROVE  /\ groups' \in Seq(Seq(1..Len(tasks)))
           /\ Matched' = Matched
           /\ GroupsDisjoint' /\ GroupsClose'
BY DEF IInv, MatchTypeOK, Matched, GroupsDisjoint, GroupsClose, Feeds, InputToken, OutputToken

(* A batch nothing has been done with.                                     *)
LEMMA MatchInitInv == MatchInit => IInv
BY MatchingAssumption DEF MatchInit, IInv, MatchTypeOK, GroupsDisjoint, GroupsClose, Progress

(* One round of the circular pass.                                         *)
LEMMA CircularPassInv ==
    ASSUME IInv, CircularPass
    PROVE  IInv'
<1>1. groups = <<>> /\ Matched = {} /\ Len(tasks) \in Nat
  BY DEF CircularPass, IInv, Progress, Matched, MatchTypeOK
<1>2. CASE Len(tasks) >= 3 /\ IsCircle(1, 2, 3)
  <2> DEFINE g == <<1, 2, 3>>
  <2>1. g \in Group /\ Distinct(g) /\ Members(g) \cap Matched = {}
    BY <1>1, <1>2 DEF Group, Distinct
  <2>2. Closed(g)
    BY <1>2, CircleCloses
  <2>3. groups' = Append(groups, g) /\ UNCHANGED tasks
    BY <1>1, <1>2 DEF CircularPass
  <2>4. QED
    BY <2>1, <2>2, <2>3, NewGroup DEF CircularPass, IInv, MatchTypeOK, Progress
<1>3. CASE ~(Len(tasks) >= 3 /\ IsCircle(1, 2, 3))
  BY <1>1, <1>3, NoGroup DEF CircularPass, IInv, MatchTypeOK, Progress
<1>4. QED
  BY <1>2, <1>3

(* One round of the direct pass.                                           *)
LEMMA DirectPassInv ==
    ASSUME IInv, DirectPass
    PROVE  IInv'
<1>1. /\ Len(tasks) \in Nat /\ i \in 1..Len(tasks) /\ i + 1 \in 1..(Len(tasks) + 1)
      /\ \A a \in 1..Len(tasks) : tasks[a].zeroForOne \in BOOLEAN
  <2>1. tasks \in Seq(Task) /\ Len(tasks) \in Nat
    BY DEF IInv, MatchTypeOK
  <2>2. \A a \in 1..Len(tasks) : tasks[a] \in Task
    BY <2>1
  <2>3. i \in 1..Len(tasks) /\ i + 1 \in 1..(Len(tasks) + 1)
    BY <2>1 DEF DirectPass, IInv, MatchTypeOK
  <2>4. QED
    BY <2>1, <2>2, <2>3 DEF Task
<1>2. CASE i \notin Matched /\ Partners # {}
  <2> DEFINE j == Min(Partners)
             g == <<i, j>>
  <2>1. j \in Partners
    BY <1>2, FirstPartner DEF IInv
  <2>2. /\ j \in (i + 1)..Len(tasks) /\ j \notin Matched /\ AreOpposite(i, j)
    BY <2>1 DEF Partners
  <2> HIDE DEF j
  <2>3. j \in 1..Len(tasks) /\ i # j
    BY <1>1, <2>2
  <2>4. /\ g \in Group /\ Distinct(g) /\ Members(g) = {i, j}
    BY <1>1, <2>3 DEF Group, Distinct, Members
  <2>5. Closed(g)
    BY <1>1, <2>2, <2>3, PairCloses
  <2>6. groups' = Append(groups, g) /\ UNCHANGED tasks
    BY <1>2 DEF DirectPass, j
  <2>7. Members(g) \cap Matched = {}
    BY <1>2, <2>2, <2>4
  <2> HIDE DEF g
  <2>8. QED
    BY <1>1, <2>4, <2>5, <2>6, <2>7, NewGroup DEF DirectPass, IInv, MatchTypeOK, Progress
<1>3. CASE ~(i \notin Matched /\ Partners # {})
  BY <1>1, <1>3, NoGroup DEF DirectPass, IInv, MatchTypeOK, Progress
<1>4. QED
  BY <1>2, <1>3

(* One round of the last pass: the task at the index is in a group after   *)
(* it, whether it was before or not.                                       *)
LEMMA LeftoverPassInv ==
    ASSUME IInv, LeftoverPass
    PROVE  IInv'
<1>1. /\ Len(tasks) \in Nat /\ i \in 1..Len(tasks) /\ i + 1 \in 1..(Len(tasks) + 1)
      /\ 1..(i' - 1) = (1..(i - 1)) \cup {i}
  BY DEF LeftoverPass, IInv, MatchTypeOK
<1>2. CASE i \notin Matched
  <2> DEFINE g == <<i>>
  <2>1. /\ g \in Group /\ Distinct(g) /\ Members(g) = {i} /\ Closed(g)
    BY <1>1 DEF Group, Distinct, Members, Closed
  <2>2. groups' = Append(groups, g) /\ UNCHANGED tasks
    BY <1>2 DEF LeftoverPass
  <2> HIDE DEF g
  <2>3. QED
    BY <1>1, <1>2, <2>1, <2>2, NewGroup DEF LeftoverPass, IInv, MatchTypeOK, Progress
<1>3. CASE i \in Matched
  BY <1>1, <1>3, NoGroup DEF LeftoverPass, IInv, MatchTypeOK, Progress
<1>4. QED
  BY <1>2, <1>3

(* Every round keeps the invariant.                                        *)
LEMMA MatchStepInv == IInv /\ [MatchNext]_matchVars => IInv'
<1> SUFFICES ASSUME IInv, [MatchNext]_matchVars PROVE IInv'
  OBVIOUS
<1>1. CASE EndDirect
  BY <1>1, NoGroup DEF EndDirect, IInv, MatchTypeOK, Progress
<1>2. CASE EndLeftover
  <2>1. DOMAIN tasks \subseteq 1..(i - 1)
    BY <1>2 DEF EndLeftover, IInv, MatchTypeOK
  <2>2. QED
    BY <1>2, <2>1, NoGroup DEF EndLeftover, IInv, MatchTypeOK, Progress
<1>3. CASE UNCHANGED matchVars
  BY <1>3, NoGroup DEF matchVars, IInv, MatchTypeOK, Progress
<1>4. QED
  BY <1>1, <1>2, <1>3, CircularPassInv, DirectPassInv, LeftoverPassInv DEF MatchNext

------------------------------------------------------------------------------
(* Until the last pass all groups are circles and pairs; a pair is two     *)
(* sides of one pool.                                                      *)
Shapes ==
    \A k \in DOMAIN groups :
        /\ Len(groups[k]) \in {1, 2, 3}
        /\ Len(groups[k]) = 1 => pass \in {"leftover", "done"}
        /\ Len(groups[k]) = 2 => AreOpposite(groups[k][1], groups[k][2])

(* The tasks that are in no circle and no pair, and among which the direct *)
(* pass leaves none behind its index that has a counterpart: what it does  *)
(* not pair now it never could.                                            *)
Unpaired == DOMAIN tasks \ UNION {Members(groups[k]) : k \in GroupsOf(2) \cup GroupsOf(3)}
NoneMissed ==
    /\ pass = "direct" => \A a, b \in Unpaired : a < i => ~AreOpposite(a, b)
    /\ pass \in {"leftover", "done"} => \A a, b \in Unpaired : ~AreOpposite(a, b)

PairsInv == Shapes /\ NoneMissed

(* While no task is in a group of its own, what is in no pair or circle is *)
(* in no group.                                                            *)
LEMMA UnmatchedUnpaired ==
    ASSUME Shapes, pass \in {"circular", "direct"}
    PROVE  Unpaired = DOMAIN tasks \ Matched
<1>1. GroupsOf(2) \cup GroupsOf(3) = DOMAIN groups
  BY DEF Shapes, GroupsOf
<1>2. QED
  BY <1>1 DEF Unpaired, Matched

(* A new group is shaped like the others, and takes its tasks from those   *)
(* in no pair if it is a pair.                                             *)
LEMMA NewShape ==
    ASSUME IInv, Shapes, UNCHANGED tasks, pass' = pass \/ groups = <<>>,
           NEW g \in Group, groups' = Append(groups, g), Len(g) \in {1, 2, 3},
           Len(g) = 1 => pass' \in {"leftover", "done"},
           Len(g) = 2 => AreOpposite(g[1], g[2])
    PROVE  Shapes' /\ Unpaired' \subseteq Unpaired /\ (Len(g) # 1 => Unpaired' = Unpaired \ Members(g))
<1>1. groups \in Seq(Group)
  BY DEF IInv, MatchTypeOK, Group
<1>2. /\ Len(groups) \in Nat /\ DOMAIN groups = 1..Len(groups)
      /\ DOMAIN groups' = DOMAIN groups \cup {Len(groups) + 1}
      /\ \A k \in DOMAIN groups : groups'[k] = groups[k] /\ k # Len(groups) + 1
      /\ groups'[Len(groups) + 1] = g
  BY <1>1
<1>3. Shapes'
  BY <1>2 DEF Shapes, AreOpposite
<1> DEFINE Old == {k \in DOMAIN groups : Len(groups[k]) \in {2, 3}}
<1>4. GroupsOf(2) \cup GroupsOf(3) = Old
  BY DEF GroupsOf
<1>5. CASE Len(g) = 1
  <2>1. (GroupsOf(2) \cup GroupsOf(3))' = Old
    <3>1. (GroupsOf(2) \cup GroupsOf(3))' = {k \in DOMAIN groups' : Len(groups'[k]) \in {2, 3}}
      BY DEF GroupsOf
    <3>2. QED
      BY <1>2, <1>5, <3>1
  <2>2. \A k \in Old : Members(groups[k])' = Members(groups[k])
    BY <1>2 DEF Members
  <2>3. Unpaired' = Unpaired
    BY <1>4, <2>1, <2>2 DEF Unpaired
  <2>4. QED
    BY <1>3, <1>5, <2>3
<1>6. CASE Len(g) # 1
  <2>1. (GroupsOf(2) \cup GroupsOf(3))' = Old \cup {Len(groups) + 1}
    BY <1>2, <1>6 DEF GroupsOf
  <2>2. \A k \in Old : groups'[k] = groups[k]
    BY <1>2
  <2> HIDE DEF Old
  <2>3. UNION {Members(groups'[k]) : k \in Old \cup {Len(groups) + 1}} =
            (UNION {Members(groups[k]) : k \in Old}) \cup Members(g)
    <3>1. \A k \in Old : Members(groups'[k]) = Members(groups[k])
      BY <2>2
    <3>2. Members(groups'[Len(groups) + 1]) = Members(g)
      BY <1>2
    <3>3. \A x : (\E k \in Old \cup {Len(groups) + 1} : x \in Members(groups'[k])) <=>
                     ((\E k \in Old : x \in Members(groups[k])) \/ x \in Members(g))
      BY <3>1, <3>2, Zenon
    <3> DEFINE New == UNION {Members(groups'[k]) : k \in Old \cup {Len(groups) + 1}}
               Before == UNION {Members(groups[k]) : k \in Old}
    <3>4. \A x : x \in New <=> \E k \in Old \cup {Len(groups) + 1} : x \in Members(groups'[k])
      OBVIOUS
    <3>5. \A x : x \in Before <=> \E k \in Old : x \in Members(groups[k])
      OBVIOUS
    <3> HIDE DEF New, Before
    <3>6. New = Before \cup Members(g)
      BY <3>3, <3>4, <3>5
    <3>7. QED
      BY <3>6 DEF New, Before
  <2>4. Unpaired' = Unpaired \ Members(g)
    BY <1>4, <2>1, <2>3 DEF Unpaired
  <2>5. QED
    BY <1>3, <2>4
<1>7. QED
  BY <1>5, <1>6

(* A round that makes no group and does not go back to the first passes.   *)
LEMMA NoShape ==
    ASSUME Shapes, UNCHANGED <<tasks, groups>>,
           pass \in {"leftover", "done"} => pass' \in {"leftover", "done"}
    PROVE  Shapes' /\ Unpaired' = Unpaired
BY DEF Shapes, Unpaired, GroupsOf, Members, AreOpposite

(* Being counterparts is a relation of two tasks of the batch alone.       *)
LEMMA OppositeKept ==
    ASSUME UNCHANGED tasks
    PROVE  \A a, b : AreOpposite(a, b)' = AreOpposite(a, b) /\ (AreOpposite(a, b) => AreOpposite(b, a))
BY DEF AreOpposite

(* One round of the direct pass: the task at the index is paired with the  *)
(* first counterpart behind it, and those before it had none left.         *)
LEMMA DirectPassPairs ==
    ASSUME IInv, PairsInv, DirectPass
    PROVE  PairsInv'
<1>1. /\ Len(tasks) \in Nat /\ i \in 1..Len(tasks) /\ DOMAIN tasks = 1..Len(tasks)
      /\ pass = "direct" /\ pass' = "direct" /\ i' = i + 1 /\ tasks' = tasks
  BY DEF DirectPass, IInv, MatchTypeOK
<1>2. Unpaired = DOMAIN tasks \ Matched
  BY <1>1, UnmatchedUnpaired DEF PairsInv
<1>3. \A a, b \in Unpaired : a < i => ~AreOpposite(a, b)
  BY <1>1 DEF PairsInv, NoneMissed
<1>4. \A a, b : AreOpposite(a, b)' = AreOpposite(a, b) /\ (AreOpposite(a, b) => AreOpposite(b, a))
  BY <1>1, OppositeKept
<1>5. ASSUME Shapes', Unpaired' \subseteq Unpaired,
             i \in Unpaired' => \A b \in Unpaired' : b > i => ~AreOpposite(i, b)
      PROVE  PairsInv'
  <2>1. Unpaired \in SUBSET (1..Len(tasks)) /\ ~AreOpposite(i, i)
    BY <1>1 DEF Unpaired, AreOpposite
  <2>2. ASSUME NEW a \in Unpaired', NEW b \in Unpaired', a < i + 1
        PROVE  ~AreOpposite(a, b)
    <3>1. a \in Unpaired /\ b \in Unpaired /\ a \in Int /\ b \in Int /\ i \in Int
      BY <1>1, <1>5, <2>1, <2>2
    <3>2. CASE a < i
      BY <1>3, <3>1, <3>2
    <3>3. CASE a = i
      <4>1. CASE b > i
        BY <1>5, <2>2, <3>3, <4>1
      <4>2. CASE b < i
        BY <1>3, <1>4, <3>1, <3>3, <4>2
      <4>3. CASE b = i
        BY <2>1, <3>3, <4>3
      <4>4. QED
        BY <3>1, <4>1, <4>2, <4>3
    <3>4. QED
      BY <2>2, <3>1, <3>2, <3>3
  <2>3. NoneMissed'
    BY <1>1, <1>4, <2>2 DEF NoneMissed
  <2>4. QED
    BY <1>5, <2>3 DEF PairsInv
<1>6. CASE i \notin Matched /\ Partners # {}
  <2> DEFINE j == Min(Partners)
             g == <<i, j>>
  <2>1. /\ j \in (i + 1)..Len(tasks) /\ AreOpposite(i, j)
    BY <1>6, FirstPartner DEF IInv, Partners
  <2> HIDE DEF j
  <2>2. /\ g \in Group /\ Len(g) = 2 /\ g[1] = i /\ g[2] = j /\ i \in Members(g)
    <3>1. j \in 1..Len(tasks)
      BY <1>1, <2>1
    <3>2. QED
      BY <1>1, <3>1 DEF Group, Members
  <2>3. groups' = Append(groups, g)
    BY <1>6 DEF DirectPass, j
  <2> HIDE DEF g
  <2>4. Shapes' /\ Unpaired' = Unpaired \ Members(g)
    <3>1. AreOpposite(g[1], g[2])
      BY <2>1, <2>2
    <3>2. IInv /\ Shapes /\ UNCHANGED tasks /\ pass' = pass /\ Len(g) = 2 /\ Len(g) # 1
      BY <1>1, <2>2 DEF PairsInv
    <3>3. QED
      BY <2>2, <2>3, <3>1, <3>2, NewShape
  <2>5. QED
    BY <1>5, <2>2, <2>4
<1>7. CASE ~(i \notin Matched /\ Partners # {})
  <2>1. UNCHANGED <<tasks, groups>>
    BY <1>1, <1>7 DEF DirectPass
  <2>2. Shapes' /\ Unpaired' = Unpaired
    BY <1>1, <2>1, NoShape DEF PairsInv
  <2>3. ASSUME i \in Unpaired, NEW b \in Unpaired, b > i
        PROVE  ~AreOpposite(i, b)
    <3>1. Partners = {} /\ b \notin Matched /\ b \in 1..Len(tasks)
      BY <1>1, <1>2, <1>7, <2>3
    <3>2. b \in (i + 1)..Len(tasks)
      BY <1>1, <2>3, <3>1
    <3>3. QED
      BY <3>1, <3>2 DEF Partners
  <2>4. QED
    BY <1>5, <2>2, <2>3
<1>8. QED
  BY <1>6, <1>7

(* Every round keeps the pairs as many as there can be.                    *)
LEMMA MatchStepPairs == IInv /\ PairsInv /\ [MatchNext]_matchVars => PairsInv'
<1> SUFFICES ASSUME IInv, PairsInv, [MatchNext]_matchVars PROVE PairsInv'
  OBVIOUS
<1>1. CASE CircularPass
  <2>1. /\ groups = <<>> /\ Len(tasks) \in Nat /\ tasks' = tasks
        /\ pass' = "direct" /\ i' = i /\ i \in Nat
    BY <1>1 DEF CircularPass, IInv, Progress, MatchTypeOK
  <2>2. Shapes'
    <3>1. CASE Len(tasks) >= 3 /\ IsCircle(1, 2, 3)
      <4>1. groups' = Append(groups, <<1, 2, 3>>) /\ <<1, 2, 3>> \in Group /\ Len(<<1, 2, 3>>) = 3
        BY <1>1, <2>1, <3>1 DEF CircularPass, Group
      <4>2. QED
        BY <2>1, <4>1, NewShape DEF PairsInv
    <3>2. CASE ~(Len(tasks) >= 3 /\ IsCircle(1, 2, 3))
      BY <1>1, <3>2 DEF CircularPass, Shapes
    <3>3. QED
      BY <3>1, <3>2
  <2>3. i = 1
    BY <1>1 DEF CircularPass, IInv, Progress
  <2>4. \A a \in Unpaired' : a \in Nat /\ a >= 1
    BY <2>1 DEF Unpaired
  <2>5. NoneMissed'
    BY <2>1, <2>3, <2>4 DEF NoneMissed
  <2>6. QED
    BY <2>2, <2>5 DEF PairsInv
<1>2. CASE DirectPass
  BY <1>2, DirectPassPairs
<1>3. CASE EndDirect
  <2>1. /\ Len(tasks) \in Nat /\ i \in Nat /\ i > Len(tasks) /\ UNCHANGED <<tasks, groups>>
        /\ pass = "direct" /\ pass' = "leftover"
    BY <1>3 DEF EndDirect, IInv, MatchTypeOK
  <2>2. Shapes' /\ Unpaired' = Unpaired
    BY <2>1, NoShape DEF PairsInv
  <2>3. \A a \in Unpaired : a < i
    BY <2>1 DEF Unpaired, IInv, MatchTypeOK
  <2>4. \A a, b : AreOpposite(a, b)' = AreOpposite(a, b)
    BY <2>1, OppositeKept
  <2>5. NoneMissed'
    BY <2>1, <2>2, <2>3, <2>4 DEF PairsInv, NoneMissed
  <2>6. QED
    BY <2>2, <2>5 DEF PairsInv
<1>4. CASE LeftoverPass
  <2>1. /\ Len(tasks) \in Nat /\ i \in 1..Len(tasks) /\ tasks' = tasks
        /\ pass = "leftover" /\ pass' = pass
    BY <1>4 DEF LeftoverPass, IInv, MatchTypeOK
  <2>2. Shapes' /\ Unpaired' \subseteq Unpaired
    <3>1. CASE i \notin Matched
      <4>1. groups' = Append(groups, <<i>>) /\ <<i>> \in Group /\ Len(<<i>>) = 1
        BY <1>4, <2>1, <3>1 DEF LeftoverPass, Group
      <4>2. QED
        BY <2>1, <4>1, NewShape DEF PairsInv
    <3>2. CASE i \in Matched
      <4>1. UNCHANGED <<tasks, groups>>
        BY <1>4, <2>1, <3>2 DEF LeftoverPass
      <4>2. QED
        BY <2>1, <4>1, NoShape DEF PairsInv
    <3>3. QED
      BY <3>1, <3>2
  <2>3. \A a, b : AreOpposite(a, b)' = AreOpposite(a, b)
    BY <2>1, OppositeKept
  <2>4. NoneMissed'
    BY <2>1, <2>2, <2>3 DEF PairsInv, NoneMissed
  <2>5. QED
    BY <2>2, <2>4 DEF PairsInv
<1>5. CASE EndLeftover \/ UNCHANGED matchVars
  <2>1. /\ UNCHANGED <<tasks, groups, i>>
        /\ pass' = pass \/ (pass = "leftover" /\ pass' = "done")
    BY <1>5 DEF EndLeftover, matchVars
  <2>2. Shapes' /\ Unpaired' = Unpaired
    BY <2>1, NoShape DEF PairsInv
  <2>3. \A a, b : AreOpposite(a, b)' = AreOpposite(a, b)
    BY <2>1, OppositeKept
  <2>4. NoneMissed'
    BY <2>1, <2>2, <2>3 DEF PairsInv, NoneMissed
  <2>5. QED
    BY <2>2, <2>4 DEF PairsInv
<1>6. QED
  BY <1>1, <1>2, <1>3, <1>4, <1>5 DEF MatchNext

(* The pairs of a pool, and one task of each: a bijection to the tasks of  *)
(* either side that are paired.                                            *)
Free == DOMAIN tasks \ UNION {Members(groups[k]) : k \in GroupsOf(3)}
Pairs(p) == {k \in GroupsOf(2) : tasks[groups[k][1]].poolId = p}
PairedOf(p, zeroForOne) == Selling(Free, p, zeroForOne) \ Unpaired
Side(k, zeroForOne) ==
    IF tasks[groups[k][1]].zeroForOne = zeroForOne THEN groups[k][1] ELSE groups[k][2]

(* Each pair has one task of each side.                                    *)
LEMMA OneOfEachSide ==
    ASSUME IInv, PairsInv, NEW p \in Pools, NEW zeroForOne \in BOOLEAN
    PROVE  IsFiniteSet(Pairs(p)) /\ Cardinality(PairedOf(p, zeroForOne)) = Cardinality(Pairs(p))
<1>1. /\ groups \in Seq(Group) /\ tasks \in Seq(Task) /\ Len(groups) \in Nat
      /\ DOMAIN groups = 1..Len(groups) /\ DOMAIN tasks = 1..Len(tasks)
      /\ \A a \in DOMAIN tasks : tasks[a].zeroForOne \in BOOLEAN
  <2>1. groups \in Seq(Group) /\ tasks \in Seq(Task)
    BY DEF IInv, MatchTypeOK, Group
  <2>2. \A a \in DOMAIN tasks : tasks[a] \in Task
    BY <2>1
  <2>3. QED
    BY <2>1, <2>2 DEF Task
<1>2. IsFiniteSet(Pairs(p))
  <2>1. Pairs(p) \in SUBSET (1..Len(groups))
    BY <1>1 DEF Pairs, GroupsOf
  <2>2. IsFiniteSet(1..Len(groups))
    BY <1>1, FS_Interval
  <2>3. QED
    BY <2>1, <2>2, FS_Subset
<1>3. ASSUME NEW k \in GroupsOf(2)
      PROVE  /\ k \in DOMAIN groups /\ Len(groups[k]) = 2
             /\ Members(groups[k]) = {groups[k][1], groups[k][2]}
             /\ groups[k][1] \in DOMAIN tasks /\ groups[k][2] \in DOMAIN tasks
             /\ AreOpposite(groups[k][1], groups[k][2])
  <2>1. k \in DOMAIN groups /\ Len(groups[k]) = 2
    BY DEF GroupsOf
  <2>2. groups[k] \in Seq(DOMAIN tasks)
    BY <1>1, <2>1 DEF Group
  <2>3. DOMAIN groups[k] = {1, 2}
    BY <2>1, <2>2
  <2>4. QED
    BY <2>1, <2>2, <2>3 DEF Members, PairsInv, Shapes
<1>4. ASSUME NEW k \in Pairs(p)
      PROVE  /\ Side(k, zeroForOne) \in Members(groups[k])
             /\ Side(k, zeroForOne) \in PairedOf(p, zeroForOne)
  <2>1. k \in GroupsOf(2) /\ tasks[groups[k][1]].poolId = p
    BY DEF Pairs
  <2>2. /\ Side(k, zeroForOne) \in Members(groups[k]) /\ Side(k, zeroForOne) \in DOMAIN tasks
        /\ tasks[Side(k, zeroForOne)].poolId = p /\ tasks[Side(k, zeroForOne)].zeroForOne = zeroForOne
    BY <1>1, <1>3, <2>1 DEF Side, AreOpposite
  <2>3. Side(k, zeroForOne) \in Free
    <3>1. \A l \in GroupsOf(3) : l \in DOMAIN groups /\ l # k
      BY <2>1 DEF GroupsOf
    <3>2. \A l \in GroupsOf(3) : Side(k, zeroForOne) \notin Members(groups[l])
      BY <1>3, <2>1, <2>2, <3>1 DEF IInv, GroupsDisjoint
    <3>3. QED
      BY <2>2, <3>2 DEF Free
  <2>4. Side(k, zeroForOne) \notin Unpaired
    BY <2>1, <2>2 DEF Unpaired
  <2>5. QED
    BY <2>2, <2>3, <2>4 DEF PairedOf, Selling
<1>5. ASSUME NEW a \in PairedOf(p, zeroForOne)
      PROVE  \E k \in Pairs(p) : Side(k, zeroForOne) = a
  <2>1. /\ a \in Free /\ a \in DOMAIN tasks /\ a \notin Unpaired
        /\ tasks[a].poolId = p /\ tasks[a].zeroForOne = zeroForOne
    BY DEF PairedOf, Selling, Free
  <2>2. PICK k \in GroupsOf(2) : a \in Members(groups[k])
    BY <2>1 DEF Unpaired, Free
  <2>3. /\ Members(groups[k]) = {groups[k][1], groups[k][2]}
        /\ AreOpposite(groups[k][1], groups[k][2])
    BY <1>3
  <2>4. tasks[groups[k][1]].poolId = p /\ Side(k, zeroForOne) = a
    BY <2>1, <2>2, <2>3 DEF AreOpposite, Side
  <2>5. QED
    BY <2>4 DEF Pairs
<1>6. ASSUME NEW k \in Pairs(p), NEW l \in Pairs(p), Side(k, zeroForOne) = Side(l, zeroForOne)
      PROVE  k = l
  <2>1. k \in DOMAIN groups /\ l \in DOMAIN groups
    BY DEF Pairs, GroupsOf
  <2>2. QED
    BY <1>4, <1>6, <2>1 DEF IInv, GroupsDisjoint
<1> DEFINE side == [k \in Pairs(p) |-> Side(k, zeroForOne)]
<1>7. side \in Bijection(Pairs(p), PairedOf(p, zeroForOne))
  BY <1>4, <1>5, <1>6 DEF Bijection, Injection, Surjection, IsInjective
<1>8. QED
  BY <1>2, <1>7, FS_Bijection DEF ExistsBijection

(* The lesser of two numbers.                                              *)
LEMMA MinOfTwo ==
    ASSUME NEW m \in Nat, NEW n \in Nat, m <= n
    PROVE  Min({m, n}) = m /\ Min({n, m}) = m
BY DEF Min

(* When the direct pass is over, the smaller side of each pool is paired.  *)
LEMMA MostPairs ==
    ASSUME IInv, PairsInv, pass \in {"leftover", "done"}, NEW p \in Pools
    PROVE  Cardinality(Pairs(p)) =
             Min({Cardinality(Selling(Free, p, TRUE)), Cardinality(Selling(Free, p, FALSE))})
<1> DEFINE S(d) == Selling(Free, p, d)
<1>1. \A d \in BOOLEAN : IsFiniteSet(S(d)) /\ PairedOf(p, d) \in SUBSET S(d)
  <2>1. IsFiniteSet(DOMAIN tasks)
    BY FS_Interval DEF IInv, MatchTypeOK
  <2>2. \A d \in BOOLEAN : S(d) \in SUBSET DOMAIN tasks /\ PairedOf(p, d) \in SUBSET S(d)
    BY DEF Selling, Free, PairedOf
  <2>3. QED
    BY <2>1, <2>2, FS_Subset
<1>2. \A d \in BOOLEAN : /\ Cardinality(S(d)) \in Nat
                         /\ Cardinality(PairedOf(p, d)) = Cardinality(Pairs(p))
                         /\ Cardinality(Pairs(p)) <= Cardinality(S(d))
  BY <1>1, OneOfEachSide, FS_Subset, FS_CardinalityType
<1>3. \E d \in BOOLEAN : PairedOf(p, d) = S(d)
  <2> SUFFICES ASSUME PairedOf(p, TRUE) # S(TRUE), PairedOf(p, FALSE) # S(FALSE) PROVE FALSE
    OBVIOUS
  <2>1. PICK a : a \in S(TRUE) /\ a \in Unpaired
    BY DEF PairedOf
  <2>2. PICK b : b \in S(FALSE) /\ b \in Unpaired
    BY DEF PairedOf
  <2>3. AreOpposite(a, b)
    BY <2>1, <2>2 DEF Selling, AreOpposite
  <2>4. QED
    BY <2>1, <2>2, <2>3 DEF PairsInv, NoneMissed
<1>4. Cardinality(Pairs(p)) \in Nat
  BY OneOfEachSide, FS_CardinalityType
<1> HIDE DEF S
<1>5. CASE PairedOf(p, TRUE) = S(TRUE)
  <2>1. Cardinality(S(TRUE)) = Cardinality(Pairs(p)) /\ Cardinality(S(TRUE)) <= Cardinality(S(FALSE))
    BY <1>2, <1>5
  <2>2. QED
    BY <1>2, <2>1, MinOfTwo DEF S
<1>6. CASE PairedOf(p, FALSE) = S(FALSE)
  <2>1. Cardinality(S(FALSE)) = Cardinality(Pairs(p)) /\ Cardinality(S(FALSE)) <= Cardinality(S(TRUE))
    BY <1>2, <1>6
  <2>2. QED
    BY <1>2, <2>1, MinOfTwo DEF S
<1>7. QED
  BY <1>3, <1>5, <1>6

(* The whole invariant of the passes.                                      *)
LEMMA MatchInv == MatchSpec => [](IInv /\ PairsInv)
<1>1. MatchInit => IInv /\ PairsInv
  BY MatchInitInv DEF MatchInit, PairsInv, Shapes, NoneMissed
<1>2. IInv /\ PairsInv /\ [MatchNext]_matchVars => IInv' /\ PairsInv'
  BY MatchStepInv, MatchStepPairs
<1>3. QED
  BY <1>1, <1>2, PTL DEF MatchSpec

------------------------------------------------------------------------------
(* The tasks by the library's numbers, and those a path has not used.      *)
Dom == DOMAIN LibraryTasks
Unused(path) == Dom \ Library!ToSet(path)

(* The library's tasks are those of the batch.                             *)
LEMMA LibraryDomain ==
    ASSUME tasks \in Seq(Task)
    PROVE  /\ Dom = 1..Len(tasks) /\ Len(tasks) \in Nat /\ LibraryTasks \in Seq(Library!Task)
           /\ Len(LibraryTasks) = Len(tasks) /\ Dom = DOMAIN tasks
<1>1. DOMAIN tasks = 1..Len(tasks) /\ Len(tasks) \in Nat /\ \A k \in DOMAIN tasks : tasks[k] \in Task
  OBVIOUS
<1>2. \A k \in DOMAIN tasks : LibraryTasks[k] \in Library!Task
  <2>1. \A k \in DOMAIN tasks : SenderOf(k) \in Traders
    <3>1. \A k \in DOMAIN Senders : Senders[k] \in Traders
      BY SenderAssumption
    <3>2. QED
      BY <3>1, SenderAssumption DEF SenderOf
  <2>2. QED
    BY <1>1, <2>1 DEF LibraryTasks, Task, Library!Task
<1>3. DOMAIN LibraryTasks = 1..Len(tasks)
  BY <1>1 DEF LibraryTasks
<1>4. LibraryTasks \in [1..Len(tasks) -> Library!Task]
  <2>1. LibraryTasks = [k \in 1..Len(tasks) |-> LibraryTasks[k]]
    BY <1>1 DEF LibraryTasks
  <2>2. QED
    BY <1>1, <1>2, <2>1
<1>5. \A n \in Nat : \A s \in [1..n -> Library!Task] : s \in Seq(Library!Task) /\ Len(s) = n
  OBVIOUS
<1>6. QED
  BY <1>1, <1>3, <1>4, <1>5 DEF Dom

(* The elements of two sequences one behind the other.                     *)
LEMMA ToSetOfConcat ==
    ASSUME NEW S
    PROVE  \A s, t \in Seq(S) :
             s \o t \in Seq(S) /\ Library!ToSet(s \o t) = Library!ToSet(s) \cup Library!ToSet(t)
<1> SUFFICES ASSUME NEW s \in Seq(S), NEW t \in Seq(S)
             PROVE  /\ s \o t \in Seq(S)
                    /\ Library!ToSet(s \o t) = Library!ToSet(s) \cup Library!ToSet(t)
  OBVIOUS
<1>1. /\ s \o t \in Seq(S) /\ DOMAIN s = 1..Len(s) /\ DOMAIN t = 1..Len(t)
      /\ DOMAIN (s \o t) = 1..(Len(s) + Len(t)) /\ Len(s) \in Nat /\ Len(t) \in Nat
      /\ \A k \in 1..(Len(s) + Len(t)) :
            (s \o t)[k] = IF k <= Len(s) THEN s[k] ELSE t[k - Len(s)]
  OBVIOUS
<1>2. \A k \in DOMAIN s : k \in DOMAIN (s \o t) /\ (s \o t)[k] = s[k]
  BY <1>1
<1>3. \A k \in DOMAIN t : Len(s) + k \in DOMAIN (s \o t) /\ (s \o t)[Len(s) + k] = t[k]
  BY <1>1
<1>4. \A k \in DOMAIN (s \o t) :
        \/ k \in DOMAIN s /\ (s \o t)[k] = s[k]
        \/ k - Len(s) \in DOMAIN t /\ (s \o t)[k] = t[k - Len(s)]
  BY <1>1
<1> DEFINE st == s \o t
<1>5. /\ Library!ToSet(s) = {s[k] : k \in DOMAIN s} /\ Library!ToSet(t) = {t[k] : k \in DOMAIN t}
      /\ Library!ToSet(st) = {st[k] : k \in DOMAIN st}
  BY DEF Library!ToSet
<1> HIDE DEF st
<1>6. {st[k] : k \in DOMAIN st} = {s[k] : k \in DOMAIN s} \cup {t[k] : k \in DOMAIN t}
  <2>1. \A k \in DOMAIN s : k \in DOMAIN st /\ st[k] = s[k]
    BY <1>2 DEF st
  <2>2. \A k \in DOMAIN t : Len(s) + k \in DOMAIN st /\ st[Len(s) + k] = t[k]
    BY <1>3 DEF st
  <2>3. \A k \in DOMAIN st :
          (k \in DOMAIN s /\ st[k] = s[k]) \/ (k - Len(s) \in DOMAIN t /\ st[k] = t[k - Len(s)])
    BY <1>4 DEF st
  <2>4. QED
    BY <2>1, <2>2, <2>3
<1>7. QED
  BY <1>1, <1>5, <1>6 DEF st

(* FlattenSeq joins sequences: it has the elements they have.              *)
LEMMA FlattenElements ==
    ASSUME NEW S, NEW ss \in Seq(Seq(S))
    PROVE  /\ Library!FlattenSeq(ss) \in Seq(S)
           /\ Library!ToSet(Library!FlattenSeq(ss)) = UNION {Library!ToSet(ss[k]) : k \in DOMAIN ss}
<1>1. CASE ss = <<>>
  <2>1. Library!FlattenSeq(ss) = <<>>
    BY <1>1 DEF Library!FlattenSeq
  <2>2. Library!ToSet(<<>>) = {} /\ DOMAIN ss = {} /\ <<>> \in Seq(S)
    BY <1>1 DEF Library!ToSet
  <2>3. QED
    BY <2>1, <2>2
<1>2. CASE ss # <<>>
  <2> DEFINE N == Len(ss)
             Joins(f) == f = [i_1 \in 1..N |-> IF i_1 = 1 THEN ss[i_1] ELSE f[i_1 - 1] \o ss[i_1]]
             flat == CHOOSE f : Joins(f)
  <2>1. N \in Nat /\ N # 0 /\ DOMAIN ss = 1..N /\ \A k \in 1..N : ss[k] \in Seq(S)
    BY <1>2
  <2>2. \E f : Joins(f)
    <3>1. \E g : g = [n \in Nat |-> Joining!Entry(ss, g, n)]
      <4>1. Nat \in SUBSET Nat /\ \A n \in Nat : n # 0 => n - 1 \in Nat
        OBVIOUS
      <4>2. QED
        BY <4>1, Joining!FunctionExists
    <3>2. PICK g : g = [n \in Nat |-> Joining!Entry(ss, g, n)]
      BY <3>1
    <3>3. \A n \in 1..N : g[n] = Joined(ss, g[n - 1], n)
      BY <3>2 DEF Joining!Entry
    <3> DEFINE f == [n \in 1..N |-> g[n]]
    <3>4. ASSUME NEW n \in 1..N PROVE f[n] = IF n = 1 THEN ss[n] ELSE f[n - 1] \o ss[n]
      <4>1. f[n] = Joined(ss, g[n - 1], n)
        BY <3>3
      <4>2. n # 1 => n - 1 \in 1..N
        BY <2>1
      <4>3. n # 1 => f[n - 1] = g[n - 1]
        BY <4>2
      <4>4. QED
        BY <4>1, <4>3 DEF Joined
    <3>5. Joins(f)
      BY <3>4
    <3>6. QED
      BY <3>5
  <2>3. Joins(flat)
    BY <2>2
  <2>4. Library!FlattenSeq(ss) = flat[N]
    BY <2>1 DEF Library!FlattenSeq
  <2> HIDE DEF flat
  <2>5. /\ flat[1] = ss[1]
        /\ \A n \in 1..N : n # 1 => flat[n] = flat[n - 1] \o ss[n]
    <3>1. flat = [n \in 1..N |-> IF n = 1 THEN ss[n] ELSE flat[n - 1] \o ss[n]]
      BY <2>3
    <3>2. \A n \in 1..N : flat[n] = IF n = 1 THEN ss[n] ELSE flat[n - 1] \o ss[n]
      BY <3>1, Zenon
    <3>3. 1 \in 1..N
      BY <2>1
    <3>4. QED
      BY <3>2, <3>3
  <2> HIDE DEF Joins
  <2> DEFINE Elements(n) == UNION {Library!ToSet(ss[k]) : k \in 1..n}
             Q == {n \in Nat : n + 1 <= N => /\ flat[n + 1] \in Seq(S)
                                             /\ Library!ToSet(flat[n + 1]) = Elements(n + 1)}
  <2>6. 0 \in Q
    <3>1. flat[1] \in Seq(S) /\ Library!ToSet(flat[1]) = Library!ToSet(ss[1]) /\ 1..1 = {1}
      BY <2>1, <2>5
    <3>2. QED
      BY <3>1
  <2>7. ASSUME NEW n \in Nat, n \in Q PROVE n + 1 \in Q
    <3> SUFFICES ASSUME n + 2 <= N
                 PROVE  /\ flat[n + 2] \in Seq(S)
                        /\ Library!ToSet(flat[n + 2]) = Elements(n + 2)
      <4>1. n + 1 \in Nat /\ n + 1 + 1 = n + 2
        OBVIOUS
      <4>2. QED
        BY <4>1
    <3>1. /\ flat[n + 1] \in Seq(S) /\ Library!ToSet(flat[n + 1]) = Elements(n + 1)
          /\ n + 2 \in 1..N /\ n + 2 # 1 /\ n + 2 - 1 = n + 1
      <4>1. n + 1 <= N /\ n + 2 \in 1..N /\ n + 2 # 1 /\ n + 2 - 1 = n + 1
        BY <2>1
      <4>2. QED
        BY <2>7, <4>1
    <3>2. flat[n + 2] = flat[n + 1] \o ss[n + 2] /\ ss[n + 2] \in Seq(S)
      <4> DEFINE m == n + 2
      <4>1. m \in 1..N /\ m # 1 /\ m - 1 = n + 1
        BY <3>1
      <4> HIDE DEF m
      <4>2. flat[m] = flat[m - 1] \o ss[m] /\ ss[m] \in Seq(S)
        BY <2>1, <2>5, <4>1
      <4>3. QED
        BY <4>1, <4>2 DEF m
    <3>3. \A s, t \in Seq(S) :
            s \o t \in Seq(S) /\ Library!ToSet(s \o t) = Library!ToSet(s) \cup Library!ToSet(t)
      BY ToSetOfConcat
    <3>4. Elements(n + 2) = Elements(n + 1) \cup Library!ToSet(ss[n + 2])
      <4>1. 1..(n + 2) = (1..(n + 1)) \cup {n + 2}
        OBVIOUS
      <4>2. QED
        BY <4>1
    <3> HIDE DEF Elements
    <3>5. QED
      BY <3>1, <3>2, <3>3, <3>4
  <2>8. Nat \subseteq Q
    <3> HIDE DEF Q
    <3>1. QED
      BY <2>6, <2>7, Joining!Induction
  <2>9. N - 1 \in Q /\ N - 1 + 1 = N
    <3>1. N - 1 \in Nat /\ N - 1 + 1 = N
      BY <2>1
    <3> HIDE DEF Q, N
    <3>2. QED
      BY <2>8, <3>1
  <2>10. flat[N] \in Seq(S) /\ Library!ToSet(flat[N]) = Elements(N)
    <3>1. N - 1 + 1 <= N
      BY <2>1
    <3>2. flat[N - 1 + 1] \in Seq(S) /\ Library!ToSet(flat[N - 1 + 1]) = Elements(N - 1 + 1)
      BY <2>9, <3>1
    <3>3. QED
      BY <2>9, <3>2
  <2>11. QED
    BY <2>1, <2>4, <2>10
<1>3. QED
  BY <1>1, <1>2

------------------------------------------------------------------------------
(* What findCircularPath goes by: a path that closes is a match, any other *)
(* is extended by the unused tasks it feeds.                               *)
Step(path, found) ==
    IF Len(path) >= 3 /\ Library!Closes(path) THEN <<path>>
    ELSE Library!FlattenSeq([k \in Dom |->
            IF k \notin Library!ToSet(path) /\ Library!Feeds(path[Len(path)], k)
            THEN found[Append(path, k)] ELSE <<>>])

(* Each task a path takes is one less it can take.                         *)
LEMMA OneUsed ==
    ASSUME tasks \in Seq(Task), NEW path \in Seq(Dom)
    PROVE  /\ IsFiniteSet(Unused(path)) /\ Cardinality(Unused(path)) \in Nat
           /\ \A k \in Unused(path) :
                 /\ Append(path, k) \in Seq(Dom)
                 /\ Cardinality(Unused(Append(path, k))) = Cardinality(Unused(path)) - 1
                 /\ Cardinality(Unused(path)) # 0
<1>1. IsFiniteSet(Dom)
  BY LibraryDomain, FS_Interval
<1>2. IsFiniteSet(Unused(path)) /\ Cardinality(Unused(path)) \in Nat
  BY <1>1, FS_Subset, FS_CardinalityType DEF Unused
<1>3. ASSUME NEW k \in Unused(path)
      PROVE  /\ Append(path, k) \in Seq(Dom)
             /\ Cardinality(Unused(Append(path, k))) = Cardinality(Unused(path)) - 1
             /\ Cardinality(Unused(path)) # 0
  <2>1. k \in Dom
    BY DEF Unused
  <2>2. /\ Append(path, k) \in Seq(Dom) /\ DOMAIN path = 1..Len(path) /\ Len(path) \in Nat
        /\ DOMAIN Append(path, k) = DOMAIN path \cup {Len(path) + 1}
        /\ Append(path, k)[Len(path) + 1] = k
        /\ \A j \in DOMAIN path : Append(path, k)[j] = path[j]
    BY <2>1
  <2>3. Library!ToSet(Append(path, k)) = Library!ToSet(path) \cup {k}
    BY <2>2 DEF Library!ToSet
  <2>4. Unused(Append(path, k)) = Unused(path) \ {k}
    BY <2>3 DEF Unused
  <2>5. Cardinality(Unused(path) \ {k}) = Cardinality(Unused(path)) - 1
    BY <1>2, FS_RemoveElement
  <2>6. Cardinality(Unused(path)) # 0
    BY <1>2, FS_EmptySet
  <2>7. QED
    BY <2>2, <2>4, <2>5, <2>6
<1>4. QED
  BY <1>2, <1>3

(* The depth-first search is defined on every path, and does what its      *)
(* definition says.                                                        *)
LEMMA SearchUnfolds ==
    ASSUME tasks \in Seq(Task)
    PROVE  \A path \in Seq(Dom) :
             Library!FindCircularPath[path] = Step(path, Library!FindCircularPath)
<1> DEFINE p == [dom |-> Dom,
                 closed |-> {path \in Seq(Dom) : Len(path) >= 3 /\ Library!Closes(path)},
                 feeds |-> {e \in Seq(Dom) \X Dom : Library!Feeds(e[1][Len(e[1])], e[2])}]
           Solves(f) == f = [path \in Seq(Dom) |-> Step(path, f)]
<1>1. \E g : g = [n \in Nat |-> Levels!Entry(p, g, n)]
  <2>1. Nat \in SUBSET Nat /\ \A n \in Nat : n # 0 => n - 1 \in Nat
    OBVIOUS
  <2> HIDE DEF p
  <2>2. QED
    BY <2>1, Levels!FunctionExists
<1>2. PICK g : g = [n \in Nat |-> Levels!Entry(p, g, n)]
  BY <1>1
<1>3. /\ p.dom = Dom
      /\ \A path \in Seq(Dom) : path \in p.closed <=> Len(path) >= 3 /\ Library!Closes(path)
      /\ \A path \in Seq(Dom), k \in Dom :
            <<path, k>> \in p.feeds <=> Library!Feeds(path[Len(path)], k)
  OBVIOUS
<1> HIDE DEF p
<1>4. ASSUME NEW n \in Nat, NEW path \in Seq(Dom)
      PROVE  g[n + 1][path] = Step(path, g[n])
  <2>1. n + 1 \in Nat /\ n + 1 # 0 /\ n + 1 - 1 = n
    OBVIOUS
  <2>2. g[n + 1] = Deeper(p, g[n], n + 1)
    BY <1>2, <2>1 DEF Levels!Entry
  <2>3. g[n + 1][path] = Found(p, path, g[n])
    BY <1>3, <2>2 DEF Deeper
  <2>4. [k \in Dom |-> IF k \notin Library!ToSet(path) /\ <<path, k>> \in p.feeds
                       THEN g[n][Append(path, k)] ELSE <<>>] =
        [k \in Dom |-> IF k \notin Library!ToSet(path) /\ Library!Feeds(path[Len(path)], k)
                       THEN g[n][Append(path, k)] ELSE <<>>]
    BY <1>3
  <2>5. QED
    BY <1>3, <2>3, <2>4 DEF Found, Step
<1> DEFINE f == [path \in Seq(Dom) |-> g[Cardinality(Unused(path)) + 1][path]]
<1>5. ASSUME NEW path \in Seq(Dom) PROVE f[path] = Step(path, f)
  <2> DEFINE c == Cardinality(Unused(path))
  <2>1. f[path] = Step(path, g[c])
    BY <1>4, OneUsed
  <2>2. ASSUME NEW k \in Dom, k \notin Library!ToSet(path)
        PROVE  f[Append(path, k)] = g[c][Append(path, k)]
    <3>1. k \in Unused(path)
      BY <2>2 DEF Unused
    <3>2. Append(path, k) \in Seq(Dom) /\ Cardinality(Unused(Append(path, k))) = c - 1 /\ c \in Nat
      BY <3>1, OneUsed
    <3>3. c - 1 + 1 = c
      BY <3>2
    <3> HIDE DEF c
    <3>4. QED
      BY <3>2, <3>3
  <2> HIDE DEF f, c
  <2>3. [k \in Dom |-> IF k \notin Library!ToSet(path) /\ Library!Feeds(path[Len(path)], k)
                       THEN f[Append(path, k)] ELSE <<>>] =
        [k \in Dom |-> IF k \notin Library!ToSet(path) /\ Library!Feeds(path[Len(path)], k)
                       THEN g[c][Append(path, k)] ELSE <<>>]
    BY <2>2
  <2>4. QED
    BY <2>1, <2>3 DEF Step
<1>6. Solves(f)
  BY <1>5
<1>7. Library!FindCircularPath = CHOOSE h : Solves(h)
  BY DEF Library!FindCircularPath, Step, Dom
<1> HIDE DEF f
<1>8. Solves(Library!FindCircularPath)
  BY <1>6, <1>7
<1>9. QED
  BY <1>8

------------------------------------------------------------------------------
(* The paths the search comes to.                                          *)
Path == {path \in Seq(Dom) : path # <<>> /\ Distinct(path) /\ Library!Connected(path)}

(* The circles are the paths of three or more that close: as they name no  *)
(* task twice they are no longer than the batch.                           *)
LEMMA CirclesArePaths ==
    ASSUME tasks \in Seq(Task)
    PROVE  Library!Circles = {path \in Path : Len(path) >= 3 /\ Library!Closes(path)}
<1>1. Dom = 1..Len(tasks) /\ Len(tasks) \in Nat /\ Len(LibraryTasks) = Len(tasks)
  BY LibraryDomain
<1>2. ASSUME NEW c \in Library!Circles
      PROVE  c \in Path /\ Len(c) >= 3 /\ Library!Closes(c)
  <2>1. /\ \E m \in 3..Len(tasks) : c \in [1..m -> Dom]
        /\ Distinct(c) /\ Library!Connected(c) /\ Library!Closes(c)
    BY <1>1 DEF Library!Circles, Distinct, Dom
  <2>2. PICK m \in 3..Len(tasks) : c \in [1..m -> Dom]
    BY <2>1
  <2>3. c \in Seq(Dom) /\ Len(c) = m /\ m >= 3 /\ m \in Nat
    BY <1>1, <2>2
  <2>4. c # <<>>
    BY <2>3
  <2>5. QED
    BY <2>1, <2>3, <2>4 DEF Path
<1>3. ASSUME NEW c \in Path, Len(c) >= 3, Library!Closes(c)
      PROVE  c \in Library!Circles
  <2>1. c \in Seq(Dom) /\ Distinct(c) /\ Library!Connected(c) /\ Len(c) \in Nat
    BY DEF Path
  <2>2. Members(c) \in SUBSET Dom
    BY <2>1 DEF Members
  <2>3. IsFiniteSet(Dom) /\ Cardinality(Dom) = Len(tasks)
    <3>1. \A n \in Nat : IsFiniteSet(1..n) /\ Cardinality(1..n) = n
      BY FS_Interval
    <3>2. QED
      BY <1>1, <3>1
  <2>4. Len(c) <= Len(tasks)
    BY <2>1, <2>2, <2>3, DistinctCardinality, FS_Subset
  <2>5. Len(c) \in 3..Len(tasks) /\ c \in [1..Len(c) -> Dom]
    BY <1>1, <1>3, <2>1, <2>4
  <2>6. QED
    BY <1>1, <1>3, <2>1, <2>5 DEF Library!Circles, Distinct, Dom
<1>4. QED
  BY <1>2, <1>3

(* A task that is fed and not used makes a path longer.                    *)
LEMMA PathExtends ==
    ASSUME tasks \in Seq(Task), NEW path \in Path, NEW k \in Unused(path),
           Library!Feeds(path[Len(path)], k)
    PROVE  Append(path, k) \in Path
<1>1. path \in Seq(Dom) /\ Distinct(path) /\ Library!Connected(path)
  BY DEF Path
<1>2. k \in Dom /\ \A j \in DOMAIN path : path[j] # k
  BY DEF Unused, Library!ToSet
<1> DEFINE longer == Append(path, k)
<1>3. /\ longer \in Seq(Dom) /\ DOMAIN path = 1..Len(path) /\ Len(path) \in Nat
      /\ Len(longer) = Len(path) + 1 /\ longer # <<>>
      /\ DOMAIN longer = DOMAIN path \cup {Len(path) + 1}
      /\ longer[Len(path) + 1] = k /\ \A j \in DOMAIN path : longer[j] = path[j]
  BY <1>1, <1>2
<1> HIDE DEF longer
<1>4. Distinct(longer)
  BY <1>1, <1>2, <1>3 DEF Distinct
<1>5. Library!Connected(longer)
  <2>1. ASSUME NEW j \in 1..(Len(longer) - 1) PROVE Library!Feeds(longer[j], longer[j + 1])
    <3>1. CASE j = Len(path)
      <4>1. j \in DOMAIN path
        BY <1>3, <2>1, <3>1
      <4>2. longer[j] = path[Len(path)] /\ longer[j + 1] = k
        BY <1>3, <3>1, <4>1
      <4>3. QED
        BY <4>2
    <3>2. CASE j # Len(path)
      <4>1. Len(longer) - 1 = Len(path) /\ Len(path) \in Nat
        BY <1>3
      <4>2. j \in Nat /\ 1 <= j /\ j < Len(path)
        BY <3>2, <4>1
      <4>3. j \in 1..(Len(path) - 1) /\ j \in 1..Len(path) /\ j + 1 \in 1..Len(path)
        BY <1>3, <4>2
      <4>4. longer[j] = path[j] /\ longer[j + 1] = path[j + 1]
        BY <1>3, <4>3
      <4>5. QED
        BY <1>1, <4>3, <4>4 DEF Library!Connected
    <3>3. QED
      BY <3>1, <3>2
  <2>2. QED
    BY <2>1 DEF Library!Connected
<1>6. QED
  BY <1>3, <1>4, <1>5 DEF Path, longer

(* What a path is extended to, task by task.                               *)
Extensions(path) ==
    [k \in Dom |-> IF k \notin Library!ToSet(path) /\ Library!Feeds(path[Len(path)], k)
                   THEN Library!FindCircularPath[Append(path, k)] ELSE <<>>]

(* Sequences, one for each task of the batch, are a sequence of sequences. *)
LEMMA OnePerTask ==
    ASSUME tasks \in Seq(Task), NEW S, NEW ss, ss = [k \in Dom |-> ss[k]], \A k \in Dom : ss[k] \in S
    PROVE  ss \in Seq(S) /\ DOMAIN ss = Dom
<1>1. Dom = 1..Len(tasks) /\ Len(tasks) \in Nat
  BY LibraryDomain
<1>2. ss \in [1..Len(tasks) -> S]
  BY <1>1
<1>3. \A n \in Nat : \A s \in [1..n -> S] : s \in Seq(S)
  OBVIOUS
<1>4. QED
  BY <1>1, <1>2, <1>3

(* The search is sound: all it finds from a path are circles.              *)
LEMMA FindsCirclesOnly ==
    ASSUME tasks \in Seq(Task)
    PROVE  \A path \in Path :
             /\ Library!FindCircularPath[path] \in Seq(Path)
             /\ Library!ToSet(Library!FindCircularPath[path]) \subseteq Library!Circles
<1> DEFINE F == Library!FindCircularPath
           Sound(path) == F[path] \in Seq(Path) /\ Library!ToSet(F[path]) \subseteq Library!Circles
           Q == {n \in Nat : \A path \in Path : Cardinality(Unused(path)) <= n => Sound(path)}
<1>1. \A path \in Path : path \in Seq(Dom) /\ F[path] = Step(path, F)
  BY SearchUnfolds DEF Path
<1>2. ASSUME NEW path \in Path, Len(path) >= 3 /\ Library!Closes(path)
      PROVE  Sound(path)
  <2>1. F[path] = <<path>>
    BY <1>1, <1>2 DEF Step
  <2>2. path \in Library!Circles
    BY <1>2, CirclesArePaths
  <2>3. <<path>> \in Seq(Path) /\ Library!ToSet(<<path>>) = {path}
    BY DEF Library!ToSet
  <2>4. QED
    BY <2>1, <2>2, <2>3
<1>3. ASSUME NEW path \in Path, ~(Len(path) >= 3 /\ Library!Closes(path)),
             \A k \in Unused(path) :
                Library!Feeds(path[Len(path)], k) => Sound(Append(path, k))
      PROVE  Sound(path)
  <2> DEFINE ss == Extensions(path)
  <2>1. F[path] = Library!FlattenSeq(ss)
    BY <1>1, <1>3 DEF Step, Extensions
  <2>2. \A k \in Dom : ss[k] \in Seq(Path) /\ Library!ToSet(ss[k]) \subseteq Library!Circles
    <3> SUFFICES ASSUME NEW k \in Dom
                 PROVE  ss[k] \in Seq(Path) /\ Library!ToSet(ss[k]) \subseteq Library!Circles
      OBVIOUS
    <3>1. CASE k \notin Library!ToSet(path) /\ Library!Feeds(path[Len(path)], k)
      <4>1. k \in Unused(path) /\ ss[k] = F[Append(path, k)]
        BY <3>1 DEF Unused, Extensions
      <4>2. QED
        BY <1>3, <3>1, <4>1
    <3>2. CASE ~(k \notin Library!ToSet(path) /\ Library!Feeds(path[Len(path)], k))
      <4>1. ss[k] = <<>>
        BY <3>2 DEF Extensions
      <4>2. <<>> \in Seq(Path) /\ Library!ToSet(<<>>) = {}
        BY DEF Library!ToSet
      <4>3. QED
        BY <4>1, <4>2
    <3>3. QED
      BY <3>1, <3>2
  <2>3. ss = [k \in Dom |-> ss[k]]
    BY DEF Extensions
  <2> HIDE DEF ss
  <2>4. ss \in Seq(Seq(Path)) /\ DOMAIN ss = Dom
    BY <2>2, <2>3, OnePerTask
  <2>5. /\ Library!FlattenSeq(ss) \in Seq(Path)
        /\ Library!ToSet(Library!FlattenSeq(ss)) = UNION {Library!ToSet(ss[k]) : k \in DOMAIN ss}
    BY <2>4, FlattenElements
  <2>6. UNION {Library!ToSet(ss[k]) : k \in DOMAIN ss} \subseteq Library!Circles
    BY <2>2, <2>4
  <2>7. QED
    BY <2>1, <2>5, <2>6
<1> HIDE DEF Sound
<1>4. \A path \in Path : Cardinality(Unused(path)) \in Nat
  BY <1>1, OneUsed
<1>5. 0 \in Q
  <2> SUFFICES ASSUME NEW path \in Path, Cardinality(Unused(path)) <= 0 PROVE Sound(path)
    OBVIOUS
  <2>1. \A k \in Unused(path) : FALSE
    BY <1>1, <1>4, OneUsed
  <2>2. QED
    BY <1>2, <1>3, <2>1
<1>6. ASSUME NEW n \in Nat, n \in Q PROVE n + 1 \in Q
  <2> SUFFICES ASSUME NEW path \in Path, Cardinality(Unused(path)) <= n + 1 PROVE Sound(path)
    OBVIOUS
  <2>1. ASSUME NEW k \in Unused(path), Library!Feeds(path[Len(path)], k)
        PROVE  Sound(Append(path, k))
    <3>1. Append(path, k) \in Path
      BY <2>1, PathExtends
    <3>2. Cardinality(Unused(Append(path, k))) = Cardinality(Unused(path)) - 1
      BY <1>1, OneUsed
    <3>3. Cardinality(Unused(Append(path, k))) <= n
      BY <1>4, <3>2
    <3>4. QED
      BY <1>6, <3>1, <3>3
  <2>2. QED
    BY <1>2, <1>3, <2>1
<1>7. Nat \subseteq Q
  <2> HIDE DEF Q
  <2>1. QED
    BY <1>5, <1>6, Levels!Induction
<1>8. \A path \in Path : Sound(path)
  <2> SUFFICES ASSUME NEW path \in Path PROVE Sound(path)
    OBVIOUS
  <2>1. Cardinality(Unused(path)) \in Q /\ Cardinality(Unused(path)) <= Cardinality(Unused(path))
    BY <1>4, <1>7
  <2>2. QED
    BY <2>1
<1>9. QED
  BY <1>8 DEF Sound

(* The first tasks of a circle, up to a place.                             *)
Prefix(c, l) == [j \in 1..l |-> c[j]]

(* A circle cut off anywhere is a path the search may come to.             *)
LEMMA PrefixesArePaths ==
    ASSUME tasks \in Seq(Task), NEW c \in Path, NEW l \in 1..Len(c)
    PROVE  /\ Prefix(c, l) \in Path /\ Len(Prefix(c, l)) = l /\ Prefix(c, l)[l] = c[l]
           /\ l = Len(c) => Prefix(c, l) = c
           /\ l < Len(c) => /\ c[l + 1] \in Unused(Prefix(c, l))
                            /\ Append(Prefix(c, l), c[l + 1]) = Prefix(c, l + 1)
                            /\ Library!Feeds(c[l], c[l + 1])
<1>1. /\ c \in Seq(Dom) /\ Distinct(c) /\ Library!Connected(c) /\ Len(c) \in Nat /\ l \in Nat
      /\ DOMAIN c = 1..Len(c) /\ \A j \in 1..Len(c) : c[j] \in Dom
  BY DEF Path
<1>2. \A m \in 1..Len(c) : /\ Prefix(c, m) \in Seq(Dom) /\ Len(Prefix(c, m)) = m
                           /\ DOMAIN Prefix(c, m) = 1..m
                           /\ \A j \in 1..m : Prefix(c, m)[j] = c[j] /\ j \in 1..Len(c)
  BY <1>1 DEF Prefix
<1>3. Prefix(c, l) # <<>> /\ Distinct(Prefix(c, l))
  <2>1. /\ Len(Prefix(c, l)) = l /\ DOMAIN Prefix(c, l) = 1..l /\ l # 0
        /\ \A j \in 1..l : Prefix(c, l)[j] = c[j] /\ j \in DOMAIN c
    BY <1>1, <1>2
  <2>2. Distinct(Prefix(c, l))
    BY <1>1, <2>1 DEF Distinct
  <2>3. Prefix(c, l) # <<>>
    BY <2>1
  <2>4. QED
    BY <2>2, <2>3
<1>4. Library!Connected(Prefix(c, l))
  <2>1. ASSUME NEW j \in 1..(l - 1)
        PROVE  Library!Feeds(Prefix(c, l)[j], Prefix(c, l)[j + 1])
    <3>1. j \in 1..l /\ j + 1 \in 1..l /\ j \in 1..(Len(c) - 1)
      BY <1>1
    <3>2. Prefix(c, l)[j] = c[j] /\ Prefix(c, l)[j + 1] = c[j + 1]
      BY <1>2, <3>1
    <3>3. QED
      BY <1>1, <3>1, <3>2 DEF Library!Connected
  <2>2. QED
    BY <1>2, <2>1 DEF Library!Connected
<1>5. l = Len(c) => Prefix(c, l) = c
  BY <1>1 DEF Prefix
<1>6. ASSUME l < Len(c)
      PROVE  /\ c[l + 1] \in Unused(Prefix(c, l))
             /\ Append(Prefix(c, l), c[l + 1]) = Prefix(c, l + 1)
             /\ Library!Feeds(c[l], c[l + 1])
  <2>1. l + 1 \in 1..Len(c) /\ l \in 1..(Len(c) - 1)
    BY <1>1, <1>6
  <2>2. Library!Feeds(c[l], c[l + 1])
    BY <1>1, <2>1 DEF Library!Connected
  <2>3. \A j \in 1..l : Prefix(c, l)[j] # c[l + 1]
    <3> SUFFICES ASSUME NEW j \in 1..l PROVE Prefix(c, l)[j] # c[l + 1]
      OBVIOUS
    <3>1. j \in DOMAIN c /\ l + 1 \in DOMAIN c /\ j # l + 1
      BY <1>1, <2>1
    <3>2. c[j] # c[l + 1]
      BY <1>1, <3>1 DEF Distinct
    <3>3. QED
      BY <1>2, <3>2
  <2>4. c[l + 1] \in Unused(Prefix(c, l))
    BY <1>1, <1>2, <2>1, <2>3 DEF Unused, Library!ToSet
  <2>5. Append(Prefix(c, l), c[l + 1]) = Prefix(c, l + 1)
    BY <1>1, <1>2, <2>1 DEF Prefix
  <2>6. QED
    BY <2>2, <2>4, <2>5
<1>7. Prefix(c, l) \in Path
  BY <1>2, <1>3, <1>4 DEF Path
<1>8. Len(Prefix(c, l)) = l /\ Prefix(c, l)[l] = c[l]
  <2>1. l \in 1..l
    BY <1>1
  <2>2. QED
    BY <1>2, <2>1
<1>9. QED
  BY <1>5, <1>6, <1>7, <1>8

(* And it is complete where it counts: from the first task of a circle it  *)
(* finds one, that circle or a shorter one that closes before.             *)
LEMMA FindsSomeCircle ==
    ASSUME tasks \in Seq(Task), NEW c \in Library!Circles
    PROVE  Library!FindCircularPath[<<c[1]>>] # <<>> /\ c[1] \in Dom
<1> DEFINE F == Library!FindCircularPath
           Q == {n \in Nat : \A l \in 1..Len(c) : l + n = Len(c) => F[Prefix(c, l)] # <<>>}
<1>1. c \in Path /\ c \in Seq(Dom) /\ Len(c) >= 3 /\ Library!Closes(c) /\ Len(c) \in Nat
  BY CirclesArePaths DEF Path
<1>2. \A path \in Path : path \in Seq(Dom) /\ F[path] = Step(path, F)
  BY SearchUnfolds DEF Path
<1>3. ASSUME NEW path \in Path, Len(path) >= 3, Library!Closes(path)
      PROVE  F[path] # <<>>
  <2>1. F[path] = <<path>>
    BY <1>2, <1>3 DEF Step
  <2>2. Len(<<path>>) = 1 /\ Len(<<>>) = 0
    OBVIOUS
  <2>3. QED
    BY <2>1, <2>2
<1>4. 0 \in Q
  <2> SUFFICES ASSUME NEW l \in 1..Len(c), l + 0 = Len(c) PROVE F[Prefix(c, l)] # <<>>
    OBVIOUS
  <2>1. Prefix(c, l) = c
    BY <1>1, PrefixesArePaths
  <2>2. QED
    BY <1>1, <1>3, <2>1
<1>5. ASSUME NEW n \in Nat, n \in Q PROVE n + 1 \in Q
  <2> SUFFICES ASSUME NEW l \in 1..Len(c), l + (n + 1) = Len(c) PROVE F[Prefix(c, l)] # <<>>
    OBVIOUS
  <2> DEFINE path == Prefix(c, l)
             k == c[l + 1]
  <2>1. l + 1 \in 1..Len(c) /\ l + 1 + n = Len(c) /\ l < Len(c)
    BY <1>1
  <2>2. F[Prefix(c, l + 1)] # <<>>
    BY <1>5, <2>1
  <2>3. /\ path \in Path /\ Len(path) = l /\ path[l] = c[l] /\ k \in Unused(path)
        /\ Append(path, k) = Prefix(c, l + 1) /\ Library!Feeds(path[Len(path)], k)
    <3>1. /\ path \in Path /\ Len(path) = l /\ path[l] = c[l] /\ k \in Unused(path)
          /\ Append(path, k) = Prefix(c, l + 1) /\ Library!Feeds(c[l], k)
      BY <1>1, <2>1, PrefixesArePaths
    <3> HIDE DEF path, k
    <3>2. QED
      BY <3>1
  <2> HIDE DEF path, k
  <2>4. CASE Len(path) >= 3 /\ Library!Closes(path)
    BY <1>3, <2>3, <2>4 DEF path
  <2>5. CASE ~(Len(path) >= 3 /\ Library!Closes(path))
    <3>1. F[path] = Library!FlattenSeq(Extensions(path))
      BY <1>2, <2>3, <2>5 DEF Step, Extensions
    <3>2. k \in Dom /\ k \notin Library!ToSet(path)
      BY <2>3 DEF Unused
    <3>3. k \in DOMAIN Extensions(path) /\ Extensions(path)[k] = F[Append(path, k)]
      BY <2>3, <3>2 DEF Extensions
    <3>4. Append(path, k) \in Path
      BY <2>3, PathExtends
    <3>5. F[Append(path, k)] \in Seq(Path) /\ F[Append(path, k)] # <<>>
      BY <2>2, <2>3, <3>4, FindsCirclesOnly
    <3>6. Library!ToSet(Extensions(path)[k]) # {}
      <4>1. \A s \in Seq(Path) : s # <<>> => 1 \in DOMAIN s
        OBVIOUS
      <4>2. QED
        BY <3>3, <3>5, <4>1 DEF Library!ToSet
    <3>7. Extensions(path) \in Seq(Seq(Path))
      <4>1. \A a \in Dom : Extensions(path)[a] \in Seq(Path)
        <5> SUFFICES ASSUME NEW a \in Dom PROVE Extensions(path)[a] \in Seq(Path)
          OBVIOUS
        <5>1. CASE a \notin Library!ToSet(path) /\ Library!Feeds(path[Len(path)], a)
          <6>1. a \in Unused(path) /\ Extensions(path)[a] = F[Append(path, a)]
            BY <5>1 DEF Unused, Extensions
          <6>2. QED
            BY <2>3, <5>1, <6>1, PathExtends, FindsCirclesOnly
        <5>2. CASE ~(a \notin Library!ToSet(path) /\ Library!Feeds(path[Len(path)], a))
          BY <5>2 DEF Extensions
        <5>3. QED
          BY <5>1, <5>2
      <4>2. Extensions(path) = [a \in Dom |-> Extensions(path)[a]]
        BY DEF Extensions
      <4>3. QED
        BY <4>1, <4>2, OnePerTask
    <3>8. Library!ToSet(F[path]) # {}
      <4> DEFINE ss == Extensions(path)
      <4> HIDE DEF ss
      <4>1. ss \in Seq(Seq(Path)) /\ k \in DOMAIN ss /\ Library!ToSet(ss[k]) # {}
        BY <3>3, <3>6, <3>7 DEF ss
      <4>2. Library!ToSet(Library!FlattenSeq(ss)) = UNION {Library!ToSet(ss[j]) : j \in DOMAIN ss}
        BY <4>1, FlattenElements
      <4>3. QED
        BY <3>1, <4>1, <4>2 DEF ss
    <3>9. Library!ToSet(<<>>) = {}
      BY DEF Library!ToSet
    <3>10. QED
      BY <3>8, <3>9 DEF path
  <2>6. QED
    BY <2>4, <2>5
<1>6. Nat \subseteq Q
  <2> HIDE DEF Q
  <2>1. QED
    BY <1>4, <1>5, Levels!Induction
<1>7. Len(c) - 1 \in Nat /\ 1 \in 1..Len(c) /\ 1 + (Len(c) - 1) = Len(c)
  BY <1>1
<1>8. F[Prefix(c, 1)] # <<>>
  BY <1>6, <1>7
<1>9. Prefix(c, 1) = <<c[1]>>
  BY DEF Prefix
<1>10. c[1] \in Dom
  BY <1>1, <1>7
<1>11. QED
  BY <1>8, <1>9, <1>10

------------------------------------------------------------------------------
(* The circles the search starts at each task for: circles, and some if    *)
(* the batch has one.                                                      *)
LEMMA CircularMatchesFound ==
    ASSUME tasks \in Seq(Task)
    PROVE  /\ Library!FindCircularMatches \in Seq(Path)
           /\ Library!ToSet(Library!FindCircularMatches) \subseteq Library!Circles
           /\ Library!Circles # {} => Library!ToSet(Library!FindCircularMatches) # {}
<1> DEFINE F == Library!FindCircularPath
           ss == [k \in Dom |-> F[<<k>>]]
<1>1. Dom = 1..Len(tasks) /\ Len(LibraryTasks) = Len(tasks) /\ Len(tasks) \in Nat
  BY LibraryDomain
<1>2. \A k \in Dom : <<k>> \in Path
  BY DEF Path, Distinct, Library!Connected
<1>3. \A k \in Dom : ss[k] \in Seq(Path) /\ Library!ToSet(ss[k]) \subseteq Library!Circles
  BY <1>2, FindsCirclesOnly
<1>4. Library!FindCircularMatches = IF Len(tasks) < 3 THEN <<>> ELSE Library!FlattenSeq(ss)
  BY <1>1 DEF Library!FindCircularMatches, Dom
<1>5. ss = [k \in Dom |-> ss[k]]
  OBVIOUS
<1>6. ASSUME NEW c \in Library!Circles
      PROVE  Len(tasks) >= 3 /\ \E k \in Dom : ss[k] # <<>>
  <2>1. Len(tasks) >= 3
    BY <1>1 DEF Library!Circles
  <2>2. F[<<c[1]>>] # <<>> /\ c[1] \in Dom
    BY FindsSomeCircle
  <2>3. QED
    BY <2>1, <2>2
<1> HIDE DEF ss
<1>7. ss \in Seq(Seq(Path)) /\ DOMAIN ss = Dom
  BY <1>3, <1>5, OnePerTask
<1>8. /\ Library!FlattenSeq(ss) \in Seq(Path)
      /\ Library!ToSet(Library!FlattenSeq(ss)) = UNION {Library!ToSet(ss[k]) : k \in Dom}
  BY <1>7, FlattenElements
<1>9. Library!ToSet(<<>>) = {} /\ <<>> \in Seq(Path)
  BY DEF Library!ToSet
<1>10. Library!Circles # {} => Library!ToSet(Library!FindCircularMatches) # {}
  <2> SUFFICES ASSUME NEW c \in Library!Circles PROVE Library!ToSet(Library!FindCircularMatches) # {}
    OBVIOUS
  <2>1. PICK k \in Dom : ss[k] # <<>>
    BY <1>6
  <2>2. \A s \in Seq(Path) : s # <<>> => 1 \in DOMAIN s
    OBVIOUS
  <2>3. Library!ToSet(ss[k]) # {}
    BY <1>3, <2>1, <2>2 DEF Library!ToSet
  <2>4. ~(Len(tasks) < 3)
    BY <1>1, <1>6
  <2>5. QED
    BY <1>4, <1>8, <2>3, <2>4
<1>11. QED
  BY <1>3, <1>4, <1>8, <1>9, <1>10

(* What the library answers with: a circle if the batch has one, and a     *)
(* single task if not.                                                     *)
Best(result) ==
    IF Library!Circles # {} THEN result.feasibility = "CIRCULAR" /\ result.tasks \in Library!Circles
    ELSE result.feasibility = "AMM" /\ \E k \in Dom : result.tasks = <<k>>

Results ==
    LET combinations == Library!GenerateTaskCombinations
    IN  [k \in DOMAIN combinations |-> Library!ComputePossibleResult(combinations[k])]

(* The best of all results is a circle if there is any.                    *)
LEMMA BestIsBest ==
    ASSUME tasks \in Seq(Task), tasks # <<>>
    PROVE  Best(Library!ComputeBestResult(Results))
<1> DEFINE singles == [k \in Dom |-> <<k>>]
           matches == Library!FindCircularMatches
           combinations == singles \o matches
           with(feasibility) == {k \in DOMAIN Results : Results[k].feasibility = feasibility}
<1>1. Dom = 1..Len(tasks) /\ Len(LibraryTasks) = Len(tasks) /\ Len(tasks) \in Nat /\ Len(tasks) # 0
  BY LibraryDomain
<1>2. /\ matches \in Seq(Path) /\ Library!ToSet(matches) \subseteq Library!Circles
      /\ Library!Circles # {} => Library!ToSet(matches) # {}
  BY CircularMatchesFound
<1>3. singles \in Seq(Seq(Dom)) /\ Len(singles) = Len(tasks) /\ \A k \in Dom : singles[k] = <<k>>
  <2>1. \A n \in Nat : \A s \in [1..n -> Seq(Dom)] : s \in Seq(Seq(Dom)) /\ Len(s) = n
    OBVIOUS
  <2>2. singles \in [1..Len(tasks) -> Seq(Dom)]
    BY <1>1
  <2>3. QED
    BY <1>1, <2>1, <2>2
<1>4. Library!GenerateTaskCombinations = combinations
  BY DEF Library!GenerateTaskCombinations, Dom
<1> HIDE DEF singles, matches
<1>5. matches \in Seq(Seq(Dom))
  BY <1>2 DEF Path
<1>6. /\ DOMAIN combinations = 1..(Len(tasks) + Len(matches)) /\ Len(matches) \in Nat
      /\ DOMAIN matches = 1..Len(matches)
      /\ \A k \in 1..(Len(tasks) + Len(matches)) :
            combinations[k] = IF k <= Len(tasks) THEN singles[k] ELSE matches[k - Len(tasks)]
  <2>1. \A s, t \in Seq(Seq(Dom)) :
          /\ DOMAIN (s \o t) = 1..(Len(s) + Len(t)) /\ Len(t) \in Nat /\ DOMAIN t = 1..Len(t)
          /\ \A k \in 1..(Len(s) + Len(t)) :
                (s \o t)[k] = IF k <= Len(s) THEN s[k] ELSE t[k - Len(s)]
    OBVIOUS
  <2>2. /\ DOMAIN combinations = 1..(Len(singles) + Len(matches)) /\ Len(matches) \in Nat
        /\ DOMAIN matches = 1..Len(matches)
        /\ \A k \in 1..(Len(singles) + Len(matches)) :
              combinations[k] = IF k <= Len(singles) THEN singles[k] ELSE matches[k - Len(singles)]
    <3> HIDE DEF Dom
    <3>1. QED
      BY <1>3, <1>5, <2>1, Zenon
  <2>3. QED
    BY <1>3, <2>2, Zenon
<1> HIDE DEF combinations
<1>7. \A k \in Dom : /\ k \in DOMAIN combinations /\ combinations[k] = <<k>>
  BY <1>1, <1>3, <1>6
<1>8. \A k \in DOMAIN combinations :
        (k \in Dom /\ combinations[k] = <<k>>) \/ combinations[k] \in Library!ToSet(matches)
  <2> SUFFICES ASSUME NEW k \in DOMAIN combinations, k \notin Dom
               PROVE  combinations[k] \in Library!ToSet(matches)
    BY <1>7
  <2>1. k - Len(tasks) \in DOMAIN matches /\ combinations[k] = matches[k - Len(tasks)]
    BY <1>1, <1>6
  <2>2. QED
    BY <2>1 DEF Library!ToSet
<1>9. \A q \in Library!ToSet(matches) : \E k \in DOMAIN combinations : combinations[k] = q
  <2> SUFFICES ASSUME NEW j \in DOMAIN matches
               PROVE  \E k \in DOMAIN combinations : combinations[k] = matches[j]
    BY DEF Library!ToSet
  <2>1. /\ j + Len(tasks) \in 1..(Len(tasks) + Len(matches)) /\ ~(j + Len(tasks) <= Len(tasks))
        /\ j + Len(tasks) - Len(tasks) = j
    BY <1>1, <1>6
  <2>2. QED
    BY <1>6, <2>1
<1>10. \A k \in Dom : /\ Library!ComputePossibleResult(<<k>>).tasks = <<k>>
                     /\ Library!ComputePossibleResult(<<k>>).feasibility = "AMM"
  BY DEF Library!ComputePossibleResult
<1>11. \A q \in Library!Circles :
         Library!ComputePossibleResult(q) = [tasks |-> q, feasibility |-> "CIRCULAR"]
  <2> SUFFICES ASSUME NEW q \in Library!Circles
               PROVE  Library!ComputePossibleResult(q) = [tasks |-> q, feasibility |-> "CIRCULAR"]
    OBVIOUS
  <2>1. Len(q) >= 3 /\ Len(q) # 1 /\ Library!Closes(q) /\ Library!Connected(q)
    <3>1. q \in Path /\ Len(q) >= 3 /\ Library!Closes(q) /\ Library!Connected(q) /\ Len(q) \in Nat
      BY CirclesArePaths DEF Path
    <3>2. QED
      BY <3>1
  <2>2. QED
    BY <2>1 DEF Library!ComputePossibleResult, Library!IsCombinationPossible
<1>12. /\ DOMAIN Results = DOMAIN combinations
       /\ \A k \in DOMAIN combinations : Results[k] = Library!ComputePossibleResult(combinations[k])
  BY <1>4 DEF Results
<1>13. with("CIRCULAR") \in SUBSET Nat /\ with("AMM") \in SUBSET Nat
  BY <1>6, <1>12
<1>14. Library!ComputeBestResult(Results) =
         IF with("CIRCULAR") # {} THEN Results[Library!Min(with("CIRCULAR"))]
         ELSE IF with("AMM") # {} THEN Results[Library!Min(with("AMM"))] ELSE None
  BY DEF Library!ComputeBestResult
<1>15. CASE Library!Circles # {}
  <2>1. PICK q \in Library!ToSet(matches) : TRUE
    BY <1>2, <1>15
  <2>2. PICK k \in DOMAIN combinations : combinations[k] = q
    BY <1>9
  <2>3. k \in with("CIRCULAR")
    BY <1>2, <1>11, <1>12, <2>2
  <2> DEFINE m == Library!Min(with("CIRCULAR"))
  <2>4. m \in with("CIRCULAR")
    BY <1>13, <2>3, MinOfNaturals DEF Library!Min, Min
  <2>5. Library!ComputeBestResult(Results) = Results[m]
    BY <1>14, <2>3
  <2> HIDE DEF m
  <2>6. m \in DOMAIN combinations /\ Results[m].feasibility = "CIRCULAR"
    BY <1>12, <2>4
  <2>7. combinations[m] \in Library!ToSet(matches)
    <3>1. ~(m \in Dom /\ combinations[m] = <<m>>)
      BY <1>10, <1>12, <2>6
    <3>2. QED
      BY <1>8, <2>6, <3>1
  <2>8. Results[m].tasks \in Library!Circles
    BY <1>2, <1>11, <1>12, <2>6, <2>7
  <2>9. QED
    BY <1>15, <2>5, <2>6, <2>8 DEF Best
<1>16. CASE Library!Circles = {}
  <2>1. \A k \in DOMAIN combinations :
          k \in Dom /\ Results[k].feasibility = "AMM" /\ Results[k].tasks = <<k>>
    BY <1>2, <1>8, <1>10, <1>12, <1>16
  <2>2. with("CIRCULAR") = {}
    BY <1>12, <2>1
  <2>3. 1 \in Dom /\ 1 \in with("AMM")
    BY <1>1, <1>7, <1>12, <2>1
  <2> DEFINE m == Library!Min(with("AMM"))
  <2>4. m \in with("AMM")
    BY <1>13, <2>3, MinOfNaturals DEF Library!Min, Min
  <2>5. Library!ComputeBestResult(Results) = Results[m]
    BY <1>14, <2>2, <2>3
  <2> HIDE DEF m
  <2>6. m \in DOMAIN combinations
    BY <1>12, <2>4
  <2>7. QED
    <3>1. m \in Dom /\ Results[m].feasibility = "AMM" /\ Results[m].tasks = <<m>>
      BY <2>1, <2>6
    <3>2. QED
      BY <1>16, <2>5, <3>1 DEF Best
<1>17. QED
  BY <1>15, <1>16

------------------------------------------------------------------------------
(* After the circular pass, the first three tasks are a group exactly if   *)
(* they are a circle, and no other group is of three.                      *)
CircleInv ==
    pass # "circular" =>
        /\ (Len(tasks) >= 3 /\ IsCircle(1, 2, 3)) <=> \E k \in DOMAIN groups : groups[k] = <<1, 2, 3>>
        /\ \A k \in GroupsOf(3) : groups[k] = <<1, 2, 3>>

(* A batch nothing has been done with, as it is while it is filled.        *)
Fresh ==
    /\ tasks \in Seq(Task) /\ groups = <<>> /\ pass = "circular" /\ i = 1
    /\ best = None /\ balances = None

WindowInv ==
    /\ window \in {"open", "closed"}
    /\ window = "open" => Fresh
    /\ window = "closed" => tasks # <<>>

(* The library's result, and what is made of it.                           *)
LibraryInv ==
    /\ best # None => pass = "done" /\ Best(best)
    /\ balances # None => best # None /\ balances = Library!ComputeBalances(best)

BatchInv == IInv /\ PairsInv /\ CircleInv /\ WindowInv /\ LibraryInv

(* A fresh batch.                                                          *)
LEMMA FreshInv ==
    ASSUME Fresh, window \in {"open", "closed"}, window = "closed" => tasks # <<>>
    PROVE  BatchInv
<1>1. /\ tasks \in Seq(Task) /\ groups = <<>> /\ pass = "circular" /\ i = 1
      /\ best = None /\ balances = None
  BY DEF Fresh
<1>2. IInv
  BY <1>1 DEF IInv, MatchTypeOK, GroupsDisjoint, GroupsClose, Progress
<1>3. PairsInv
  BY <1>1 DEF PairsInv, Shapes, NoneMissed
<1>4. CircleInv /\ WindowInv /\ LibraryInv
  BY <1>1 DEF CircleInv, WindowInv, LibraryInv, Fresh
<1>5. QED
  BY <1>2, <1>3, <1>4 DEF BatchInv

(* The same, of the batch after a step.                                    *)
LEMMA FreshInvNext ==
    ASSUME Fresh', window' \in {"open", "closed"}, window' = "closed" => tasks' # <<>>
    PROVE  BatchInv'
<1>1. /\ tasks' \in Seq(Task) /\ groups' = <<>> /\ pass' = "circular" /\ i' = 1
      /\ best' = None /\ balances' = None
  BY DEF Fresh
<1>2. IInv'
  BY <1>1 DEF IInv, MatchTypeOK, GroupsDisjoint, GroupsClose, Progress
<1>3. PairsInv'
  BY <1>1 DEF PairsInv, Shapes, NoneMissed
<1>4. CircleInv' /\ WindowInv' /\ LibraryInv'
  BY <1>1 DEF CircleInv, WindowInv, LibraryInv, Fresh
<1>5. QED
  BY <1>2, <1>3, <1>4 DEF BatchInv

(* A batch of Batches, or the first window of the script.                  *)
LEMMA BatchInitInv == BatchInit => BatchInv
<1> SUFFICES ASSUME BatchInit PROVE BatchInv
  OBVIOUS
<1>1. best = None /\ balances = None
  BY DEF BatchInit, Library!SearchInit
<1>2. Fresh /\ window \in {"open", "closed"} /\ (window = "closed" => tasks # <<>>)
  <2>1. CASE MatchInit /\ window = "closed"
    <3>1. tasks \in Seq(Task) /\ tasks # <<>>
      BY <2>1, MatchingAssumption DEF MatchInit
    <3>2. QED
      BY <1>1, <2>1, <3>1 DEF MatchInit, Fresh
  <2>2. CASE EmptyBatch /\ window = "open"
    <3>1. tasks \in Seq(Task)
      BY <2>2 DEF EmptyBatch
    <3>2. QED
      BY <1>1, <2>2, <3>1 DEF EmptyBatch, Fresh
  <2>3. QED
    BY <2>1, <2>2 DEF BatchInit
<1>3. QED
  BY <1>2, FreshInv

(* A later pass makes no group of three, and the circular pass one if the  *)
(* first three tasks are a circle.                                         *)
LEMMA MatchStepCircle ==
    ASSUME IInv, CircleInv, MatchNext
    PROVE  CircleInv'
<1>1. groups \in Seq(Group) /\ Len(groups) \in Nat /\ DOMAIN groups = 1..Len(groups)
  BY DEF IInv, MatchTypeOK, Group
<1>2. UNCHANGED tasks /\ IsCircle(1, 2, 3)' = IsCircle(1, 2, 3)
  BY DEF MatchNext, CircularPass, DirectPass, EndDirect, LeftoverPass, EndLeftover, IsCircle, Feeds,
         InputToken, OutputToken
<1>3. CASE CircularPass
  <2>1. groups' = IF Len(tasks) >= 3 /\ IsCircle(1, 2, 3) THEN <<<<1, 2, 3>>>> ELSE <<>>
    BY <1>3 DEF CircularPass
  <2>2. \A k \in DOMAIN groups' : groups'[k] = <<1, 2, 3>>
    BY <2>1
  <2>3. (\E k \in DOMAIN groups' : TRUE) <=> (Len(tasks) >= 3 /\ IsCircle(1, 2, 3))
    BY <2>1
  <2>4. QED
    BY <1>2, <2>2, <2>3 DEF CircleInv, GroupsOf
<1>4. ASSUME pass # "circular", groups' = groups
      PROVE  CircleInv'
  BY <1>2, <1>4 DEF CircleInv, GroupsOf
<1>5. ASSUME pass # "circular", NEW g, Len(g) # 3, groups' = Append(groups, g)
      PROVE  CircleInv'
  <2>1. /\ DOMAIN groups' = DOMAIN groups \cup {Len(groups) + 1}
        /\ \A k \in DOMAIN groups : groups'[k] = groups[k]
        /\ groups'[Len(groups) + 1] = g
    BY <1>1, <1>5
  <2>2. g # <<1, 2, 3>>
    BY <1>5
  <2>3. QED
    BY <1>2, <1>5, <2>1, <2>2 DEF CircleInv, GroupsOf
<1>6. CASE DirectPass
  <2>1. pass # "circular" /\ (groups' = groups \/ groups' = Append(groups, <<i, Min(Partners)>>))
    BY <1>6 DEF DirectPass
  <2>2. Len(<<i, Min(Partners)>>) # 3
    OBVIOUS
  <2>3. QED
    BY <1>4, <1>5, <2>1, <2>2
<1>7. CASE LeftoverPass
  <2>1. pass # "circular" /\ (groups' = groups \/ groups' = Append(groups, <<i>>))
    BY <1>7 DEF LeftoverPass
  <2>2. Len(<<i>>) # 3
    OBVIOUS
  <2>3. QED
    BY <1>4, <1>5, <2>1, <2>2
<1>8. CASE EndDirect \/ EndLeftover
  BY <1>4, <1>8 DEF EndDirect, EndLeftover
<1>9. QED
  BY <1>3, <1>6, <1>7, <1>8 DEF MatchNext

(* The circles are those of the batch until it is replaced.                *)
LEMMA CirclesKept ==
    ASSUME UNCHANGED <<tasks, scenario>>
    PROVE  Library!Circles' = Library!Circles /\ Dom' = Dom
<1> DEFINE paths == UNION {[1..m -> DOMAIN LibraryTasks] : m \in 3..Len(LibraryTasks)}
           Circle(path) == /\ \A k, l \in DOMAIN path : k # l => path[k] # path[l]
                           /\ Library!Connected(path) /\ Library!Closes(path)
<1>1. LibraryTasks' = LibraryTasks
  BY DEF LibraryTasks, SenderOf
<1>2. paths' = paths /\ Dom' = Dom
  BY <1>1 DEF Dom
<1>3. \A path : Circle(path)' = Circle(path)
  BY <1>1 DEF Library!Connected, Library!Closes, Library!Feeds, Library!InputToken, Library!OutputToken
<1>4. /\ Library!Circles = {path \in paths : Circle(path)}
      /\ Library!Circles' = {path \in paths' : Circle(path)'}
  BY DEF Library!Circles
<1> HIDE DEF paths, Circle
<1>5. QED
  BY <1>2, <1>3, <1>4

(* Every step keeps the invariant.                                         *)
LEMMA BatchStepInv == BatchInv /\ [BatchNext]_batchVars => BatchInv'
<1> SUFFICES ASSUME BatchInv, [BatchNext]_batchVars PROVE BatchInv'
  OBVIOUS
<1>1. CASE FillBatch
  <2>1. Fresh /\ window' = "open" /\ UNCHANGED <<groups, pass, i, best, balances>>
    BY <1>1 DEF FillBatch, BatchInv, WindowInv, libraryVars
  <2>2. tasks' \in Seq(Task)
    BY <1>1, <2>1 DEF FillBatch, Fresh
  <2>3. Fresh'
    BY <2>1, <2>2 DEF Fresh
  <2>4. QED
    BY <2>1, <2>3, FreshInvNext
<1>2. CASE CloseWindow
  <2>1. Fresh' /\ window' = "closed" /\ tasks' # <<>>
    BY <1>2 DEF CloseWindow, BatchInv, WindowInv, Fresh, matchVars, libraryVars
  <2>2. QED
    BY <2>1, FreshInvNext
<1>3. CASE MatchBatch
  <2>1. window = "closed" /\ MatchNext /\ UNCHANGED <<window, best, balances>> /\ pass # "done"
    BY <1>3 DEF MatchBatch, MatchNext, CircularPass, DirectPass, EndDirect, LeftoverPass, EndLeftover,
                libraryVars
  <2>2. tasks # <<>> /\ UNCHANGED tasks /\ best = None /\ balances = None
    BY <2>1 DEF BatchInv, WindowInv, LibraryInv, MatchNext, CircularPass, DirectPass, EndDirect,
                LeftoverPass, EndLeftover
  <2>3. IInv' /\ PairsInv'
    BY <2>1, MatchStepInv, MatchStepPairs DEF BatchInv
  <2>4. CircleInv'
    BY <2>1, MatchStepCircle DEF BatchInv
  <2>5. WindowInv' /\ LibraryInv'
    BY <2>1, <2>2 DEF WindowInv, LibraryInv
  <2>6. QED
    BY <2>3, <2>4, <2>5 DEF BatchInv
<1>4. CASE SearchBatch \/ UNCHANGED batchVars
  <2>1. UNCHANGED <<tasks, groups, pass, i, window, scenario>>
    BY <1>4 DEF SearchBatch, batchVars, matchVars, trafficVars
  <2>2. IInv' /\ PairsInv'
    <3>1. [MatchNext]_matchVars
      BY <2>1 DEF matchVars
    <3>2. QED
      BY <3>1, MatchStepInv, MatchStepPairs DEF BatchInv
  <2>3. CircleInv'
    BY <2>1 DEF BatchInv, CircleInv, GroupsOf, IsCircle, Feeds, InputToken, OutputToken
  <2>4. WindowInv'
    BY <1>4, <2>1 DEF BatchInv, WindowInv, Fresh, SearchBatch, batchVars, libraryVars
  <2>5. Library!Circles' = Library!Circles /\ Dom' = Dom
    BY <2>1, CirclesKept
  <2>6. \A result : Library!ComputeBalances(result)' = Library!ComputeBalances(result)
    BY <2>1 DEF Library!ComputeBalances, Library!AmmTransfers, Library!AmmSwaps,
                Library!CircularTransfers, LibraryTasks, SenderOf, Library!InputToken,
                Library!OutputToken
  <2>7. LibraryInv'
    <3>1. CASE SearchBatch /\ Library!Search
      <4>1. /\ pass = "done" /\ best = None /\ balances = None /\ balances' = balances
            /\ best' = Library!ComputeBestResult(Results)
        BY <3>1 DEF SearchBatch, Library!Search, BatchInv, LibraryInv, Results
      <4>2. Best(best')
        BY <3>1, <4>1, BestIsBest DEF BatchInv, IInv, MatchTypeOK, WindowInv, SearchBatch
      <4>3. QED
        BY <2>1, <2>5, <4>1, <4>2 DEF LibraryInv, Best
    <3>2. CASE SearchBatch /\ Library!Balance
      <4>1. best # None /\ best' = best /\ balances' = Library!ComputeBalances(best)
        BY <3>2 DEF Library!Balance
      <4>2. QED
        BY <2>1, <2>5, <2>6, <4>1 DEF BatchInv, LibraryInv, Best
    <3>3. CASE UNCHANGED batchVars
      BY <2>1, <2>5, <2>6, <3>3 DEF BatchInv, LibraryInv, Best, batchVars, libraryVars
    <3>4. QED
      BY <1>4, <3>1, <3>2, <3>3 DEF SearchBatch, Library!SearchNext
  <2>8. QED
    BY <2>2, <2>3, <2>4, <2>7 DEF BatchInv
<1>5. CASE NextWindow
  <2>1. Fresh' /\ window' = "open"
    BY <1>5 DEF NextWindow, Fresh
  <2>2. QED
    BY <2>1, FreshInvNext
<1>6. QED
  BY <1>1, <1>2, <1>3, <1>4, <1>5 DEF BatchNext

(* The whole invariant of the batches.                                     *)
LEMMA BatchesInv == BatchSpec => []BatchInv
<1>1. QED
  BY BatchInitInv, BatchStepInv, PTL DEF BatchSpec

------------------------------------------------------------------------------
(* When all matchings are there, no task is in two and none in no one.     *)
LEMMA InvMatchedOnce == IInv => EachTaskMatchedOnce
<1> SUFFICES ASSUME IInv, pass = "done" PROVE EachTaskMatchedOnce
  BY DEF EachTaskMatchedOnce
<1>1. groups \in Seq(Group) /\ DOMAIN tasks = 1..Len(tasks)
  BY DEF IInv, MatchTypeOK, Group
<1>2. \A k \in DOMAIN groups : groups[k] \in Group
  BY <1>1
<1>3. Matched = DOMAIN tasks
  <2>1. \A k \in DOMAIN groups : Members(groups[k]) \subseteq 1..Len(tasks)
    BY <1>2 DEF Group, Members
  <2>2. QED
    BY <1>1, <2>1 DEF Matched, IInv, Progress
<1>4. \A k \in DOMAIN groups : Cardinality(Members(groups[k])) = Len(groups[k])
  BY <1>2, DistinctCardinality DEF Group, IInv, GroupsDisjoint
<1>5. QED
  BY <1>3, <1>4 DEF EachTaskMatchedOnce, IInv, GroupsDisjoint

(* When the direct pass is over, no pool could have more pairs.            *)
LEMMA InvMostPairs == IInv /\ PairsInv => DirectPassIsMaximum
<1> SUFFICES ASSUME IInv, PairsInv, pass \in {"leftover", "done"} PROVE DirectPassIsMaximum
  BY DEF DirectPassIsMaximum
<1>1. \A p \in Pools :
        Cardinality(Pairs(p)) =
          Min({Cardinality(Selling(Free, p, TRUE)), Cardinality(Selling(Free, p, FALSE))})
  BY MostPairs
<1>2. QED
  BY <1>1 DEF DirectPassIsMaximum, Pairs, Free

(* The passes only ever name tasks of the batch, and keep their index in   *)
(* or just behind it.                                                      *)
THEOREM MatchTypeCorrect == MatchSpec => []MatchTypeOK
<1>1. IInv => MatchTypeOK
  BY DEF IInv
<1>2. QED
  BY <1>1, MatchInv, PTL

(* When the matchings of processBatch are complete, every task of the      *)
(* batch is in exactly one of them and there once.                         *)
THEOREM AlwaysMatchedOnce == MatchSpec => []EachTaskMatchedOnce
<1>1. QED
  BY InvMatchedOnce, MatchInv, PTL

(* A circular or direct group is one in which every task gives the token   *)
(* the next one wants, so what processBatch calls a match is one.          *)
THEOREM GroupsAlwaysClose == MatchSpec => []GroupsClose
<1>1. IInv => GroupsClose
  BY DEF IInv
<1>2. QED
  BY <1>1, MatchInv, PTL

(* The pairs the direct pass makes in a pool have one task of each side,   *)
(* and when it is over one of the sides has none left: no other way of     *)
(* pairing could have paired more.                                         *)
THEOREM DirectPassAlwaysMaximum == MatchSpec => []DirectPassIsMaximum
<1>1. QED
  BY InvMostPairs, MatchInv, PTL

------------------------------------------------------------------------------
(* The same holds of the batches of the windows.  The library's part:      *)

(* What the library answers with is a combination it holds possible.       *)
LEMMA BestIsPossible ==
    ASSUME BatchInv, best # None
    PROVE  /\ Library!IsCombinationPossible(best.tasks) /\ best.feasibility \in {"AMM", "CIRCULAR"}
           /\ best.tasks \in Seq(Dom)
<1>1. Best(best) /\ tasks \in Seq(Task)
  BY DEF BatchInv, LibraryInv, IInv, MatchTypeOK
<1>2. CASE Library!Circles # {}
  <2>1. best.feasibility = "CIRCULAR" /\ best.tasks \in Library!Circles
    BY <1>1, <1>2 DEF Best
  <2>2. best.tasks \in Path /\ Len(best.tasks) >= 3 /\ Library!Closes(best.tasks)
    BY <1>1, <2>1, CirclesArePaths
  <2>3. QED
    BY <2>1, <2>2 DEF Path, Library!IsCombinationPossible
<1>3. CASE Library!Circles = {}
  <2>1. best.feasibility = "AMM" /\ \E k \in Dom : best.tasks = <<k>>
    BY <1>1, <1>3 DEF Best
  <2>2. QED
    BY <2>1 DEF Library!IsCombinationPossible
<1>4. QED
  BY <1>2, <1>3

(* The library's results are possible combinations, with one transfer for  *)
(* each of their tasks.                                                    *)
THEOREM LibraryTypeCorrect == BatchSpec => []SearchTypeOK
<1>1. BatchInv => SearchTypeOK
  <2> SUFFICES ASSUME BatchInv PROVE SearchTypeOK
    OBVIOUS
  <2>1. LibraryTasks \in Seq(Library!Task)
    BY LibraryDomain DEF BatchInv, IInv, MatchTypeOK
  <2>2. ASSUME balances # None
        PROVE  Len(balances.transfers) = Len(best.tasks)
    <3> DEFINE path == best.tasks
               transfers == balances.transfers
               T == {transfers[k] : k \in DOMAIN transfers}
    <3>1. best # None /\ balances = Library!ComputeBalances(best)
      BY <2>2 DEF BatchInv, LibraryInv
    <3>2. path \in Seq(Dom) /\ best.feasibility \in {"AMM", "CIRCULAR"}
      BY <3>1, BestIsPossible
    <3>3. transfers = Library!AmmTransfers(path) \/ transfers = Library!CircularTransfers(path)
      BY <3>1, <3>2 DEF Library!ComputeBalances
    <3>4. DOMAIN transfers = DOMAIN path /\ transfers = [k \in DOMAIN path |-> transfers[k]]
      BY <3>3 DEF Library!AmmTransfers, Library!CircularTransfers
    <3> HIDE DEF transfers, path
    <3>5. DOMAIN path = 1..Len(path) /\ Len(path) \in Nat
      BY <3>2
    <3>6. transfers \in [1..Len(path) -> T]
      BY <3>4, <3>5
    <3>7. \A n \in Nat : \A s \in [1..n -> T] : Len(s) = n
      OBVIOUS
    <3>8. QED
      BY <3>5, <3>6, <3>7 DEF transfers, path
  <2>3. QED
    BY <2>1, <2>2, BestIsPossible DEF SearchTypeOK, Library!SearchTypeOK
<1>2. QED
  BY <1>1, BatchesInv, PTL

(* The library settles a circle whenever the batch has one, whatever the   *)
(* length of the batch and the pools: the depth-first search neither takes *)
(* a path for a circle that is none nor backtracks past one.               *)
THEOREM AlwaysFindsACircle == BatchSpec => []FindsACircle
<1>1. BatchInv => FindsACircle
  BY DEF BatchInv, LibraryInv, Best, FindsACircle, Library!FindsACircle
<1>2. QED
  BY <1>1, BatchesInv, PTL

(* The place after each in a circle of n.                                  *)
LEMMA NextPlace ==
    ASSUME NEW n \in Nat, n # 0, NEW j \in 1..n
    PROVE  (j % n) + 1 = IF j = n THEN 1 ELSE j + 1
<1>1. CASE j = n
  BY <1>1
<1>2. CASE j # n
  <2>1. j \in Nat /\ 0 <= j /\ j < n
    BY <1>2
  <2>2. j % n = j
    BY <2>1
  <2>3. QED
    BY <1>2, <2>2
<1>3. QED
  BY <1>1, <1>2

(* The library counts as everyone does.                                    *)
LEMMA LibraryCardinality == \A S : Library!Cardinality(S) = Cardinality(S)
BY DEF Library!Cardinality, Cardinality

(* The transfers to some of a circle's tasks are as many as these tasks.   *)
LEMMA OneTransferEach ==
    ASSUME NEW path \in Path,
           NEW S, S \subseteq Library!ToSet(path),
           NEW J, J = {j \in 1..Len(path) : path[(j % Len(path)) + 1] \in S}
    PROVE  Cardinality(J) = Cardinality(S)
<1> DEFINE n == Len(path)
           Next(j) == IF j = n THEN 1 ELSE j + 1
<1>1. /\ n \in Nat /\ n # 0 /\ DOMAIN path = 1..n /\ Distinct(path)
  BY DEF Path
<1> HIDE DEF n
<1>2. \A j \in 1..n : (j % n) + 1 = Next(j) /\ Next(j) \in 1..n
  <2> SUFFICES ASSUME NEW j \in 1..n
               PROVE  (j % n) + 1 = Next(j) /\ Next(j) \in 1..n
    OBVIOUS
  <2>1. (j % n) + 1 = IF j = n THEN 1 ELSE j + 1
    <3> HIDE DEF Next
    <3>1. QED
      BY <1>1, NextPlace
  <2>2. Next(j) \in 1..n
    BY <1>1
  <2>3. QED
    BY <2>1, <2>2
<1>3. \A j, k \in 1..n : Next(j) = Next(k) => j = k
  BY <1>1
<1>4. \A k \in 1..n : \E j \in 1..n : Next(j) = k
  <2> SUFFICES ASSUME NEW k \in 1..n PROVE \E j \in 1..n : Next(j) = k
    OBVIOUS
  <2> DEFINE before == IF k = 1 THEN n ELSE k - 1
  <2>1. before \in 1..n /\ Next(before) = k
    BY <1>1
  <2>2. QED
    BY <2>1
<1> HIDE DEF Next
<1>5. J = {j \in 1..n : path[Next(j)] \in S}
  BY <1>2 DEF n
<1> DEFINE f == [j \in J |-> path[Next(j)]]
<1>6. f \in Bijection(J, S)
  <2>1. f \in [J -> S]
    BY <1>5
  <2>2. \A j, k \in J : f[j] = f[k] => j = k
    BY <1>1, <1>2, <1>3, <1>5 DEF Distinct
  <2>3. \A t \in S : \E j \in J : f[j] = t
    <3> SUFFICES ASSUME NEW t \in S PROVE \E j \in J : f[j] = t
      OBVIOUS
    <3>1. PICK k \in 1..n : path[k] = t
      BY <1>1 DEF Library!ToSet
    <3>2. PICK j \in 1..n : Next(j) = k
      BY <1>4
    <3>3. QED
      BY <1>5, <3>1, <3>2
  <2> HIDE DEF f
  <2>4. QED
    BY <2>1, <2>2, <2>3 DEF Bijection, Injection, Surjection, IsInjective
<1>7. IsFiniteSet(J)
  <2>1. IsFiniteSet(1..n) /\ J \subseteq 1..n
    BY <1>1, <1>5, FS_Interval
  <2>2. QED
    BY <2>1, FS_Subset
<1>8. QED
  BY <1>6, <1>7, FS_Bijection DEF ExistsBijection

(* computeBalances leaves nobody out of a circle: whichever of its tasks   *)
(* are one trader's, that trader is paid as often, and what is paid of     *)
(* each currency is what tasks of the circle gave.                         *)
THEOREM CirclesAlwaysBalance == BatchSpec => []CirclesBalance
<1>1. BatchInv => CirclesBalance
  <2> DEFINE path == best.tasks
             n == Len(path)
             paid == balances.transfers
             circle == Library!ToSet(path)
  <2> SUFFICES ASSUME BatchInv, balances # None, best.feasibility = "CIRCULAR"
               PROVE  /\ \A s \in Traders :
                            Cardinality({j \in DOMAIN paid : paid[j].sender = s}) =
                                Cardinality({k \in circle : LibraryTasks[k].sender = s})
                      /\ \A c \in Currencies :
                            Cardinality({j \in DOMAIN paid : paid[j].currency = c}) =
                                Cardinality({k \in circle :
                                                Library!InputToken(LibraryTasks[k]) = c})
    BY LibraryCardinality DEF CirclesBalance, Library!CirclesBalance
  <2>1. /\ best # None /\ balances = Library!ComputeBalances(best) /\ Best(best)
        /\ tasks \in Seq(Task)
    BY DEF BatchInv, LibraryInv, IInv, MatchTypeOK
  <2>2. path \in Path /\ Library!Closes(path)
    <3>1. path \in Library!Circles
      BY <2>1 DEF Best
    <3>2. QED
      BY <2>1, <3>1, CirclesArePaths
  <2>3. paid = Library!CircularTransfers(path)
    BY <2>1 DEF Library!ComputeBalances
  <2>4. /\ n \in Nat /\ n # 0 /\ DOMAIN path = 1..n /\ Library!Connected(path)
        /\ path \in Seq(Dom)
    BY <2>2 DEF Path
  <2>5. /\ DOMAIN paid = 1..n
        /\ \A j \in 1..n : /\ paid[j].sender = LibraryTasks[path[(j % n) + 1]].sender
                            /\ paid[j].currency = Library!OutputToken(LibraryTasks[path[j]])
    BY <2>3, <2>4 DEF Library!CircularTransfers
  <2> HIDE DEF paid
  <2>6. \A j \in 1..n : (j % n) + 1 \in 1..n /\ path[(j % n) + 1] \in circle
    <3> SUFFICES ASSUME NEW j \in 1..n
                 PROVE  (j % n) + 1 \in 1..n /\ path[(j % n) + 1] \in circle
      OBVIOUS
    <3> HIDE DEF n
    <3>1. (j % n) + 1 = IF j = n THEN 1 ELSE j + 1
      BY <2>4, NextPlace
    <3>2. (j % n) + 1 \in 1..n
      BY <2>4, <3>1
    <3>3. QED
      BY <2>4, <3>2 DEF Library!ToSet
  <2>7. ASSUME NEW j \in 1..n
        PROVE  paid[j].currency = Library!InputToken(LibraryTasks[path[(j % n) + 1]])
    <3> HIDE DEF n
    <3>1. (j % n) + 1 = IF j = n THEN 1 ELSE j + 1
      BY <2>4, NextPlace
    <3>2. CASE j = n
      <4>1. Library!Feeds(path[n], path[1])
        BY <2>2 DEF Library!Closes, n
      <4>2. QED
        BY <2>5, <3>1, <3>2, <4>1 DEF Library!Feeds
    <3>3. CASE j # n
      <4>1. j \in 1..(n - 1)
        BY <2>4, <3>3
      <4>2. Library!Feeds(path[j], path[j + 1])
        BY <2>4, <4>1 DEF Library!Connected, n
      <4>3. QED
        BY <2>5, <3>1, <3>3, <4>2 DEF Library!Feeds
    <3>4. QED
      BY <3>2, <3>3
  <2>8. ASSUME NEW x \in Traders
        PROVE  Cardinality({j \in DOMAIN paid : paid[j].sender = x}) =
                   Cardinality({k \in circle : LibraryTasks[k].sender = x})
    <3> DEFINE S == {k \in circle : LibraryTasks[k].sender = x}
               J == {j \in DOMAIN paid : paid[j].sender = x}
    <3>1. S \subseteq circle
      OBVIOUS
    <3>2. J = {j \in 1..n : path[(j % n) + 1] \in S}
      BY <2>5, <2>6
    <3> HIDE DEF S, J
    <3>3. Cardinality(J) = Cardinality(S)
      BY <2>2, <3>1, <3>2, OneTransferEach
    <3>4. QED
      BY <3>3 DEF S, J
  <2>9. ASSUME NEW c \in Currencies
        PROVE  Cardinality({j \in DOMAIN paid : paid[j].currency = c}) =
                   Cardinality({k \in circle : Library!InputToken(LibraryTasks[k]) = c})
    <3> DEFINE S == {k \in circle : Library!InputToken(LibraryTasks[k]) = c}
               J == {j \in DOMAIN paid : paid[j].currency = c}
    <3>1. S \subseteq circle
      OBVIOUS
    <3>2. J = {j \in 1..n : path[(j % n) + 1] \in S}
      BY <2>5, <2>6, <2>7
    <3> HIDE DEF S, J
    <3>3. Cardinality(J) = Cardinality(S)
      BY <2>2, <3>1, <3>2, OneTransferEach
    <3>4. QED
      BY <3>3 DEF S, J
  <2>10. QED
    BY <2>8, <2>9
<1>2. QED
  BY <1>1, BatchesInv, PTL

(* In every window, whatever the script sends and whenever the window      *)
(* closes, what processBatch makes of the batch is right.                  *)
THEOREM BatchesMatched ==
    BatchSpec => [](MatchTypeOK /\ EachTaskMatchedOnce /\ DirectPassIsMaximum /\ GroupsClose)
<1>1. BatchInv => MatchTypeOK /\ EachTaskMatchedOnce /\ DirectPassIsMaximum /\ GroupsClose
  BY InvMatchedOnce, InvMostPairs DEF BatchInv, IInv
<1>2. QED
  BY <1>1, BatchesInv, PTL
------------------------------------------------------------------------------
(* The n-th swap of the script, as a task.                                 *)
ScriptTask(n) == [poolId |-> PoolFor(n), zeroForOne |-> TEST_SCENARIOS[scenario][n + 1]]

(* The batch of a scenario is its last swaps: those since the window       *)
(* opened, in order.                                                       *)
ScriptInv ==
    scenario # NoScenario =>
        /\ scenario \in DOMAIN TEST_SCENARIOS
        /\ created \in Nat /\ created <= Len(TEST_SCENARIOS[scenario])
        /\ Len(tasks) <= created
        /\ \A k \in DOMAIN tasks : tasks[k] = ScriptTask(created - Len(tasks) + k - 1)

(* How many swaps the scenarios have, and which way those of the last two  *)
(* go.                                                                     *)
LEMMA ScriptLength ==
    /\ DOMAIN TEST_SCENARIOS = {"cowMatch", "circularCow", "mixedMatching"}
    /\ Len(TEST_SCENARIOS["cowMatch"]) = 2
    /\ Len(TEST_SCENARIOS["circularCow"]) = 3
    /\ Len(TEST_SCENARIOS["mixedMatching"]) = 6
BY DEF TEST_SCENARIOS

LEMMA ScriptDirections ==
    /\ LET s == TEST_SCENARIOS["circularCow"]
       IN  s[1] /\ s[2] /\ ~s[3]
    /\ LET s == TEST_SCENARIOS["mixedMatching"]
       IN  s[1] /\ s[2] /\ ~s[3] /\ s[4] /\ ~s[5] /\ s[6]
BY DEF TEST_SCENARIOS

(* Where the first swaps of a scenario go.                                 *)
LEMMA ScriptPools ==
    /\ scenario # "mixedMatching" =>
          PoolFor(0) = pool01 /\ PoolFor(1) = pool12 /\ PoolFor(2) = pool02
    /\ scenario = "mixedMatching" =>
          /\ PoolFor(0) = pool01 /\ PoolFor(1) = pool12 /\ PoolFor(2) = pool02
          /\ PoolFor(3) = pool01 /\ PoolFor(4) = pool01 /\ PoolFor(5) = pool12
<1>1. Len(pools) = 3 /\ pools[1] = pool01 /\ pools[2] = pool12 /\ pools[3] = pool02
  BY DEF pools
<1>2. \A n : scenario # "mixedMatching" => PoolFor(n) = pools[(n % Len(pools)) + 1]
  BY DEF PoolFor
<1>3. (0 % 3) + 1 = 1 /\ (1 % 3) + 1 = 2 /\ (2 % 3) + 1 = 3
  OBVIOUS
<1>4. ASSUME scenario = "mixedMatching", NEW n \in {0, 1, 2}
      PROVE  PoolFor(n) = pools[n + 1]
  BY <1>4 DEF PoolFor
<1>5. ASSUME scenario = "mixedMatching", NEW n \in {3, 4}
      PROVE  PoolFor(n) = pool01
  BY <1>5 DEF PoolFor
<1>6. scenario = "mixedMatching" => PoolFor(5) = pool12
  BY DEF PoolFor
<1>7. QED
  BY <1>1, <1>2, <1>3, <1>4, <1>5, <1>6

(* At first the script has sent nothing.                                   *)
LEMMA ScriptInit == BatchInit => ScriptInv
<1> SUFFICES ASSUME BatchInit, scenario # NoScenario PROVE ScriptInv
  BY DEF ScriptInv
<1>1. tasks = <<>> /\ created = 0 /\ scenario \in DOMAIN TEST_SCENARIOS
  BY DEF BatchInit, NoTraffic, EmptyBatch, TrafficInit
<1>2. Len(TEST_SCENARIOS[scenario]) \in Nat
  BY <1>1, ScriptLength
<1>3. QED
  BY <1>1, <1>2 DEF ScriptInv

(* A swap that is mined is the next of the scenario, and joins the open    *)
(* batch; a window that closes begins the next one with the next swap.     *)
LEMMA ScriptStep == BatchInv /\ ScriptInv /\ [BatchNext]_batchVars => ScriptInv'
<1> SUFFICES ASSUME BatchInv, ScriptInv, [BatchNext]_batchVars, scenario' # NoScenario
             PROVE  ScriptInv'
  BY DEF ScriptInv
<1>1. tasks \in Seq(Task) /\ Len(tasks) \in Nat
  BY DEF BatchInv, IInv, MatchTypeOK
<1>2. UNCHANGED scenario
  BY DEF BatchNext, FillBatch, CreateTask, SwapFails, CloseWindow, MatchBatch, SearchBatch, NextWindow,
         batchVars, trafficVars
<1>3. \A n : ScriptTask(n)' = ScriptTask(n)
  BY <1>2 DEF ScriptTask, PoolFor, pools
<1>4. scenario # NoScenario /\ scenario \in DOMAIN TEST_SCENARIOS
  BY <1>2 DEF ScriptInv
<1>5. Len(TEST_SCENARIOS[scenario]) \in Nat
  BY <1>4, ScriptLength
<1> DEFINE size == Len(TEST_SCENARIOS[scenario])
<1>6. /\ created \in Nat /\ created <= size /\ Len(tasks) <= created
      /\ \A k \in DOMAIN tasks : tasks[k] = ScriptTask(created - Len(tasks) + k - 1)
  BY <1>4 DEF ScriptInv
<1>7. CASE UNCHANGED <<tasks, created>>
  BY <1>2, <1>3, <1>4, <1>6, <1>7 DEF ScriptInv
<1>8. ASSUME NEW task \in Task, CreateTask(task), tasks' = Append(tasks, task)
      PROVE  ScriptInv'
  <2>1. created < size /\ created' = created + 1 /\ task = ScriptTask(created)
    BY <1>8 DEF CreateTask, Remaining, ScriptTask
  <2>2. Len(tasks') = Len(tasks) + 1
    BY <1>1, <1>8
  <2>3. ASSUME NEW k \in DOMAIN tasks'
        PROVE  tasks'[k] = ScriptTask(created' - Len(tasks') + k - 1)
    <3>1. CASE k \in DOMAIN tasks
      <4>1. tasks'[k] = tasks[k] /\ k \in Int
        BY <1>1, <1>8, <3>1
      <4>2. created' - Len(tasks') + k - 1 = created - Len(tasks) + k - 1
        BY <1>1, <1>6, <2>1, <2>2, <4>1
      <4>3. QED
        BY <1>6, <3>1, <4>1, <4>2
    <3>2. CASE k = Len(tasks) + 1
      <4>1. tasks'[k] = task
        BY <1>1, <1>8, <3>2
      <4>2. created' - Len(tasks') + k - 1 = created
        BY <1>1, <1>6, <2>1, <2>2, <3>2
      <4>3. QED
        BY <2>1, <4>1, <4>2
    <3>3. QED
      BY <1>1, <1>8, <2>3, <3>1, <3>2
  <2>4. created' \in Nat /\ created' <= size' /\ Len(tasks') <= created'
    BY <1>1, <1>2, <1>5, <1>6, <2>1, <2>2
  <2> HIDE DEF ScriptTask
  <2>5. QED
    BY <1>2, <1>3, <1>4, <2>3, <2>4 DEF ScriptInv
<1>9. CASE FillBatch
  BY <1>7, <1>8, <1>9 DEF FillBatch, SwapFails
<1>10. CASE NextWindow
  BY <1>2, <1>4, <1>6, <1>10 DEF NextWindow, ScriptInv, trafficVars
<1>11. CASE MatchBatch
  BY <1>7, <1>11 DEF MatchBatch, MatchNext, CircularPass, DirectPass, EndDirect, LeftoverPass,
                     EndLeftover, trafficVars
<1>12. CASE CloseWindow \/ SearchBatch \/ UNCHANGED batchVars
  BY <1>7, <1>12 DEF CloseWindow, SearchBatch, batchVars, matchVars, trafficVars
<1>13. QED
  BY <1>9, <1>10, <1>11, <1>12 DEF BatchNext

(* A batch that begins with the swaps of a circle: they are one group, and *)
(* every other group is a pair or a single task beside them.               *)
LEMMA CircleFirst ==
    ASSUME BatchInv, pass = "done", Len(tasks) >= 3,
           tasks[1].poolId = pool01, tasks[1].zeroForOne,
           tasks[2].poolId = pool12, tasks[2].zeroForOne,
           tasks[3].poolId = pool02, ~tasks[3].zeroForOne
    PROVE  \E k \in DOMAIN groups :
              /\ Members(groups[k]) = {1, 2, 3}
              /\ \A l \in DOMAIN groups \ {k} :
                    /\ Members(groups[l]) # {} /\ Members(groups[l]) \subseteq 4..Len(tasks)
                    /\ \/ Len(groups[l]) = 1
                       \/ Len(groups[l]) = 2 /\ AreOpposite(groups[l][1], groups[l][2])
<1>1. /\ PoolKeyOf[pool01] = Config(token0, token1)
      /\ PoolKeyOf[pool12] = Config(token1, token2)
      /\ PoolKeyOf[pool02] = Config(token0, token2)
  BY ScriptAssumption, TrafficAssumption DEF POOL_CONFIGS
<1>2. IsCircle(1, 2, 3)
  BY <1>1 DEF IsCircle, Feeds, InputToken, OutputToken, Config
<1>3. PICK k \in DOMAIN groups : groups[k] = <<1, 2, 3>>
  BY <1>2 DEF BatchInv, CircleInv
<1>4. Members(groups[k]) = {1, 2, 3}
  <2>1. DOMAIN <<1, 2, 3>> = {1, 2, 3}
    OBVIOUS
  <2>2. QED
    BY <1>3, <2>1 DEF Members
<1>5. ASSUME NEW l \in DOMAIN groups \ {k}
      PROVE  /\ Members(groups[l]) # {} /\ Members(groups[l]) \subseteq 4..Len(tasks)
             /\ \/ Len(groups[l]) = 1
                \/ Len(groups[l]) = 2 /\ AreOpposite(groups[l][1], groups[l][2])
  <2>1. groups[l] \in Seq(1..Len(tasks)) /\ Len(groups[l]) \in {1, 2, 3} /\ Len(tasks) \in Nat
    BY DEF BatchInv, IInv, MatchTypeOK, PairsInv, Shapes
  <2>2. Members(groups[l]) \cap {1, 2, 3} = {}
    BY <1>4 DEF BatchInv, IInv, GroupsDisjoint
  <2>3. Members(groups[l]) # {} /\ Members(groups[l]) \subseteq 1..Len(tasks)
    <3>1. DOMAIN groups[l] = 1..Len(groups[l]) /\ 1 \in DOMAIN groups[l]
      BY <2>1
    <3>2. QED
      BY <2>1, <3>1 DEF Members
  <2>4. Len(groups[l]) # 3
    <3>1. Len(groups[l]) = 3 => groups[l] = groups[k]
      BY <1>3 DEF BatchInv, CircleInv, GroupsOf
    <3>2. QED
      BY <1>4, <2>2, <3>1
  <2>5. QED
    BY <2>1, <2>2, <2>3, <2>4 DEF BatchInv, PairsInv, Shapes
<1>6. QED
  BY <1>4, <1>5

(* The two swaps of the first scenario, in one batch: their pools differ.  *)
LEMMA CowUnmatched ==
    ASSUME BatchInv, ScriptInv, pass = "done", scenario = "cowMatch", scenario # NoScenario,
           Len(tasks) = 2
    PROVE  {Members(groups[k]) : k \in DOMAIN groups} = {{1}, {2}}
<1>1. /\ created \in Nat /\ 2 <= created /\ created <= 2 /\ DOMAIN tasks = 1..2
      /\ \A k \in DOMAIN tasks : tasks[k] = ScriptTask(created - 2 + k - 1)
  <2>1. DOMAIN tasks = 1..2
    BY DEF BatchInv, IInv, MatchTypeOK
  <2>2. QED
    BY <2>1, ScriptLength DEF ScriptInv
<1>2. tasks[1] = ScriptTask(0) /\ tasks[2] = ScriptTask(1)
  BY <1>1
<1>3. tasks[1].poolId = pool01 /\ tasks[2].poolId = pool12
  BY <1>2, ScriptPools DEF ScriptTask
<1>4. ~AreOpposite(1, 2) /\ ~AreOpposite(2, 1)
  BY <1>3, TrafficAssumption DEF AreOpposite
<1>5. ASSUME NEW l \in DOMAIN groups
      PROVE  \E x \in {1, 2} : Members(groups[l]) = {x}
  <2>1. groups[l] \in Seq(1..2) /\ Len(groups[l]) \in {1, 2, 3}
    BY DEF BatchInv, IInv, MatchTypeOK, PairsInv, Shapes
  <2>2. Len(groups[l]) # 3
    <3>1. ASSUME Len(groups[l]) = 3 PROVE FALSE
      <4>1. groups[l] = <<1, 2, 3>>
        BY <3>1 DEF BatchInv, CircleInv, GroupsOf
      <4>2. groups[l] \in [1..3 -> 1..2]
        BY <2>1, <3>1
      <4>3. groups[l][3] \in 1..2 /\ groups[l][3] = 3
        BY <4>1, <4>2
      <4>4. QED
        BY <4>3
    <3>2. QED
      BY <3>1
  <2>3. Len(groups[l]) # 2
    <3>1. ASSUME Len(groups[l]) = 2 PROVE FALSE
      <4>1. DOMAIN groups[l] = {1, 2} /\ groups[l][1] \in {1, 2} /\ groups[l][2] \in {1, 2}
        BY <2>1, <3>1
      <4>2. groups[l][1] # groups[l][2]
        BY <4>1 DEF BatchInv, IInv, GroupsDisjoint, Distinct
      <4>3. AreOpposite(groups[l][1], groups[l][2])
        BY <3>1 DEF BatchInv, PairsInv, Shapes
      <4>4. QED
        BY <1>4, <4>1, <4>2, <4>3
    <3>2. QED
      BY <3>1
  <2>4. DOMAIN groups[l] = {1} /\ groups[l][1] \in {1, 2}
    BY <2>1, <2>2, <2>3
  <2>5. QED
    BY <2>4 DEF Members
<1>6. ASSUME NEW x \in {1, 2}
      PROVE  \E l \in DOMAIN groups : Members(groups[l]) = {x}
  <2>1. x \in Matched
    BY <1>1 DEF BatchInv, IInv, Progress
  <2>2. QED
    BY <1>5, <2>1 DEF Matched
<1>7. QED
  BY <1>5, <1>6

(* The three swaps of the second scenario, in one batch.                   *)
LEMMA CircularMatched ==
    ASSUME BatchInv, ScriptInv, pass = "done", scenario = "circularCow", scenario # NoScenario,
           Len(tasks) = 3
    PROVE  {Members(groups[k]) : k \in DOMAIN groups} = {{1, 2, 3}}
<1>1. /\ created \in Nat /\ 3 <= created /\ created <= 3 /\ DOMAIN tasks = 1..3
      /\ \A k \in DOMAIN tasks : tasks[k] = ScriptTask(created - 3 + k - 1)
  <2>1. DOMAIN tasks = 1..3
    BY DEF BatchInv, IInv, MatchTypeOK
  <2>2. QED
    BY <2>1, ScriptLength DEF ScriptInv
<1>2. tasks[1] = ScriptTask(0) /\ tasks[2] = ScriptTask(1) /\ tasks[3] = ScriptTask(2)
  BY <1>1
<1>3. /\ tasks[1].poolId = pool01 /\ tasks[1].zeroForOne
      /\ tasks[2].poolId = pool12 /\ tasks[2].zeroForOne
      /\ tasks[3].poolId = pool02 /\ ~tasks[3].zeroForOne
  BY <1>2, ScriptPools, ScriptDirections DEF ScriptTask
<1>4. PICK k \in DOMAIN groups :
        /\ Members(groups[k]) = {1, 2, 3}
        /\ \A l \in DOMAIN groups \ {k} :
              Members(groups[l]) # {} /\ Members(groups[l]) \subseteq 4..Len(tasks)
  BY <1>3, CircleFirst
<1>5. DOMAIN groups = {k}
  BY <1>4
<1>6. QED
  BY <1>4, <1>5

(* The six swaps of the third scenario, in one batch.                      *)
LEMMA MixedMatched ==
    ASSUME BatchInv, ScriptInv, pass = "done", scenario = "mixedMatching", scenario # NoScenario,
           Len(tasks) = 6
    PROVE  {Members(groups[k]) : k \in DOMAIN groups} = {{1, 2, 3}, {4, 5}, {6}}
<1>1. /\ created \in Nat /\ 6 <= created /\ created <= 6 /\ DOMAIN tasks = 1..6
      /\ \A k \in DOMAIN tasks : tasks[k] = ScriptTask(created - 6 + k - 1)
  <2>1. DOMAIN tasks = 1..6
    BY DEF BatchInv, IInv, MatchTypeOK
  <2>2. QED
    BY <2>1, ScriptLength DEF ScriptInv
<1>2. /\ tasks[1] = ScriptTask(0) /\ tasks[2] = ScriptTask(1) /\ tasks[3] = ScriptTask(2)
      /\ tasks[4] = ScriptTask(3) /\ tasks[5] = ScriptTask(4) /\ tasks[6] = ScriptTask(5)
  BY <1>1
<1>3. /\ tasks[1].poolId = pool01 /\ tasks[1].zeroForOne
      /\ tasks[2].poolId = pool12 /\ tasks[2].zeroForOne
      /\ tasks[3].poolId = pool02 /\ ~tasks[3].zeroForOne
  BY <1>2, ScriptPools, ScriptDirections DEF ScriptTask
<1>4. /\ tasks[4].poolId = pool01 /\ tasks[4].zeroForOne
      /\ tasks[5].poolId = pool01 /\ ~tasks[5].zeroForOne
      /\ tasks[6].poolId = pool12 /\ tasks[6].zeroForOne
  BY <1>2, ScriptPools, ScriptDirections DEF ScriptTask
<1>5. PICK circle \in DOMAIN groups :
        /\ Members(groups[circle]) = {1, 2, 3}
        /\ \A l \in DOMAIN groups \ {circle} :
              /\ Members(groups[l]) # {} /\ Members(groups[l]) \subseteq 4..Len(tasks)
              /\ \/ Len(groups[l]) = 1
                 \/ Len(groups[l]) = 2 /\ AreOpposite(groups[l][1], groups[l][2])
  BY <1>3, CircleFirst
<1>6. \A k, l \in DOMAIN groups : k # l => Members(groups[k]) \cap Members(groups[l]) = {}
  BY DEF BatchInv, IInv, GroupsDisjoint
<1>7. AreOpposite(4, 5) /\ ~AreOpposite(4, 6) /\ ~AreOpposite(5, 6)
      /\ ~AreOpposite(6, 4) /\ ~AreOpposite(6, 5) /\ AreOpposite(5, 4)
  BY <1>4, TrafficAssumption DEF AreOpposite
<1>8. \A l \in DOMAIN groups \ {circle} : Len(groups[l]) = 2 => Members(groups[l]) = {4, 5}
  <2> SUFFICES ASSUME NEW l \in DOMAIN groups \ {circle}, Len(groups[l]) = 2
               PROVE  Members(groups[l]) = {4, 5}
    OBVIOUS
  <2>1. groups[l] \in Seq(1..6) /\ DOMAIN groups[l] = {1, 2}
    BY DEF BatchInv, IInv, MatchTypeOK
  <2>2. Members(groups[l]) = {groups[l][1], groups[l][2]}
    BY <2>1 DEF Members
  <2>3. groups[l][1] \in {4, 5, 6} /\ groups[l][2] \in {4, 5, 6} /\ groups[l][1] # groups[l][2]
    <3>1. groups[l][1] # groups[l][2]
      BY <2>1 DEF BatchInv, IInv, GroupsDisjoint, Distinct
    <3>2. groups[l][1] \in 4..6 /\ groups[l][2] \in 4..6
      BY <1>5, <2>2
    <3>3. QED
      BY <3>1, <3>2
  <2>4. AreOpposite(groups[l][1], groups[l][2])
    BY <1>5
  <2>5. groups[l][1] # 6 /\ groups[l][2] # 6
    BY <1>7, <2>3, <2>4
  <2>6. QED
    BY <2>2, <2>3, <2>5
<1>9. PICK pair \in DOMAIN groups \ {circle} : Members(groups[pair]) = {4, 5}
  <2>1. 4 \notin Unpaired \/ 5 \notin Unpaired
    BY <1>7 DEF BatchInv, PairsInv, NoneMissed
  <2>2. PICK t \in {4, 5} : \E k \in GroupsOf(2) \cup GroupsOf(3) : t \in Members(groups[k])
    BY <1>1, <2>1 DEF Unpaired
  <2>3. PICK k \in DOMAIN groups : Len(groups[k]) \in {2, 3} /\ t \in Members(groups[k])
    BY <2>2 DEF GroupsOf
  <2>4. k # circle /\ Len(groups[k]) = 2
    BY <1>5, <2>3
  <2>5. QED
    BY <1>8, <2>4
<1>10. PICK single \in DOMAIN groups : 6 \in Members(groups[single])
  <2>1. 6 \in Matched
    BY <1>1 DEF BatchInv, IInv, Progress
  <2>2. QED
    BY <2>1 DEF Matched
<1>11. Members(groups[single]) = {6}
  <2>1. single # circle /\ single # pair
    BY <1>5, <1>9, <1>10
  <2>2. Members(groups[single]) \subseteq 4..6 /\ Members(groups[single]) \cap {4, 5} = {}
    BY <1>5, <1>6, <1>9, <2>1
  <2>3. \A x \in 4..6 : x \in {4, 5, 6}
    OBVIOUS
  <2>4. QED
    BY <1>10, <2>2, <2>3
<1>12. DOMAIN groups = {circle, pair, single}
  <2> SUFFICES ASSUME NEW l \in DOMAIN groups, l \notin {circle, pair, single} PROVE FALSE
    OBVIOUS
  <2>1. PICK x \in Members(groups[l]) : x \in 4..6
    BY <1>5
  <2>2. x \notin {4, 5} /\ x # 6
    BY <1>6, <1>9, <1>11
  <2>3. QED
    BY <2>1, <2>2
<1>13. QED
  BY <1>5, <1>9, <1>11, <1>12

(* What becomes of a scenario whose swaps fall into one window, whatever   *)
(* the windows before held and whatever the tokens: the two of cowMatch    *)
(* are not matched; in the other scenarios the three of the circle are one *)
(* match, then the pair, and the rest goes to the AMM.                     *)
THEOREM ScenariosAlwaysEnd == BatchSpec => []ScenarioOutcomes
<1>1. BatchInv /\ ScriptInv => ScenarioOutcomes
  BY CowUnmatched, CircularMatched, MixedMatched DEF ScenarioOutcomes
<1>2. BatchSpec => []ScriptInv
  BY BatchesInv, ScriptInit, ScriptStep, PTL DEF BatchSpec
<1>3. QED
  BY <1>1, <1>2, BatchesInv, PTL
=============================================================================
