---------------------------- MODULE DarkPoolProofs ----------------------------
(***************************************************************************)
(* The two contracts together keep what each of them keeps alone, for any  *)
(* orders, operators and lists: every step of the composition is a step of *)
(* the hook, and what a failing call restores in the service manager is    *)
(* what the manager was when the transaction began.  Then what neither     *)
(* contract could keep alone: the hook's claims are the escrow of the      *)
(* tasks it took over, whatever other hooks record, and clean settlements  *)
(* leave the escrow of every other order in place.                         *)
(***************************************************************************)
EXTENDS DarkPool, DarkCoWHookProofs, OrderServiceManagerProofs

(* The service manager a failure goes back to.                             *)
Restored ==
    INSTANCE OrderServiceManager
    WITH latestTaskNum <- savedManager.latestTaskNum,
         allTaskHashes <- savedManager.allTaskHashes,
         allTaskResponses <- savedManager.allTaskResponses,
         settlements <- savedManager.settlements

RestoredInv ==
    /\ Restored!ManagerTypeOK
    /\ \A k \in DOMAIN savedManager.settlements : savedManager.settlements[k].refs # <<>>
    /\ Restored!RecordsInOrder
    /\ Restored!SettledIsSigned
    /\ Restored!SettlesRecordedTasks
    /\ Restored!OncePerOperator

PoolInv ==
    /\ ManagerInv
    /\ pc # "idle" => RestoredInv

------------------------------------------------------------------------------
(* A transaction that begins saves the service manager as it is.           *)
LEMMA SaveInv ==
    ASSUME ManagerInv, savedManager' = Manager, UNCHANGED hook
    PROVE  RestoredInv'
<1>1. /\ savedManager'.latestTaskNum = latestTaskNum
      /\ savedManager'.allTaskHashes = allTaskHashes
      /\ savedManager'.allTaskResponses = allTaskResponses
      /\ savedManager'.settlements = settlements
  BY DEF Manager
<1>2. (Restored!ManagerTypeOK)'
  BY <1>1 DEF ManagerInv, ManagerTypeOK, Restored!ManagerTypeOK, Settlement,
     Restored!Settlement, Message, Restored!Message, Signature, Restored!Signature,
     Task, Restored!Task, TaskIds, Restored!TaskIds, PoolIds, Restored!PoolIds
<1>3. (Restored!RecordsInOrder)'
  BY <1>1 DEF ManagerInv, RecordsInOrder, Restored!RecordsInOrder, TaskIds, Restored!TaskIds
<1>4. (Restored!SettledIsSigned)'
  BY <1>1 DEF ManagerInv, SettledIsSigned, Restored!SettledIsSigned, Refs, Restored!Refs
<1>5. (Restored!SettlesRecordedTasks)'
  BY <1>1 DEF ManagerInv, SettlesRecordedTasks, Restored!SettlesRecordedTasks, Refs, Restored!Refs
<1>6. (Restored!OncePerOperator)'
  BY <1>1 DEF ManagerInv, OncePerOperator, Restored!OncePerOperator, Refs, Restored!Refs
<1>7. QED
  BY <1>1, <1>2, <1>3, <1>4, <1>5, <1>6 DEF RestoredInv, ManagerInv, NoEmptyBatch

(* A failure puts it back.                                                 *)
LEMMA RevertInv ==
    ASSUME RestoredInv, RevertAll
    PROVE  ManagerInv'
<1>1. /\ latestTaskNum' = savedManager.latestTaskNum
      /\ allTaskHashes' = savedManager.allTaskHashes
      /\ allTaskResponses' = savedManager.allTaskResponses
      /\ settlements' = savedManager.settlements
      /\ UNCHANGED hook
  BY DEF RevertAll
<1>2. ManagerTypeOK'
  BY <1>1 DEF RestoredInv, ManagerTypeOK, Restored!ManagerTypeOK, Settlement,
     Restored!Settlement, Message, Restored!Message, Signature, Restored!Signature,
     Task, Restored!Task, TaskIds, Restored!TaskIds, PoolIds, Restored!PoolIds
<1>3. RecordsInOrder'
  BY <1>1 DEF RestoredInv, RecordsInOrder, Restored!RecordsInOrder, TaskIds, Restored!TaskIds
<1>4. /\ Restored!SettledIsSigned /\ Restored!SettlesRecordedTasks /\ Restored!OncePerOperator
      /\ \A settlement : Restored!Refs(settlement) = Refs(settlement)
  BY DEF RestoredInv, Refs, Restored!Refs
<1>5. SettledIsSigned'
  BY <1>1, <1>4 DEF SettledIsSigned, Restored!SettledIsSigned
<1>6. SettlesRecordedTasks' /\ OncePerOperator'
  BY <1>1, <1>4 DEF SettlesRecordedTasks, Restored!SettlesRecordedTasks, OncePerOperator,
     Restored!OncePerOperator
<1>7. QED
  BY <1>1, <1>2, <1>3, <1>4, <1>5, <1>6 DEF RestoredInv, ManagerInv, NoEmptyBatch

(* The saved manager is not touched before the transaction ends.           *)
LEMMA KeepSaved ==
    ASSUME RestoredInv, UNCHANGED <<savedManager, hook>>
    PROVE  RestoredInv'
BY DEF RestoredInv, Restored!ManagerTypeOK, Restored!RecordsInOrder, Restored!SettledIsSigned,
   Restored!SettlesRecordedTasks, Restored!OncePerOperator

(* A step that leaves the manager alone.                                   *)
LEMMA KeepManager ==
    ASSUME ManagerInv, UNCHANGED managerVars
    PROVE  ManagerInv'
BY ManagerNextInv

(* An amount is a natural number and not zero.                             *)
LEMMA AmountsArePositive == \A b \in Amounts : b \in Nat /\ b > 0
<1>1. Amounts \subseteq Nat \ {0}
  BY HookAssumption
<1>2. QED
  BY <1>1

------------------------------------------------------------------------------
(* The task of a swap that beforeSwap takes over is one the manager can    *)
(* record.                                                                 *)
LEMMA TakenOrder ==
    ASSUME NEW u \in Users, NEW p \in Pools, NEW z \in BOOLEAN, NEW d \in HookData,
           NEW a \in Amounts \cup {-b : b \in Amounts}, BeforeSwap(u, p, z, a, d)
    PROVE  Order(z, a, d.sender, p) \in Orders
<1>1. d \in [cowEnabled : {0, 1}, sender : Users \cup {None}] /\ d.sender # None
  BY DEF BeforeSwap, TakesOver, HookData
<1>2. a \in {-b : b \in Amounts}
  <2>1. a <= 0
    BY DEF BeforeSwap, TakesOver
  <2>2. a \notin Amounts
    BY <2>1, AmountsArePositive
  <2>3. QED
    BY <2>2
<1>3. QED
  BY <1>1, <1>2, PoolAssumption DEF Order

(* What the manager passes on to settleBalances: a pool and lists of the   *)
(* sets a settlement may carry, signed by the caller.                      *)
LEMMA SettledBatch ==
    ASSUME ManagerTypeOK, NEW op \in Operators, NEW refs \in RefLists, refs # <<>>,
           NEW tasks \in [DOMAIN refs -> Recorded], NEW payload \in Payloads
    PROVE  /\ tasks[1].order.poolId \in Pools
           /\ Sign(op, tasks[1].order.poolId, payload) \in Signature
           /\ payload.transfers \in TransferLists /\ payload.swaps \in SwapLists
<1>1. tasks[1] \in Task
  <2>1. 1 \in DOMAIN refs
    BY ManagerAssumption
  <2>2. Recorded \subseteq Task
    BY DEF Recorded, ManagerTypeOK
  <2>3. QED
    BY <2>1, <2>2
<1>2. tasks[1].order \in Orders
  BY <1>1 DEF Task
<1>3. tasks[1].order.poolId \in PoolIds /\ tasks[1].order.poolId \in Pools
  BY <1>2, PoolAssumption DEF PoolIds
<1>4. QED
  BY <1>3, PoolAssumption DEF Sign, Signature, Message

(* respondToBatch, as an operator sends it, keeps the manager's invariant. *)
LEMMA BatchInv ==
    ASSUME ManagerInv, NEW op \in Operators, NEW refs \in RefLists,
           NEW tasks \in [DOMAIN refs -> Recorded], NEW payload \in Payloads,
           RespondSigned(op, refs, tasks, payload)
    PROVE  ManagerInv' /\ refs # <<>> /\ UNCHANGED hook
<1>1. refs # <<>> /\ UNCHANGED hook
  BY DEF RespondSigned, RespondToBatch
<1>2. Sign(op, tasks[1].order.poolId, payload) \in Signature
  BY <1>1, SettledBatch DEF ManagerInv
<1>3. QED
  BY <1>1, <1>2, RespondToBatchInv DEF RespondSigned

(* The contracts as they are deployed.                                     *)
LEMMA PoolInitInv == PoolInit => PoolInv
BY ManagerInitInv DEF PoolInit, Init, PoolInv

(* Every step of the two contracts keeps the invariant.                    *)
LEMMA PoolStepInv == PoolInv /\ [PoolNext]_poolVars => PoolInv'
<1> SUFFICES ASSUME PoolInv, [PoolNext]_poolVars PROVE PoolInv'
  OBVIOUS
<1>1. ManagerInv /\ ManagerTypeOK
  BY DEF PoolInv, ManagerInv
<1>2. CASE Deploy
  <2>1. pc' = "idle"
    BY <1>2 DEF Deploy, AfterInitialize, vars
  <2>2. ManagerInv'
    BY <1>1, <1>2, KeepManager, SetHookInv DEF Deploy
  <2>3. QED
    BY <2>1, <2>2 DEF PoolInv
<1>3. CASE TakeOrder
  <2>1. PICK u \in Users, p \in Pools, z \in BOOLEAN, d \in HookData,
             a \in Amounts \cup {-b : b \in Amounts} :
          LetThrough(u, p, z, a, d) \/ TakeOver(u, p, z, a, d)
    BY <1>3 DEF TakeOrder
  <2>2. CASE LetThrough(u, p, z, a, d)
    <3>1. pc' = "idle"
      BY <2>2 DEF LetThrough, PlainSwap
    <3>2. QED
      BY <1>1, <2>2, <3>1, KeepManager DEF LetThrough, PoolInv
  <2>3. CASE TakeOver(u, p, z, a, d)
    <3>1. ManagerInv'
      BY <1>1, <2>3, TakenOrder, CreateNewTaskInv, PoolAssumption DEF TakeOver
    <3>2. UNCHANGED hook
      BY <2>3 DEF TakeOver, CreateNewTask
    <3>3. QED
      BY <1>1, <2>3, <3>1, <3>2, SaveInv DEF TakeOver, PoolInv
  <2>4. QED
    BY <2>1, <2>2, <2>3
<1>4. CASE Settle
  <2>1. PICK op \in Operators, refs \in RefLists, payload \in Payloads :
          \E tasks \in [DOMAIN refs -> Recorded] : RespondSigned(op, refs, tasks, payload)
    BY <1>4 DEF Settle
  <2>2. ManagerInv' /\ savedManager' = Manager /\ UNCHANGED hook
    BY <1>1, <1>4, <2>1, BatchInv DEF Settle
  <2>3. QED
    BY <1>1, <2>2, SaveInv DEF PoolInv
<1>5. CASE SettleElsewhere
  <2>1. PICK op \in Operators, refs \in RefLists, payload \in Payloads :
          \E tasks \in [DOMAIN refs -> Recorded] : RespondSigned(op, refs, tasks, payload)
    BY <1>5 DEF SettleElsewhere
  <2>2. ManagerInv'
    BY <1>1, <2>1, BatchInv
  <2>3. pc' = "idle"
    BY <1>5 DEF SettleElsewhere, vars
  <2>4. QED
    BY <2>2, <2>3 DEF PoolInv
<1>6. CASE AnswerAlone
  <2>1. PICK op \in Operators, ref \in TaskIds, task \in Recorded :
          \E answer \in {Empty, Sign(op, task.order.poolId, NoLists)} :
              RespondToTask(op, task, ref, answer)
    BY <1>6 DEF AnswerAlone
  <2>2. Sign(op, task.order.poolId, NoLists) \in Signature
    BY <1>1, PoolAssumption DEF Recorded, ManagerTypeOK, Task, Sign, Signature, Message, PoolIds
  <2>3. ManagerInv'
    BY <1>1, <2>1, <2>2, RespondToTaskInv
  <2>4. pc' = "idle"
    BY <1>6 DEF AnswerAlone, vars
  <2>5. QED
    BY <2>3, <2>4 DEF PoolInv
<1>7. CASE Proceed
  <2>1. pc # "idle" /\ UNCHANGED <<managerVars, savedManager>>
    BY <1>7 DEF Proceed, ChargeSwapper, UnlockCallback, BurnTransfer, TakeTransfer,
       EndTransfers, SwapOne, EndSwaps, Net0, Net1
  <2>2. QED
    BY <1>1, <2>1, KeepManager, KeepSaved DEF PoolInv, managerVars
<1>8. CASE Commit
  BY <1>1, <1>8, KeepManager DEF Commit, Return, Relock, PoolInv
<1>9. CASE RevertAll
  <2>1. pc # "idle" /\ pc' = "idle"
    BY <1>9 DEF RevertAll, Revert, Relock
  <2>2. QED
    BY <1>9, <2>1, RevertInv DEF PoolInv
<1>10. CASE UNCHANGED poolVars
  BY <1>1, <1>10, KeepManager, KeepSaved DEF poolVars, vars, managerVars, PoolInv
<1>11. CASE RecordElsewhere
  <2>1. PICK caller \in Addresses \ {Hook}, order \in Orders : CreateNewTask(caller, order)
    BY <1>11 DEF RecordElsewhere
  <2>2. ManagerInv'
    BY <1>1, <2>1, CreateNewTaskInv
  <2>3. pc' = "idle"
    BY <1>11 DEF RecordElsewhere, vars
  <2>4. QED
    BY <2>2, <2>3 DEF PoolInv
<1>12. QED
  BY <1>2, <1>3, <1>4, <1>5, <1>6, <1>7, <1>8, <1>9, <1>10, <1>11 DEF PoolNext

(* Every step of the two contracts is a step of the hook, or leaves it as  *)
(* it is: the manager never asks of it what settleBalances cannot carry.   *)
LEMMA PoolStepIsHookStep == ManagerTypeOK /\ [PoolNext]_poolVars => [Next]_vars
<1> SUFFICES ASSUME ManagerTypeOK, [PoolNext]_poolVars PROVE [Next]_vars
  OBVIOUS
<1>1. CASE Deploy
  BY <1>1 DEF Deploy, Next
<1>2. CASE TakeOrder
  BY <1>2 DEF TakeOrder, LetThrough, TakeOver, Next, Swap
<1>3. CASE Settle
  <2>1. PICK op \in Operators, refs \in RefLists, payload \in Payloads :
          \E tasks \in [DOMAIN refs -> Recorded] :
              /\ RespondSigned(op, refs, tasks, payload)
              /\ SettleBalances(tasks[1].order.poolId, payload.transfers, payload.swaps)
    BY <1>3 DEF Settle
  <2>2. \E p \in Pools, ts \in TransferLists, ss \in SwapLists : SettleBalances(p, ts, ss)
    BY <2>1, SettledBatch DEF RespondSigned, RespondToBatch
  <2>3. QED
    BY <2>2 DEF Next
<1>4. CASE Proceed \/ Commit \/ RevertAll
  BY <1>4 DEF Proceed, Commit, RevertAll, Next
<1>5. CASE RecordElsewhere \/ SettleElsewhere \/ AnswerAlone \/ UNCHANGED poolVars
  BY <1>5 DEF RecordElsewhere, SettleElsewhere, AnswerAlone, poolVars
<1>6. QED
  BY <1>1, <1>2, <1>3, <1>4, <1>5 DEF PoolNext

------------------------------------------------------------------------------
(* beforeSwap with createNewTask and settleBalances under respondToBatch   *)
(* do to the money what the hook does when it is called alone, so every    *)
(* theorem about the hook holds of the two contracts.                      *)
THEOREM PoolImplementsHook == PoolSpec => Spec
<1>1. PoolInit => Init
  BY DEF PoolInit
<1>2. PoolInv => ManagerTypeOK
  BY DEF PoolInv, ManagerInv
<1>3. QED
  BY <1>1, <1>2, PoolInitInv, PoolStepInv, PoolStepIsHookStep, PTL DEF PoolSpec, Spec

(* No batch the manager passes on leaves the PoolManager a delta.          *)
THEOREM PoolNeverUnsettled == PoolSpec => []NothingUnsettled
BY PoolImplementsHook, NeverUnsettled, PTL

(* Whatever settlement or order reverts, and at whichever call: the        *)
(* operator of a settled task has its own signature of it on record.       *)
THEOREM PoolAlwaysSigned == PoolSpec => []SettledIsSigned
<1>1. PoolInv => SettledIsSigned
  BY DEF PoolInv, ManagerInv
<1>2. QED
  BY <1>1, PoolInitInv, PoolStepInv, PTL DEF PoolSpec

(* A batch that reverted may be sent again and one that did not may not:   *)
(* no operator has the hook settle a task twice.                           *)
THEOREM PoolSettlesOnce == PoolSpec => []OncePerOperator
<1>1. PoolInv => OncePerOperator
  BY DEF PoolInv, ManagerInv
<1>2. QED
  BY <1>1, PoolInitInv, PoolStepInv, PTL DEF PoolSpec

------------------------------------------------------------------------------
(* Ordered, PaidOut and Swapped for any records, settlements and history.  *)
InputOf(task, c) == IF TaskInput(task) = c THEN TaskAmount(task) ELSE 0
OrderedIn(tasks, ids, c) ==
    SumFunctionOnSet([i \in TaskIds |-> IF i \in ids THEN InputOf(tasks[i], c) ELSE 0], TaskIds)
PaidIn(list, made, c) ==
    SumFunctionOnSet([k \in DOMAIN list |-> IF k \in made THEN PaidBy(list[k], c) ELSE 0],
                     DOMAIN list)
SwappedIn(list, made, c) ==
    SumFunctionOnSet([k \in DOMAIN list |-> IF k \in made THEN SwappedBy(list[k], c) ELSE 0],
                     DOMAIN list)

(* The history is of recorded tasks and settlements.                       *)
Traced(tasks, ids, list, made) ==
    /\ ids \subseteq TaskIds /\ made \subseteq DOMAIN list
    /\ \A i \in ids : tasks[i] # NoTask

(* The claims are what was ordered, less what was paid, less at most what  *)
(* was given to the curve.                                                 *)
Matches(escrow, tasks, ids, list, made) ==
    \A c \in Currencies :
        LET left == OrderedIn(tasks, ids, c) - PaidIn(list, made, c)
        IN  /\ escrow[c] <= left
            /\ (\A k \in made : ExactInput(list[k])) => escrow[c] >= left - SwappedIn(list, made, c)

Books(escrow, tasks, ids, list, made) ==
    Traced(tasks, ids, list, made) /\ Matches(escrow, tasks, ids, list, made)
BooksNow == Books(claims, allTaskHashes, escrowed, settlements, paid)
BooksSaved ==
    Books(saved.claims, savedManager.allTaskHashes, savedManager.escrowed,
          savedManager.settlements, savedManager.paid)

(* A settlement's swaps have put no more into the curve than they list, as *)
(* far as they are made.                                                   *)
SwapsMade == IF pc = "swap" THEN n - 1 ELSE Len(call.swaps)
SwapsInv ==
    pc \in {"swap", "net0", "net1", "return"} /\ call \in SettleCall =>
        /\ SwapsMade <= Len(call.swaps)
        /\ (\A j \in DOMAIN call.swaps : call.swaps[j].amountSpecified <= 0) =>
              \A c \in Currencies :
                  -Net(c) <= SumFunctionOnSet(GivenTo(call.key, call.swaps, c), 1..SwapsMade)

(* What the manager recorded for the transaction in progress: the task of  *)
(* the order, or the settlement with the lists the hook was given.         *)
RecordedNow ==
    pc # "idle" /\ call \in SwapCall =>
        /\ settlements = savedManager.settlements /\ paid = savedManager.paid
        /\ Traced(allTaskHashes, escrowed, settlements, paid)
        /\ \A c \in Currencies :
              OrderedIn(allTaskHashes, escrowed, c) =
                  OrderedIn(savedManager.allTaskHashes, savedManager.escrowed, c)
                    + (IF c = call.currency THEN call.returned ELSE 0)
SettledNow ==
    pc # "idle" /\ call \in SettleCall =>
        /\ allTaskHashes = savedManager.allTaskHashes /\ escrowed = savedManager.escrowed
        /\ \E m \in Settlement :
              /\ settlements = Append(savedManager.settlements, m)
              /\ paid = savedManager.paid \cup {Len(savedManager.settlements) + 1}
              /\ m.message.payload = [transfers |-> call.transfers, swaps |-> call.swaps]
              /\ call.key \in {NoKey, PoolKeyOf[m.message.poolId]}

MatchInv ==
    /\ pc = "idle" => BooksNow
    /\ pc # "idle" => BooksSaved
    /\ SwapsInv /\ RecordedNow /\ SettledNow

------------------------------------------------------------------------------
(* The sums are those of integers.                                         *)
LEMMA TaskSums ==
    ASSUME NEW tasks \in [TaskIds -> Task \cup {NoTask}], NEW ids \in SUBSET TaskIds,
           \A i \in ids : tasks[i] # NoTask, NEW c
    PROVE  /\ IsFiniteSet(TaskIds)
           /\ \A i \in TaskIds : (IF i \in ids THEN InputOf(tasks[i], c) ELSE 0) \in Int
           /\ OrderedIn(tasks, ids, c) \in Int
<1> DEFINE f == [i \in TaskIds |-> IF i \in ids THEN InputOf(tasks[i], c) ELSE 0]
<1>1. IsFiniteSet(TaskIds)
  BY ManagerAssumption, FS_Interval DEF TaskIds
<1>2. ASSUME NEW i \in ids PROVE InputOf(tasks[i], c) \in Int
  <2>1. tasks[i].order \in Orders
    BY <1>2 DEF Task
  <2>2. tasks[i].order.amountSpecified \in Int
    BY <2>1, PoolAssumption
  <2>3. QED
    BY <2>2 DEF InputOf, TaskAmount
<1>3. \A i \in TaskIds : f[i] \in Int
  BY <1>2
<1> HIDE DEF f
<1>4. SumFunctionOnSet(f, TaskIds) \in Int
  BY <1>1, <1>3, SumWithout
<1>5. QED
  BY <1>1, <1>2, <1>4 DEF OrderedIn, f

(* What the first swaps of a list give to the curve in c.                  *)
LEMMA GivenType ==
    ASSUME NEW key, NEW ss \in SwapLists, NEW c
    PROVE  LET given == GivenTo(key, ss, c)
           IN  /\ DOMAIN ss = 1..Len(ss) /\ Len(ss) \in Nat
               /\ \A j \in DOMAIN ss : given[j] \in Int
               /\ SumFunctionOnSet(given, DOMAIN ss) \in Int
               /\ (\A j \in DOMAIN ss : ss[j].amountSpecified <= 0) =>
                     /\ \A j \in DOMAIN ss : given[j] >= 0
                     /\ SumFunctionOnSet(given, DOMAIN ss) >= 0
<1> DEFINE given == GivenTo(key, ss, c)
           zero == [j \in DOMAIN ss |-> 0]
<1>1. ss \in Seq(SwapBalance) /\ DOMAIN ss = 1..Len(ss) /\ Len(ss) \in Nat
  BY HookAssumption
<1>2. IsFiniteSet(DOMAIN ss)
  BY <1>1, FS_Interval
<1>3. \A j \in DOMAIN ss : ss[j] \in SwapBalance
  BY <1>1
<1>4. \A j \in DOMAIN ss : given[j] \in Int
  BY <1>3 DEF GivenTo, SwapBalance
<1>5. ASSUME \A j \in DOMAIN ss : ss[j].amountSpecified <= 0, NEW j \in DOMAIN ss
      PROVE  given[j] >= 0
  BY <1>3, <1>5 DEF GivenTo, SwapBalance
<1>6. \A j \in DOMAIN ss : zero[j] = 0 /\ zero[j] \in Int
  OBVIOUS
<1> HIDE DEF given, zero
<1>7. SumFunctionOnSet(given, DOMAIN ss) \in Int
  BY <1>2, <1>4, SumWithout
<1>8. ASSUME \A j \in DOMAIN ss : ss[j].amountSpecified <= 0
      PROVE  SumFunctionOnSet(given, DOMAIN ss) >= 0
  <2>1. \A j \in DOMAIN ss : zero[j] <= given[j]
    BY <1>4, <1>5, <1>6, <1>8
  <2>2. SumFunctionOnSet(zero, DOMAIN ss) <= SumFunctionOnSet(given, DOMAIN ss)
    BY <1>2, <1>4, <1>6, <2>1, SumMonotone
  <2>3. SumFunctionOnSet(zero, DOMAIN ss) = 0
    BY <1>2, <1>6, SumZero
  <2>4. QED
    BY <1>7, <2>2, <2>3
<1>9. QED
  BY <1>1, <1>4, <1>5, <1>7, <1>8 DEF given

(* What one settlement paid and what its swaps list.                       *)
LEMMA SettlementSums ==
    ASSUME NEW m \in Settlement, NEW c
    PROVE  /\ PaidBy(m, c) \in Int
           /\ SwappedBy(m, c) \in Int
           /\ m.message.payload.transfers \in TransferLists
           /\ m.message.payload.swaps \in SwapLists
<1> DEFINE ts == m.message.payload.transfers
           ss == m.message.payload.swaps
           key == PoolKeyOf[m.message.poolId]
<1>1. ts \in TransferLists /\ ss \in SwapLists
  BY PoolAssumption DEF Settlement, Message
<1>2. ss \in Seq(SwapBalance) /\ Len(ss) \in Nat /\ ts \in Seq(TransferBalance) /\ Len(ts) \in Nat
  BY <1>1, HookAssumption
<1>3. \A u \in Users : [v \in Users |-> Owed(ts, v, c)][u] \in Int
  BY <1>1, <1>2, OwedUnfolds DEF Owed
<1> HIDE DEF ts, ss, key
<1>4. PaidBy(m, c) \in Int
  <2> DEFINE f == [v \in Users |-> Owed(ts, v, c)]
  <2>1. DOMAIN f = Users /\ \A u \in Users : f[u] \in Int
    BY <1>3
  <2> HIDE DEF f
  <2>2. SumFunctionOnSet(f, Users) \in Int
    BY <2>1, HookAssumption, SumWithout
  <2>3. QED
    BY <2>1, <2>2 DEF PaidBy, SumFunction, f, ts
<1>5. SwappedBy(m, c) \in Int
  <2>1. SumFunctionOnSet(GivenTo(key, ss, c), DOMAIN ss) \in Int
    BY <1>1, GivenType
  <2>2. DOMAIN GivenTo(key, ss, c) = DOMAIN ss
    BY DEF GivenTo
  <2>3. QED
    BY <2>1, <2>2 DEF SwappedBy, SumFunction, key, ss
<1>6. QED
  BY <1>1, <1>4, <1>5 DEF ts, ss

------------------------------------------------------------------------------
(* Sums over lists that grow, with the new settlement paid or not.         *)
LEMMA ListSums ==
    ASSUME NEW list \in Seq(Settlement), NEW made, NEW c
    PROVE  PaidIn(list, made, c) \in Int /\ SwappedIn(list, made, c) \in Int
<1>1. Len(list) \in Nat /\ DOMAIN list = 1..Len(list) /\ \A k \in DOMAIN list : list[k] \in Settlement
  OBVIOUS
<1>2. IsFiniteSet(DOMAIN list)
  BY <1>1, FS_Interval
<1>3. QED
  <2> DEFINE f == [k \in DOMAIN list |-> IF k \in made THEN PaidBy(list[k], c) ELSE 0]
             g == [k \in DOMAIN list |-> IF k \in made THEN SwappedBy(list[k], c) ELSE 0]
  <2>1. \A k \in DOMAIN list : f[k] \in Int /\ g[k] \in Int
    BY <1>1, SettlementSums
  <2> HIDE DEF f, g
  <2>2. SumFunctionOnSet(f, DOMAIN list) \in Int /\ SumFunctionOnSet(g, DOMAIN list) \in Int
    BY <1>2, <2>1, SumWithout
  <2>3. QED
    BY <2>2 DEF PaidIn, SwappedIn, f, g

LEMMA LongerSums ==
    ASSUME NEW list \in Seq(Settlement), NEW made, NEW c, NEW m \in Settlement
    PROVE  LET last == Len(list) + 1
           IN  /\ PaidIn(Append(list, m), made, c) =
                     PaidIn(list, made, c) + (IF last \in made THEN PaidBy(m, c) ELSE 0)
               /\ SwappedIn(Append(list, m), made, c) =
                     SwappedIn(list, made, c) + (IF last \in made THEN SwappedBy(m, c) ELSE 0)
<1> DEFINE longer == Append(list, m)
           k1 == Len(list)
           f == [k \in DOMAIN list |-> IF k \in made THEN PaidBy(list[k], c) ELSE 0]
           g == [k \in DOMAIN longer |-> IF k \in made THEN PaidBy(longer[k], c) ELSE 0]
           fs == [k \in DOMAIN list |-> IF k \in made THEN SwappedBy(list[k], c) ELSE 0]
           gs == [k \in DOMAIN longer |-> IF k \in made THEN SwappedBy(longer[k], c) ELSE 0]
<1>1. k1 \in Nat /\ DOMAIN list = 1..k1
  OBVIOUS
<1>2. /\ DOMAIN longer = 1..(k1 + 1) /\ longer[k1 + 1] = m
      /\ \A k \in 1..k1 : longer[k] = list[k]
      /\ \A k \in 1..(k1 + 1) : longer[k] \in Settlement
  BY <1>1
<1>3. \A k \in 1..(k1 + 1) : g[k] \in Int /\ gs[k] \in Int
  BY <1>2, SettlementSums
<1>4. \A k \in 1..k1 : f[k] = g[k] /\ fs[k] = gs[k]
  BY <1>1, <1>2
<1>5. /\ g[k1 + 1] = (IF k1 + 1 \in made THEN PaidBy(m, c) ELSE 0)
      /\ gs[k1 + 1] = (IF k1 + 1 \in made THEN SwappedBy(m, c) ELSE 0)
  BY <1>1, <1>2
<1>6. /\ PaidIn(longer, made, c) = SumFunctionOnSet(g, 1..(k1 + 1))
      /\ PaidIn(list, made, c) = SumFunctionOnSet(f, 1..k1)
      /\ SwappedIn(longer, made, c) = SumFunctionOnSet(gs, 1..(k1 + 1))
      /\ SwappedIn(list, made, c) = SumFunctionOnSet(fs, 1..k1)
  BY <1>1, <1>2 DEF PaidIn, SwappedIn
<1> HIDE DEF f, g, fs, gs, k1, longer
<1>7. /\ SumFunctionOnSet(g, 1..(k1 + 1)) = SumFunctionOnSet(f, 1..k1) + g[k1 + 1]
      /\ SumFunctionOnSet(gs, 1..(k1 + 1)) = SumFunctionOnSet(fs, 1..k1) + gs[k1 + 1]
  BY <1>1, <1>3, <1>4, SumAppend
<1>8. QED
  BY <1>5, <1>6, <1>7 DEF longer, k1

LEMMA UnpaidSums ==
    ASSUME NEW list \in Seq(Settlement), NEW made, NEW c, NEW m \in Settlement,
           Len(list) + 1 \notin made
    PROVE  /\ PaidIn(Append(list, m), made, c) = PaidIn(list, made, c)
           /\ SwappedIn(Append(list, m), made, c) = SwappedIn(list, made, c)
<1> DEFINE last == Len(list) + 1
           paidNow == PaidBy(m, c)
           swappedNow == SwappedBy(m, c)
<1>1. /\ PaidIn(Append(list, m), made, c) =
            PaidIn(list, made, c) + (IF last \in made THEN paidNow ELSE 0)
      /\ SwappedIn(Append(list, m), made, c) =
            SwappedIn(list, made, c) + (IF last \in made THEN swappedNow ELSE 0)
  BY LongerSums
<1>2. last \notin made
  OBVIOUS
<1>3. PaidIn(list, made, c) \in Int /\ SwappedIn(list, made, c) \in Int
  BY ListSums
<1> HIDE DEF last, paidNow, swappedNow
<1>4. QED
  BY <1>1, <1>2, <1>3

LEMMA PaidSums ==
    ASSUME NEW list \in Seq(Settlement), NEW made, NEW c, NEW m \in Settlement
    PROVE  /\ PaidIn(Append(list, m), made \cup {Len(list) + 1}, c) =
                 PaidIn(list, made, c) + PaidBy(m, c)
           /\ SwappedIn(Append(list, m), made \cup {Len(list) + 1}, c) =
                 SwappedIn(list, made, c) + SwappedBy(m, c)
<1> DEFINE last == Len(list) + 1
           more == made \cup {last}
           paidNow == PaidBy(m, c)
           swappedNow == SwappedBy(m, c)
<1>1. last \in more /\ \A k \in DOMAIN list : k \in more <=> k \in made
  OBVIOUS
<1> HIDE DEF more
<1>2. PaidIn(list, more, c) = PaidIn(list, made, c) /\ SwappedIn(list, more, c) = SwappedIn(list, made, c)
  BY <1>1 DEF PaidIn, SwappedIn
<1>3. /\ PaidIn(Append(list, m), more, c) =
            PaidIn(list, more, c) + (IF last \in more THEN paidNow ELSE 0)
      /\ SwappedIn(Append(list, m), more, c) =
            SwappedIn(list, more, c) + (IF last \in more THEN swappedNow ELSE 0)
  BY LongerSums
<1> HIDE DEF last
<1>4. QED
  BY <1>1, <1>2, <1>3 DEF more, last

------------------------------------------------------------------------------
(* The swaps of a settlement take from the hook no more than they list.    *)

(* Before the first swap.                                                  *)
LEMMA EndTransfersSwaps ==
    ASSUME IInv, EndTransfers
    PROVE  SwapsInv'
<1>1. /\ pc = "burn" /\ pc' = "swap" /\ n' = 1 /\ UNCHANGED <<call, swapDelta>> /\ call \in SettleCall
      /\ swapDelta = ZeroDelta
  BY DEF EndTransfers, IInv, TypeOK, DeltaInv, Settling
<1>2. \A c \in Currencies : Net(c)' = 0
  BY <1>1 DEF Net, ZeroDelta
<1>3. Len(call.swaps) \in Nat
  BY <1>1, HookAssumption DEF SettleCall
<1>4. SwapsMade' = 0 /\ 1..0 = {}
  BY <1>1 DEF SwapsMade
<1>5. \A c \in Currencies : SumFunctionOnSet(GivenTo(call.key, call.swaps, c), {}) = 0
  BY SumEmpty
<1>6. \A c \in Currencies :
         -Net(c)' <= SumFunctionOnSet(GivenTo(call'.key, call'.swaps, c), 1..SwapsMade')
  BY <1>1, <1>2, <1>4, <1>5
<1>7. SwapsMade' <= Len(call'.swaps)
  BY <1>1, <1>3, <1>4
<1>8. QED
  BY <1>6, <1>7 DEF SwapsInv

(* A swap fills at most the amount it specifies.                           *)
LEMMA SwapOneSwaps ==
    ASSUME IInv, SwapsInv, SwapOne
    PROVE  SwapsInv'
<1> DEFINE key == call.key
           s == call.swaps[n]
<1>1. /\ pc = "swap" /\ pc' = "swap" /\ n' = n + 1 /\ n <= Len(call.swaps) /\ key # NoKey
      /\ UNCHANGED call /\ call \in SettleCall
  BY DEF SwapOne, IInv, TypeOK, Settling
<1>2. call.swaps \in SwapLists /\ call.swaps \in Seq(SwapBalance) /\ Len(call.swaps) \in Nat
  BY <1>1, HookAssumption DEF SettleCall
<1>3. n \in 1..Len(call.swaps) /\ n \in Nat
  BY <1>1, <1>2 DEF IInv, TypeOK
<1>4. s \in SwapBalance
  BY <1>2, <1>3
<1>5. SwapsMade = n - 1 /\ SwapsMade' = n /\ n <= Len(call'.swaps)
  BY <1>1, <1>3 DEF SwapsMade
<1> SUFFICES ASSUME \A j \in DOMAIN call.swaps : call.swaps[j].amountSpecified <= 0,
                    NEW c \in Currencies
             PROVE  -Net(c)' <= SumFunctionOnSet(GivenTo(key, call.swaps, c), 1..n)
  BY <1>1, <1>5 DEF SwapsInv
<1>6. PICK x \in 0..MaxQuote, y \in 0..MaxQuote :
        LET amount0 == IF s.zeroForOne THEN -x ELSE y
            amount1 == IF s.zeroForOne THEN y ELSE -x
        IN  /\ Quote(key, s.zeroForOne, s.amountSpecified, x, y)
            /\ swapDelta' = [amount0 |-> swapDelta.amount0 + amount0,
                             amount1 |-> swapDelta.amount1 + amount1]
  BY Zenon DEF SwapOne, AddDelta
<1>7. x \in Nat /\ y \in Nat
  BY HookAssumption
<1> DEFINE a == -s.amountSpecified
           given == GivenTo(key, call.swaps, c)
<1>8. s.amountSpecified < 0 /\ s.amountSpecified \in Int /\ x <= a /\ a \in Int /\ a >= 0
  BY <1>2, <1>3, <1>4, <1>6 DEF Quote, SwapBalance
<1>9. given[n] = IF c = Input(key, s.zeroForOne) THEN a ELSE 0
  BY <1>2, <1>3 DEF GivenTo
<1>10. key.currency0 # key.currency1
  BY <1>1 DEF IInv, KeyInv, ValidKey, Settling
<1>11. -Net(c)' <= -Net(c) + given[n]
  <2>1. swapDelta.amount0 \in Int /\ swapDelta.amount1 \in Int
    BY DEF IInv, TypeOK
  <2> DEFINE z == s.zeroForOne
  <2>2. /\ swapDelta'.amount0 = swapDelta.amount0 + (IF z THEN -x ELSE y)
        /\ swapDelta'.amount1 = swapDelta.amount1 + (IF z THEN y ELSE -x)
    BY <1>6
  <2>3. Net(c) = IF c = key.currency0 THEN swapDelta.amount0
                 ELSE IF c = key.currency1 THEN swapDelta.amount1 ELSE 0
    BY <1>1 DEF Net
  <2>4. Net(c)' = IF c = key.currency0 THEN swapDelta'.amount0
                  ELSE IF c = key.currency1 THEN swapDelta'.amount1 ELSE 0
    BY <1>1 DEF Net
  <2>5. given[n] = IF c = (IF z THEN key.currency0 ELSE key.currency1) THEN a ELSE 0
    BY <1>9 DEF Input
  <2> HIDE DEF z, a, given, key, s
  <2>6. QED
    BY <1>7, <1>8, <1>10, <2>1, <2>2, <2>3, <2>4, <2>5
<1>12. SumFunctionOnSet(given, 1..n) = SumFunctionOnSet(given, 1..(n - 1)) + given[n]
  <2>1. DOMAIN call.swaps = 1..Len(call.swaps) /\ \A j \in DOMAIN call.swaps : given[j] \in Int
    BY <1>2, GivenType
  <2> DEFINE m == n - 1
  <2>2. m \in Nat /\ m + 1 = n /\ 1..n \subseteq DOMAIN call.swaps
    BY <1>3, <2>1
  <2>3. \A j \in 1..(m + 1) : given[j] \in Int
    BY <2>1, <2>2
  <2> HIDE DEF m, given
  <2>4. SumFunctionOnSet(given, 1..(m + 1)) = SumFunctionOnSet(given, 1..m) + given[m + 1]
    BY <2>2, <2>3, SumAppend
  <2>5. QED
    BY <2>2, <2>4 DEF m
<1>13. -Net(c) <= SumFunctionOnSet(given, 1..(n - 1))
  BY <1>1, <1>5 DEF SwapsInv
<1>14. Net(c) \in Int /\ Net(c)' \in Int /\ given[n] \in Int
       /\ SumFunctionOnSet(given, 1..(n - 1)) \in Int
  <2>1. Net(c) \in Int
    BY DEF IInv, TypeOK, Net
  <2>2. given[n] \in Int
    BY <1>8, <1>9
  <2>3. Net(c)' \in Int
    <3>1. swapDelta'.amount0 \in Int /\ swapDelta'.amount1 \in Int
      BY <1>6, <1>7 DEF IInv, TypeOK
    <3>2. QED
      BY <3>1 DEF Net
  <2>4. SumFunctionOnSet(given, 1..(n - 1)) \in Int
    <3>1. DOMAIN call.swaps = 1..Len(call.swaps) /\ \A j \in DOMAIN call.swaps : given[j] \in Int
      BY <1>2, GivenType
    <3> DEFINE S == 1..(n - 1)
    <3> HIDE DEF given
    <3>2. \A j \in S : given[j] \in Int
      BY <1>3, <3>1
    <3>3. n - 1 \in Int
      BY <1>3
    <3>4. IsFiniteSet(S)
      BY <3>3, FS_Interval
    <3> HIDE DEF S
    <3>5. SumFunctionOnSet(given, S) \in Int
      BY <3>2, <3>4, SumWithout
    <3>6. QED
      BY <3>5 DEF S
  <2>5. QED
    BY <2>1, <2>2, <2>3, <2>4
<1> DEFINE was == Net(c)
           now == Net(c)'
           sum == SumFunctionOnSet(given, 1..(n - 1))
<1> HIDE DEF was, now, sum, given
<1>15. -now <= sum + given[n]
  BY <1>11, <1>13, <1>14 DEF was, now, sum
<1>16. QED
  BY <1>12, <1>15 DEF now, sum, given

(* After the swaps the net stays what it is.                               *)
LEMMA LaterSwaps ==
    ASSUME IInv, SwapsInv, EndSwaps \/ Net0 \/ Net1
    PROVE  SwapsInv'
<1>1. /\ pc \in {"swap", "net0", "net1"} /\ pc' \in {"net0", "net1", "return"} /\ call \in SettleCall
      /\ UNCHANGED <<n, call, swapDelta>>
      /\ pc = "swap" => n > Len(call.swaps)
  BY DEF EndSwaps, Net0, Net1, IInv, TypeOK, Settling
<1>2. Len(call.swaps) \in Nat /\ n \in Nat
  BY <1>1, HookAssumption DEF IInv, TypeOK, SettleCall
<1>3. SwapsMade <= Len(call.swaps)
  BY <1>1 DEF SwapsInv
<1>4. SwapsMade = Len(call.swaps)
  BY <1>1, <1>2, <1>3 DEF SwapsMade
<1>5. SwapsMade' = SwapsMade
  BY <1>1, <1>4 DEF SwapsMade
<1>6. \A c \in Currencies : Net(c)' = Net(c)
  BY <1>1 DEF Net
<1>7. QED
  BY <1>1, <1>5, <1>6 DEF SwapsInv

(* No step of the hook makes the swaps of a settlement take more.          *)
LEMMA SwapsStep == IInv /\ SwapsInv /\ [Next]_vars => SwapsInv'
<1> SUFFICES ASSUME IInv, SwapsInv, [Next]_vars PROVE SwapsInv'
  OBVIOUS
<1>1. ASSUME pc' \in {"idle", "escrowed", "burn", "take"} PROVE SwapsInv'
  BY <1>1 DEF SwapsInv
<1>2. CASE \E p \in Pools : AfterInitialize(p)
  <2>1. pc' = "idle"
    BY <1>2 DEF AfterInitialize
  <2>2. QED
    BY <1>1, <2>1
<1>3. CASE Swap
  <2>1. pc' \in {"idle", "escrowed"}
    BY <1>3 DEF Swap, PlainSwap, BeforeSwap, Unlock
  <2>2. QED
    BY <1>1, <2>1
<1>4. CASE ChargeSwapper
  <2>1. call' \in SwapCall
    BY <1>4 DEF ChargeSwapper, IInv, TypeOK
  <2>2. QED
    BY <2>1, CallsDiffer DEF SwapsInv
<1>5. CASE \E p \in Pools, ts \in TransferLists, ss \in SwapLists : SettleBalances(p, ts, ss)
  <2>1. pc' = "burn"
    BY <1>5 DEF SettleBalances, Unlock
  <2>2. QED
    BY <1>1, <2>1
<1>6. CASE UnlockCallback
  <2>1. CASE BurnTransfer \/ TakeTransfer
    <3>1. pc' \in {"take", "burn"}
      BY <2>1 DEF BurnTransfer, TakeTransfer
    <3>2. QED
      BY <1>1, <3>1
  <2>2. QED
    BY <1>6, <2>1, EndTransfersSwaps, SwapOneSwaps, LaterSwaps DEF UnlockCallback
<1>7. CASE Return \/ Revert
  <2>1. pc' = "idle"
    BY <1>7 DEF Return, Revert, Relock
  <2>2. QED
    BY <1>1, <2>1
<1>8. CASE UNCHANGED vars
  <2>1. SwapsMade' = SwapsMade /\ \A c \in Currencies : Net(c)' = Net(c)
    BY <1>8 DEF vars, SwapsMade, Net
  <2>2. QED
    BY <1>8, <2>1 DEF vars, SwapsInv
<1>9. QED
  BY <1>2, <1>3, <1>4, <1>5, <1>6, <1>7, <1>8 DEF Next

------------------------------------------------------------------------------
(* The books of the two contracts, step by step.                           *)

(* What the proofs of the steps start from.                                *)
BothInv == PoolInv /\ IInv /\ LedgerInv

LEMMA BothTypes ==
    ASSUME BothInv
    PROVE  /\ allTaskHashes \in [TaskIds -> Task \cup {NoTask}]
           /\ settlements \in Seq(Settlement)
           /\ pc # "idle" => /\ savedManager.allTaskHashes \in [TaskIds -> Task \cup {NoTask}]
                             /\ savedManager.settlements \in Seq(Settlement)
BY DEF BothInv, PoolInv, ManagerInv, ManagerTypeOK, RestoredInv, Restored!ManagerTypeOK,
   Settlement, Restored!Settlement, Message, Restored!Message, Task, Restored!Task,
   TaskIds, Restored!TaskIds, PoolIds, Restored!PoolIds

(* The books do not change when claims, tasks and settlements do not.      *)
LEMMA SameBooks ==
    ASSUME MatchInv, pc = "idle",
           UNCHANGED <<pc, claims, allTaskHashes, settlements, escrowed, paid>>
    PROVE  MatchInv'
<1>1. BooksNow
  BY DEF MatchInv
<1>2. BooksNow'
  BY <1>1 DEF BooksNow
<1>3. QED
  BY <1>2 DEF MatchInv, SwapsInv, RecordedNow, SettledNow

(* A transaction that starts saves books that agree.                       *)
LEMMA SavedBooks ==
    ASSUME MatchInv, pc = "idle", saved'.claims = claims, savedManager' = Manager
    PROVE  BooksSaved'
<1>1. /\ savedManager'.allTaskHashes = allTaskHashes /\ savedManager'.settlements = settlements
      /\ savedManager'.escrowed = escrowed /\ savedManager'.paid = paid
  BY DEF Manager
<1>2. QED
  BY <1>1 DEF MatchInv, BooksNow, BooksSaved

(* beforeSwap and createNewTask book one new task, for the input escrowed. *)
NewTask(z, a, u, p) == [order |-> Order(z, a, u, p), taskId |-> latestTaskNum]

LEMMA TakenTask ==
    ASSUME BothInv, NEW u \in Users, NEW p \in Pools, NEW z \in BOOLEAN,
           NEW d \in HookData, NEW a \in Amounts \cup {-b : b \in Amounts},
           TakeOver(u, p, z, a, d)
    PROVE  /\ a \in Int
           /\ pc = "idle" /\ pc' = "escrowed" /\ saved'.claims = claims
           /\ call'.currency = Input(poolKeys[p], z) /\ call'.returned = -a
           /\ latestTaskNum \in TaskIds /\ allTaskHashes[latestTaskNum] = NoTask
           /\ allTaskHashes \in [TaskIds -> Task \cup {NoTask}]
           /\ allTaskHashes' = [allTaskHashes EXCEPT ![latestTaskNum] = NewTask(z, a, d.sender, p)]
           /\ settlements' = settlements
           /\ NewTask(z, a, d.sender, p) \in Task /\ NewTask(z, a, d.sender, p) # NoTask
           /\ TaskInput(NewTask(z, a, d.sender, p)) = Input(poolKeys[p], z)
           /\ TaskAmount(NewTask(z, a, d.sender, p)) = -a
<1>0. BeforeSwap(u, p, z, a, d) /\ CreateNewTask(Hook, Order(z, a, d.sender, p))
  BY DEF TakeOver
<1> DEFINE c0 == Input(poolKeys[p], z)
           new == NewTask(z, a, d.sender, p)
<1>1. a \in Int
  <2>1. \A b \in Amounts : b \in Int /\ -b \in Int
    BY AmountsArePositive
  <2>2. QED
    BY <2>1
<1>2. /\ pc = "idle" /\ pc' = "escrowed" /\ poolKeys[p] # NoKey
      /\ call' = [user |-> u, currency |-> c0, returned |-> Returned(a)]
      /\ saved'.claims = claims
  BY <1>0 DEF BeforeSwap, Unlock
<1>3. Int128(a) = a /\ Returned(a) = -a
  BY <1>0, <1>1, HookAssumption DEF BeforeSwap, TakesOver, Mint, Int128, InInt128, Returned
<1>4. /\ latestTaskNum \in TaskIds /\ allTaskHashes[latestTaskNum] = NoTask
      /\ allTaskHashes \in [TaskIds -> Task \cup {NoTask}]
  <2>1. latestTaskNum \in TaskIds /\ RecordsInOrder
    BY DEF BothInv, PoolInv, ManagerInv, ManagerTypeOK
  <2>2. ~ (latestTaskNum < latestTaskNum)
    BY <2>1 DEF TaskIds
  <2>3. QED
    BY <2>1, <2>2, BothTypes DEF RecordsInOrder
<1>5. /\ allTaskHashes' = [allTaskHashes EXCEPT ![latestTaskNum] = new]
      /\ settlements' = settlements
  BY <1>0 DEF CreateNewTask, NewTask
<1>6. new \in Task /\ new # NoTask
  BY <1>0, <1>4, TakenOrder, ManagerAssumption DEF Task, NewTask
<1>7. poolKeys[p] = PoolKeyOf[p]
  BY <1>2 DEF BothInv, LedgerInv, KeyedByPool
<1>8. TaskInput(new) = c0 /\ TaskAmount(new) = -a
  BY <1>7 DEF TaskInput, TaskAmount, Order, NewTask
<1>9. QED
  BY <1>1, <1>2, <1>3, <1>4, <1>5, <1>6, <1>8

(* Both books have the same amount more.                                   *)
LEMMA TakeOrderMatch ==
    ASSUME BothInv, MatchInv, NEW u \in Users, NEW p \in Pools, NEW z \in BOOLEAN,
           NEW d \in HookData, NEW a \in Amounts \cup {-b : b \in Amounts}, IInv',
           TakeOver(u, p, z, a, d)
    PROVE  MatchInv'
<1> DEFINE c0 == Input(poolKeys[p], z)
           new == NewTask(z, a, d.sender, p)
           k == latestTaskNum
<1>1. a \in Int /\ pc = "idle" /\ pc' = "escrowed"
  BY TakenTask
<1>2. saved'.claims = claims /\ call'.currency = c0 /\ call'.returned = -a
  BY TakenTask
<1>3. call' \in SwapCall /\ ~ (call' \in SettleCall)
  BY <1>1, CallsDiffer DEF IInv, TypeOK
<1>4. /\ k \in TaskIds /\ allTaskHashes[k] = NoTask
      /\ allTaskHashes \in [TaskIds -> Task \cup {NoTask}]
  BY TakenTask
<1>5. /\ allTaskHashes' = [allTaskHashes EXCEPT ![k] = new]
      /\ settlements' = settlements
      /\ escrowed' = escrowed \cup {k} /\ paid' = paid /\ savedManager' = Manager
  BY TakenTask DEF TakeOver
<1>6. new \in Task /\ new # NoTask
  BY TakenTask
<1>7. \A c : InputOf(new, c) = IF c = c0 THEN -a ELSE 0
  <2>1. TaskInput(new) = c0 /\ TaskAmount(new) = -a
    BY TakenTask
  <2>2. QED
    BY <2>1 DEF InputOf
<1>8. /\ savedManager'.allTaskHashes = allTaskHashes /\ savedManager'.settlements = settlements
      /\ savedManager'.escrowed = escrowed /\ savedManager'.paid = paid
  BY <1>5 DEF Manager
<1> HIDE DEF new, k
<1>9. Traced(allTaskHashes, escrowed, settlements, paid) /\ k \notin escrowed
  BY <1>1, <1>4 DEF MatchInv, BooksNow, Books, Traced
<1>10. Traced(allTaskHashes', escrowed', settlements', paid')
  BY <1>4, <1>5, <1>6, <1>9 DEF Traced
<1>11. ASSUME NEW c \in Currencies
       PROVE  OrderedIn(allTaskHashes', escrowed', c) =
                  OrderedIn(allTaskHashes, escrowed, c) + (IF c = c0 THEN -a ELSE 0)
  <2> DEFINE f == [i \in TaskIds |-> IF i \in escrowed THEN InputOf(allTaskHashes[i], c) ELSE 0]
             g == [i \in TaskIds |-> IF i \in escrowed' THEN InputOf(allTaskHashes'[i], c) ELSE 0]
  <2>1. allTaskHashes' \in [TaskIds -> Task \cup {NoTask}]
    BY <1>4, <1>5, <1>6
  <2>2. IsFiniteSet(TaskIds) /\ (\A i \in TaskIds : f[i] \in Int)
    BY <1>4, <1>9, TaskSums DEF Traced
  <2>3. \A i \in TaskIds : g[i] \in Int
    BY <1>10, <2>1, TaskSums DEF Traced
  <2>4. \A i \in TaskIds \ {k} : g[i] = f[i]
    BY <1>4, <1>5
  <2>5. f[k] = 0 /\ g[k] = IF c = c0 THEN -a ELSE 0
    BY <1>4, <1>5, <1>7, <1>9
  <2>6. OrderedIn(allTaskHashes, escrowed, c) = SumFunctionOnSet(f, TaskIds)
    BY DEF OrderedIn
  <2>7. OrderedIn(allTaskHashes', escrowed', c) = SumFunctionOnSet(g, TaskIds)
    BY DEF OrderedIn
  <2> HIDE DEF f, g, c0
  <2>8. k \in TaskIds
    BY <1>4
  <2>9. SumFunctionOnSet(g, TaskIds) = SumFunctionOnSet(f, TaskIds) + (g[k] - f[k])
    BY <2>2, <2>3, <2>4, <2>8, SumChange
  <2>10. g[k] - f[k] = IF c = c0 THEN -a ELSE 0
    BY <1>1, <2>5
  <2>11. QED
    BY <2>6, <2>7, <2>9, <2>10
<1>12. RecordedNow'
  BY <1>2, <1>5, <1>8, <1>10, <1>11 DEF RecordedNow
<1>13. BooksSaved'
  BY <1>1, <1>2, <1>5, SavedBooks
<1>14. QED
  BY <1>1, <1>3, <1>12, <1>13 DEF MatchInv, SwapsInv, SettledNow

(* A task recorded by another hook is not among those that were escrowed.  *)
LEMMA RecordElsewhereMatch ==
    ASSUME BothInv, MatchInv, ManagerInv', RecordElsewhere
    PROVE  MatchInv'
<1>1. PICK caller, order : CreateNewTask(caller, order)
  BY DEF RecordElsewhere
<1>2. /\ pc = "idle" /\ pc' = "idle" /\ UNCHANGED <<claims, escrowed, paid, settlements>>
      /\ allTaskHashes' = [allTaskHashes EXCEPT
                              ![latestTaskNum] = [order |-> order, taskId |-> latestTaskNum]]
  BY <1>1 DEF RecordElsewhere, CreateNewTask, vars, history
<1>3. /\ allTaskHashes \in [TaskIds -> Task \cup {NoTask}]
      /\ latestTaskNum \in TaskIds /\ allTaskHashes[latestTaskNum] = NoTask
  <2>1. latestTaskNum \in TaskIds /\ RecordsInOrder
    BY DEF BothInv, PoolInv, ManagerInv, ManagerTypeOK
  <2>2. ~ (latestTaskNum < latestTaskNum)
    BY <2>1 DEF TaskIds
  <2>3. QED
    BY <2>1, <2>2, BothTypes DEF RecordsInOrder
<1>4. Traced(allTaskHashes, escrowed, settlements, paid)
  BY <1>2 DEF MatchInv, BooksNow, Books
<1>5. \A i \in escrowed : i # latestTaskNum /\ allTaskHashes'[i] = allTaskHashes[i]
  BY <1>2, <1>3, <1>4 DEF Traced
<1>6. Traced(allTaskHashes', escrowed', settlements', paid')
  BY <1>2, <1>4, <1>5 DEF Traced
<1>7. ASSUME NEW c PROVE OrderedIn(allTaskHashes', escrowed', c) = OrderedIn(allTaskHashes, escrowed, c)
  <2>1. [i \in TaskIds |-> IF i \in escrowed' THEN InputOf(allTaskHashes'[i], c) ELSE 0]
            = [i \in TaskIds |-> IF i \in escrowed THEN InputOf(allTaskHashes[i], c) ELSE 0]
    BY <1>2, <1>5
  <2>2. QED
    BY <2>1 DEF OrderedIn
<1>8. Matches(claims', allTaskHashes', escrowed', settlements', paid')
  BY <1>2, <1>7 DEF MatchInv, BooksNow, Books, Matches
<1>9. QED
  BY <1>2, <1>6, <1>8 DEF MatchInv, BooksNow, Books, SwapsInv, RecordedNow, SettledNow

(* A batch the manager accepts is recorded as a settlement at the end of   *)
(* the list, with the lists that were sent.                                *)
Sent(op, refs, tasks, payload) ==
    [operator |-> op, refs |-> refs,
     message |-> [poolId |-> tasks[1].order.poolId, payload |-> payload]]

LEMMA RecordedBatch ==
    ASSUME BothInv, settlements' \in Seq(Settlement), NEW op, NEW refs, NEW tasks, NEW payload,
           RespondSigned(op, refs, tasks, payload)
    PROVE  LET m == Sent(op, refs, tasks, payload)
           IN  /\ settlements' = Append(settlements, m) /\ allTaskHashes' = allTaskHashes
               /\ UNCHANGED hook /\ m \in Settlement /\ settlements \in Seq(Settlement)
<1> DEFINE m == Sent(op, refs, tasks, payload)
<1>1. settlements' = Append(settlements, m) /\ allTaskHashes' = allTaskHashes /\ UNCHANGED hook
  BY DEF RespondSigned, RespondToBatch, PoolToUse, registry, Sent
<1>2. settlements \in Seq(Settlement)
  BY BothTypes
<1> HIDE DEF m
<1>3. Len(settlements') = Len(settlements) + 1 /\ settlements'[Len(settlements) + 1] = m
  BY <1>1, <1>2
<1>4. Len(settlements) + 1 \in 1..Len(settlements')
  BY <1>2, <1>3
<1>5. m \in Settlement
  BY <1>3, <1>4
<1>6. QED
  BY <1>1, <1>2, <1>5 DEF m

(* A settlement passes on the lists it records.                            *)
LEMMA SettleMatch ==
    ASSUME BothInv, MatchInv, IInv', settlements' \in Seq(Settlement), Settle
    PROVE  MatchInv'
<1>1. PICK op \in Operators, refs \in RefLists, payload \in Payloads :
        \E tasks \in [DOMAIN refs -> Recorded] :
            /\ RespondSigned(op, refs, tasks, payload)
            /\ SettleBalances(tasks[1].order.poolId, payload.transfers, payload.swaps)
  BY DEF Settle
<1>2. PICK tasks \in [DOMAIN refs -> Recorded] :
            /\ RespondSigned(op, refs, tasks, payload)
            /\ SettleBalances(tasks[1].order.poolId, payload.transfers, payload.swaps)
  BY <1>1
<1> DEFINE p == tasks[1].order.poolId
           m == Sent(op, refs, tasks, payload)
<1>3. /\ pc = "idle" /\ pc' = "burn" /\ saved'.claims = claims
      /\ call' = [key |-> poolKeys[p], transfers |-> payload.transfers, swaps |-> payload.swaps]
      /\ savedManager' = Manager /\ escrowed' = escrowed
      /\ paid' = paid \cup {Len(settlements')}
  BY <1>2 DEF Settle, SettleBalances, Unlock
<1>4. ManagerTypeOK /\ refs # <<>>
  BY <1>2 DEF BothInv, PoolInv, ManagerInv, RespondSigned, RespondToBatch
<1>5. p \in Pools /\ payload.transfers \in TransferLists /\ payload.swaps \in SwapLists
  BY <1>4, SettledBatch
<1>6. /\ settlements' = Append(settlements, m) /\ allTaskHashes' = allTaskHashes
      /\ m \in Settlement /\ settlements \in Seq(Settlement)
  BY <1>2, RecordedBatch
<1>7. call' \in SettleCall /\ ~ (call' \in SwapCall)
  BY <1>3, CallsDiffer DEF IInv, TypeOK, Settling
<1>8. payload = [transfers |-> payload.transfers, swaps |-> payload.swaps]
  BY PoolAssumption
<1>9. poolKeys[p] \in {NoKey, PoolKeyOf[p]}
  BY <1>5 DEF BothInv, LedgerInv, KeyedByPool
<1>10. /\ savedManager'.allTaskHashes = allTaskHashes /\ savedManager'.settlements = settlements
       /\ savedManager'.escrowed = escrowed /\ savedManager'.paid = paid
  BY <1>3 DEF Manager
<1>11. m.message.payload = payload /\ m.message.poolId = p
  BY DEF Sent
<1> HIDE DEF m, p
<1>12. Len(settlements') = Len(settlements) + 1
  BY <1>6
<1>13. SettledNow'
  BY <1>3, <1>6, <1>8, <1>9, <1>10, <1>11, <1>12 DEF SettledNow
<1>14. BooksSaved'
  BY <1>3, SavedBooks
<1>15. QED
  BY <1>3, <1>7, <1>13, <1>14 DEF MatchInv, SwapsInv, RecordedNow

(* A settlement through another hook is not among those the hook paid.     *)
LEMMA SettleElsewhereMatch ==
    ASSUME BothInv, MatchInv, settlements' \in Seq(Settlement), SettleElsewhere
    PROVE  MatchInv'
<1>1. PICK op, refs, payload, tasks : RespondSigned(op, refs, tasks, payload)
  BY DEF SettleElsewhere
<1> DEFINE m == Sent(op, refs, tasks, payload)
<1>2. /\ settlements' = Append(settlements, m) /\ allTaskHashes' = allTaskHashes
      /\ m \in Settlement /\ settlements \in Seq(Settlement)
  BY <1>1, RecordedBatch
<1>3. pc = "idle" /\ pc' = "idle" /\ UNCHANGED <<claims, escrowed, paid>>
  BY DEF SettleElsewhere, vars, history
<1> HIDE DEF m
<1>4. Traced(allTaskHashes, escrowed, settlements, paid)
  BY <1>3 DEF MatchInv, BooksNow, Books
<1>5. \A k \in paid : k \in DOMAIN settlements' /\ settlements'[k] = settlements[k]
  BY <1>2, <1>4 DEF Traced
<1>6. Traced(allTaskHashes', escrowed', settlements', paid')
  BY <1>2, <1>3, <1>4, <1>5 DEF Traced
<1>7. Matches(claims', allTaskHashes', escrowed', settlements', paid')
  <2>1. ASSUME NEW c \in Currencies
        PROVE  /\ PaidIn(settlements', paid, c) = PaidIn(settlements, paid, c)
               /\ SwappedIn(settlements', paid, c) = SwappedIn(settlements, paid, c)
    <3>1. Len(settlements) + 1 \notin paid
      BY <1>2, <1>4 DEF Traced
    <3>2. /\ PaidIn(Append(settlements, m), paid, c) = PaidIn(settlements, paid, c)
          /\ SwappedIn(Append(settlements, m), paid, c) = SwappedIn(settlements, paid, c)
      BY <1>2, <3>1, UnpaidSums
    <3>3. QED
      BY <1>2, <3>2
  <2>2. (\A k \in paid : ExactInput(settlements'[k])) <=> (\A k \in paid : ExactInput(settlements[k]))
    BY <1>5
  <2>3. QED
    BY <1>2, <1>3, <2>1, <2>2 DEF MatchInv, BooksNow, Books, Matches
<1>8. QED
  BY <1>3, <1>6, <1>7 DEF MatchInv, BooksNow, Books, SwapsInv, RecordedNow, SettledNow

(* A call of the hook inside a transaction changes no books.               *)
LEMMA ProceedMatch ==
    ASSUME BothInv, MatchInv, SwapsInv', Proceed
    PROVE  MatchInv'
<1>1. /\ pc # "idle" /\ pc' # "idle"
      /\ UNCHANGED <<saved, call, savedManager, managerVars, escrowed, paid>>
  BY DEF Proceed, ChargeSwapper, UnlockCallback, BurnTransfer, TakeTransfer,
     EndTransfers, SwapOne, EndSwaps, Net0, Net1, history
<1>2. UNCHANGED <<allTaskHashes, settlements>>
  BY <1>1 DEF managerVars
<1>3. BooksSaved'
  BY <1>1 DEF MatchInv, BooksSaved
<1>4. RecordedNow' /\ SettledNow'
  BY <1>1, <1>2 DEF MatchInv, RecordedNow, SettledNow
<1>5. QED
  BY <1>1, <1>3, <1>4 DEF MatchInv

(* A failure puts both books back.                                         *)
LEMMA RevertMatch ==
    ASSUME MatchInv, RevertAll
    PROVE  MatchInv'
<1>1. /\ pc # "idle" /\ pc' = "idle" /\ claims' = saved.claims
      /\ allTaskHashes' = savedManager.allTaskHashes /\ settlements' = savedManager.settlements
      /\ escrowed' = savedManager.escrowed /\ paid' = savedManager.paid
  BY DEF RevertAll, Revert, Relock
<1>2. BooksNow'
  BY <1>1 DEF MatchInv, BooksNow, BooksSaved
<1>3. QED
  BY <1>1, <1>2 DEF MatchInv, SwapsInv, RecordedNow, SettledNow

(* An order that commits adds to both books what it gave up.               *)
LEMMA CommitOrderMatch ==
    ASSUME BothInv, MatchInv, Commit, call \in SwapCall
    PROVE  MatchInv'
<1>1. /\ pc = "return" /\ pc' = "idle"
      /\ UNCHANGED <<claims, allTaskHashes, settlements, escrowed, paid>>
  BY DEF Commit, Return, Relock, money, managerVars, history
<1>2. /\ claims = [saved.claims EXCEPT ![call.currency] = @ + call.returned]
      /\ settlements = savedManager.settlements /\ paid = savedManager.paid
      /\ Traced(allTaskHashes, escrowed, settlements, paid)
      /\ \A c \in Currencies :
            OrderedIn(allTaskHashes, escrowed, c) =
                OrderedIn(savedManager.allTaskHashes, savedManager.escrowed, c)
                  + (IF c = call.currency THEN call.returned ELSE 0)
  BY <1>1 DEF BothInv, LedgerInv, DepositInv, MatchInv, RecordedNow
<1>3. BooksSaved
  BY <1>1 DEF MatchInv
<1>4. Matches(claims, allTaskHashes, escrowed, settlements, paid)
  <2> SUFFICES ASSUME NEW c \in Currencies
               PROVE  LET left == OrderedIn(allTaskHashes, escrowed, c) - PaidIn(settlements, paid, c)
                      IN  /\ claims[c] <= left
                          /\ (\A k \in paid : ExactInput(settlements[k])) =>
                                 claims[c] >= left - SwappedIn(settlements, paid, c)
    BY DEF Matches
  <2> DEFINE was == OrderedIn(savedManager.allTaskHashes, savedManager.escrowed, c)
             now == OrderedIn(allTaskHashes, escrowed, c)
             out == PaidIn(settlements, paid, c)
             swapped == SwappedIn(settlements, paid, c)
             exact == \A k \in paid : ExactInput(settlements[k])
  <2>1. /\ saved.claims[c] <= was - out
        /\ exact => saved.claims[c] >= was - out - swapped
    BY <1>2, <1>3 DEF BooksSaved, Books, Matches
  <2>2. was \in Int /\ now \in Int
    BY <1>1, <1>2, <1>3, BothTypes, TaskSums DEF BooksSaved, Books, Traced
  <2>3. out \in Int /\ swapped \in Int
    BY BothTypes, ListSums
  <2>4. saved.claims \in [Currencies -> Nat] /\ call.returned \in Nat /\ call.currency \in Currencies
    BY <1>1 DEF BothInv, IInv, TypeOK, SwapCall
  <2>5. claims[c] = saved.claims[c] + (IF c = call.currency THEN call.returned ELSE 0)
    BY <1>2, <2>4
  <2>6. now = was + (IF c = call.currency THEN call.returned ELSE 0)
    BY <1>2
  <2>7. saved.claims[c] \in Nat
    BY <2>4
  <2> HIDE DEF was, now, out, swapped, exact
  <2>8. claims[c] <= now - out /\ (exact => claims[c] >= now - out - swapped)
    BY <2>1, <2>2, <2>3, <2>4, <2>5, <2>6, <2>7
  <2>9. QED
    BY <2>8 DEF was, now, out, swapped, exact
<1>5. BooksNow'
  BY <1>1, <1>2, <1>4 DEF BooksNow, Books
<1>6. QED
  BY <1>1, <1>5 DEF MatchInv, SwapsInv, RecordedNow, SettledNow

(* A settlement that commits took from the escrow what the registry says:  *)
(* its transfers, and at most its swaps.                                   *)
LEMMA CommitSettlementMatch ==
    ASSUME BothInv, MatchInv, Commit, call \in SettleCall
    PROVE  MatchInv'
<1>1. /\ pc = "return" /\ pc' = "idle"
      /\ UNCHANGED <<claims, allTaskHashes, settlements, escrowed, paid>>
  BY DEF Commit, Return, Relock, money, managerVars, history
<1> DEFINE old == savedManager.settlements
           made == savedManager.paid
           last == Len(old) + 1
<1>2. allTaskHashes = savedManager.allTaskHashes /\ escrowed = savedManager.escrowed
  BY <1>1 DEF MatchInv, SettledNow
<1>3. PICK m \in Settlement :
        /\ settlements = Append(old, m) /\ paid = made \cup {last}
        /\ m.message.payload = [transfers |-> call.transfers, swaps |-> call.swaps]
        /\ call.key \in {NoKey, PoolKeyOf[m.message.poolId]}
  BY <1>1 DEF MatchInv, SettledNow
<1>4. m.message.payload.transfers = call.transfers /\ m.message.payload.swaps = call.swaps
  BY <1>3
<1>5. call.transfers \in TransferLists /\ call.swaps \in SwapLists
  BY DEF SettleCall
<1>6. BooksSaved /\ old \in Seq(Settlement)
  BY <1>1, BothTypes DEF MatchInv
<1>7. /\ made \subseteq DOMAIN old /\ Traced(allTaskHashes, escrowed, old, made)
      /\ Matches(saved.claims, allTaskHashes, escrowed, old, made)
  BY <1>2, <1>6 DEF BooksSaved, Books, Traced
<1> HIDE DEF old, made
<1>8. /\ last \in DOMAIN settlements /\ settlements[last] = m
      /\ \A k \in made : k \in DOMAIN settlements /\ settlements[k] = old[k]
  BY <1>3, <1>6, <1>7
<1>9. Traced(allTaskHashes, escrowed, settlements, paid)
  BY <1>3, <1>7, <1>8 DEF Traced
<1>10. (\A k \in paid : ExactInput(settlements[k])) =>
          ExactInput(m) /\ \A k \in made : ExactInput(old[k])
  BY <1>3, <1>8
<1>11. ASSUME NEW c \in Currencies PROVE Paid(c) = PaidBy(m, c)
  <2> DEFINE f == [u \in Users |-> held[u][c] - saved.held[u][c]]
             g == [u \in Users |-> Owed(m.message.payload.transfers, u, c)]
  <2>1. \A u \in Users : f[u] = Owed(call.transfers, u, c) /\ Owed(call.transfers, u, c) \in Nat
    <3>1. LedgerInv /\ IInv /\ Return
      BY DEF BothInv, Commit
    <3>2. held' = held
      BY DEF Commit, Return, money
    <3>3. QED
      BY <3>1, <3>2, ReturnPays
  <2>2. (\A u \in Users : f[u] \in Int /\ g[u] = f[u]) /\ DOMAIN g = Users
    BY <1>4, <2>1
  <2> HIDE DEF f, g
  <2>3. SumFunctionOnSet(g, Users) = SumFunctionOnSet(f, Users)
    BY <2>2, HookAssumption, SumEqual
  <2>4. QED
    BY <2>2, <2>3 DEF Paid, PaidBy, SumFunction, f, g
<1>12. ASSUME ExactInput(m), NEW c \in Currencies
       PROVE  -Net(c) <= SwappedBy(m, c) /\ SwappedBy(m, c) >= 0
  <2> DEFINE g == GivenTo(PoolKeyOf[m.message.poolId], call.swaps, c)
  <2>1. SwappedBy(m, c) = SumFunctionOnSet(g, DOMAIN call.swaps)
    <3>1. DOMAIN g = DOMAIN call.swaps
      BY DEF GivenTo
    <3>2. QED
      BY <1>4, <3>1 DEF SwappedBy, SumFunction
  <2>2. \A j \in DOMAIN call.swaps : call.swaps[j].amountSpecified <= 0
    BY <1>4, <1>12 DEF ExactInput
  <2>3. /\ SumFunctionOnSet(g, DOMAIN call.swaps) >= 0
        /\ DOMAIN call.swaps = 1..Len(call.swaps)
    BY <1>5, <2>2, GivenType
  <2>4. CASE call.key = NoKey
    BY <2>1, <2>3, <2>4 DEF Net
  <2>5. CASE call.key # NoKey
    <3>1. SwapsMade = Len(call.swaps)
      BY <1>1 DEF SwapsMade
    <3>2. -Net(c) <= SumFunctionOnSet(GivenTo(call.key, call.swaps, c), 1..SwapsMade)
      BY <1>1, <2>2 DEF MatchInv, SwapsInv
    <3>3. call.key = PoolKeyOf[m.message.poolId]
      BY <1>3, <2>5
    <3>4. QED
      BY <2>1, <2>3, <3>1, <3>2, <3>3
  <2>6. QED
    BY <2>4, <2>5
<1>13. Matches(claims, allTaskHashes, escrowed, settlements, paid)
  <2> SUFFICES ASSUME NEW c \in Currencies
               PROVE  LET left == OrderedIn(allTaskHashes, escrowed, c) - PaidIn(settlements, paid, c)
                      IN  /\ claims[c] <= left
                          /\ (\A k \in paid : ExactInput(settlements[k])) =>
                                 claims[c] >= left - SwappedIn(settlements, paid, c)
    BY DEF Matches
  <2> DEFINE ordered == OrderedIn(allTaskHashes, escrowed, c)
             out == PaidIn(old, made, c)
             swapped == SwappedIn(old, made, c)
             paidNow == PaidBy(m, c)
             swappedNow == SwappedBy(m, c)
             net == Net(c)
             exact == \A k \in paid : ExactInput(settlements[k])
  <2>1. saved.claims[c] <= ordered - out /\ (exact => saved.claims[c] >= ordered - out - swapped)
    BY <1>7, <1>10 DEF Matches
  <2>2. /\ out \in Int /\ swapped \in Int /\ paidNow \in Int /\ swappedNow \in Int
        /\ PaidIn(settlements, paid, c) = out + paidNow
        /\ SwappedIn(settlements, paid, c) = swapped + swappedNow
    <3>1. out \in Int /\ swapped \in Int /\ paidNow \in Int /\ swappedNow \in Int
      BY <1>6, ListSums, SettlementSums
    <3>2. /\ PaidIn(Append(old, m), made \cup {Len(old) + 1}, c) = out + paidNow
          /\ SwappedIn(Append(old, m), made \cup {Len(old) + 1}, c) = swapped + swappedNow
      BY <1>6, PaidSums
    <3>3. settlements = Append(old, m) /\ paid = made \cup {Len(old) + 1}
      BY <1>3
    <3>4. QED
      BY <3>1, <3>2, <3>3
  <2>3. ordered \in Int
    BY <1>9, BothTypes, TaskSums DEF Traced
  <2>4. net \in Int /\ saved.claims[c] \in Int /\ claims[c] \in Int
    BY <1>1, EscrowTypes DEF BothInv
  <2>5. Burning(c) = 0 /\ Netted(c)
    BY <1>1 DEF Burning, Netted
  <2>6. claims[c] = saved.claims[c] - paidNow - 0 - (IF net < 0 THEN -net ELSE 0)
    BY <1>1, <1>11, <2>5 DEF BothInv, LedgerInv, EscrowInv
  <2>7. exact => -net <= swappedNow /\ swappedNow >= 0
    BY <1>10, <1>12
  <2> HIDE DEF ordered, out, swapped, paidNow, swappedNow, net, exact
  <2>8. /\ claims[c] <= ordered - (out + paidNow)
        /\ exact => claims[c] >= ordered - (out + paidNow) - (swapped + swappedNow)
    BY <2>1, <2>2, <2>3, <2>4, <2>6, <2>7
  <2>9. QED
    BY <2>2, <2>8 DEF ordered, exact
<1>14. BooksNow'
  BY <1>1, <1>9, <1>13 DEF BooksNow, Books
<1>15. QED
  BY <1>1, <1>14 DEF MatchInv, SwapsInv, RecordedNow, SettledNow

(* Every step of the two contracts keeps the books.                        *)
LEMMA PoolStepMatch == BothInv /\ MatchInv /\ [PoolNext]_poolVars => (BothInv /\ MatchInv)'
<1> SUFFICES ASSUME BothInv, MatchInv, [PoolNext]_poolVars PROVE BothInv' /\ MatchInv'
  OBVIOUS
<1>1. [Next]_vars
  BY PoolStepIsHookStep DEF BothInv, PoolInv, ManagerInv
<1>2. PoolInv' /\ IInv' /\ LedgerInv'
  BY <1>1, PoolStepInv, NextIInv, NextLedgerInv DEF BothInv
<1>3. settlements' \in Seq(Settlement)
  BY <1>2 DEF PoolInv, ManagerInv, ManagerTypeOK
<1>4. SwapsInv'
  BY <1>1, SwapsStep DEF BothInv, MatchInv
<1>5. CASE Deploy
  <2>1. pc = "idle" /\ UNCHANGED <<pc, claims, allTaskHashes, settlements, escrowed, paid>>
    BY <1>5 DEF Deploy, AfterInitialize, SetHook, registry, money, vars, managerVars, history
  <2>2. QED
    BY <1>2, <2>1, SameBooks DEF BothInv
<1>6. CASE TakeOrder
  <2>1. PICK u \in Users, p \in Pools, z \in BOOLEAN, d \in HookData,
             a \in Amounts \cup {-b : b \in Amounts} :
          LetThrough(u, p, z, a, d) \/ TakeOver(u, p, z, a, d)
    BY <1>6 DEF TakeOrder
  <2>2. CASE LetThrough(u, p, z, a, d)
    <3>1. pc = "idle" /\ UNCHANGED <<pc, claims, allTaskHashes, settlements, escrowed, paid>>
      BY <2>2 DEF LetThrough, PlainSwap, managerVars, history
    <3>2. QED
      BY <1>2, <3>1, SameBooks DEF BothInv
  <2>3. CASE TakeOver(u, p, z, a, d)
    BY <1>2, <2>3, TakeOrderMatch DEF BothInv
  <2>4. QED
    BY <2>1, <2>2, <2>3
<1>7. CASE Settle
  BY <1>2, <1>3, <1>7, SettleMatch DEF BothInv
<1>8. CASE SettleElsewhere
  BY <1>2, <1>3, <1>8, SettleElsewhereMatch DEF BothInv
<1>9. CASE AnswerAlone
  <2>1. pc = "idle" /\ UNCHANGED <<pc, claims, allTaskHashes, settlements, escrowed, paid>>
    BY <1>9 DEF AnswerAlone, RespondToTask, registry, vars, history
  <2>2. QED
    BY <1>2, <2>1, SameBooks DEF BothInv
<1>10. CASE Proceed
  BY <1>2, <1>4, <1>10, ProceedMatch DEF BothInv
<1>11. CASE Commit
  <2>1. call \in SwapCall \/ call \in SettleCall
    BY <1>11 DEF Commit, Return, BothInv, LedgerInv, KeyedByPool
  <2>2. QED
    BY <1>2, <1>11, <2>1, CommitOrderMatch, CommitSettlementMatch DEF BothInv
<1>12. CASE RevertAll
  BY <1>2, <1>12, RevertMatch DEF BothInv
<1>13. CASE UNCHANGED poolVars
  <2>1. UNCHANGED <<pc, claims, saved, call, savedManager, allTaskHashes, settlements,
                    escrowed, paid>>
    BY <1>13 DEF poolVars, vars, managerVars, history
  <2>2. pc = "idle" => BooksNow'
    BY <2>1 DEF MatchInv, BooksNow
  <2>3. pc # "idle" => BooksSaved'
    BY <2>1 DEF MatchInv, BooksSaved
  <2>4. RecordedNow' /\ SettledNow'
    BY <2>1 DEF MatchInv, RecordedNow, SettledNow
  <2>5. QED
    BY <1>2, <1>4, <2>1, <2>2, <2>3, <2>4 DEF MatchInv, BothInv
<1>14. CASE RecordElsewhere
  BY <1>2, <1>14, RecordElsewhereMatch DEF BothInv, PoolInv
<1>15. QED
  BY <1>5, <1>6, <1>7, <1>8, <1>9, <1>10, <1>11, <1>12, <1>13, <1>14 DEF PoolNext

(* Nothing is ordered and nothing is held when the contracts are deployed. *)
LEMMA PoolInitMatch == PoolInit => BothInv /\ MatchInv
<1> SUFFICES ASSUME PoolInit PROVE BothInv /\ MatchInv
  OBVIOUS
<1>1. BothInv
  BY PoolInitInv, InitIInv, InitLedgerInv DEF PoolInit, BothInv
<1>2. /\ pc = "idle" /\ claims = [c \in Currencies |-> 0] /\ settlements = <<>>
      /\ escrowed = {} /\ paid = {}
  BY DEF PoolInit, Init, ManagerInit, NoDelta
<1>3. ASSUME NEW c \in Currencies
      PROVE  OrderedIn(allTaskHashes, escrowed, c) = 0 /\ PaidIn(settlements, paid, c) = 0
                                                       /\ SwappedIn(settlements, paid, c) = 0
  <2> DEFINE f == [i \in TaskIds |-> IF i \in escrowed THEN InputOf(allTaskHashes[i], c) ELSE 0]
  <2>1. IsFiniteSet(TaskIds)
    BY ManagerAssumption, FS_Interval DEF TaskIds
  <2>2. \A i \in TaskIds : f[i] = 0
    BY <1>2
  <2> HIDE DEF f
  <2>3. SumFunctionOnSet(f, TaskIds) = 0
    BY <2>1, <2>2, SumZero
  <2>4. DOMAIN settlements = {}
    BY <1>2
  <2>5. PaidIn(settlements, paid, c) = 0 /\ SwappedIn(settlements, paid, c) = 0
    BY <2>4, SumEmpty DEF PaidIn, SwappedIn
  <2>6. QED
    BY <2>3, <2>5 DEF OrderedIn, f
<1>4. BooksNow
  BY <1>2, <1>3 DEF BooksNow, Books, Traced, Matches
<1>5. QED
  BY <1>1, <1>2, <1>4 DEF MatchInv, SwapsInv, RecordedNow, SettledNow

------------------------------------------------------------------------------
(* Ordered, PaidOut and Swapped are these sums.                            *)
LEMMA OrderedSum == \A c, ids : Ordered(c, ids) = OrderedIn(allTaskHashes, ids, c)
<1> SUFFICES ASSUME NEW c, NEW ids PROVE Ordered(c, ids) = OrderedIn(allTaskHashes, ids, c)
  OBVIOUS
<1> DEFINE f == [i \in TaskIds |-> IF i \in ids THEN InputOf(allTaskHashes[i], c) ELSE 0]
           g == [i \in TaskIds |->
                   IF i \in ids /\ TaskInput(allTaskHashes[i]) = c
                   THEN TaskAmount(allTaskHashes[i]) ELSE 0]
<1>1. f = g /\ DOMAIN g = TaskIds
  BY DEF InputOf
<1>2. Ordered(c, ids) = SumFunction(g) /\ OrderedIn(allTaskHashes, ids, c) = SumFunctionOnSet(f, TaskIds)
  BY DEF Ordered, OrderedIn
<1> HIDE DEF f, g
<1>3. QED
  BY <1>1, <1>2 DEF SumFunction

(* Whatever is ordered, settled, answered, reverted, recorded through      *)
(* other hooks, and in whatever order: between transactions the hook's     *)
(* claims are what the registry says is left of the orders it took over,   *)
(* up to what the curve may have taken.                                    *)
THEOREM PoolEscrowMatches == PoolSpec => []EscrowMatchesTasks
<1>1. MatchInv => EscrowMatchesTasks
  <2> SUFFICES ASSUME MatchInv, pc = "idle", NEW c \in Currencies
               PROVE  LET left == Ordered(c, escrowed) - PaidOut(c)
                      IN  /\ claims[c] <= left
                          /\ (\A k \in paid : ExactInput(settlements[k])) =>
                                 claims[c] >= left - Swapped(c)
    BY DEF EscrowMatchesTasks
  <2>1. Matches(claims, allTaskHashes, escrowed, settlements, paid)
    BY DEF MatchInv, BooksNow, Books
  <2>2. Ordered(c, escrowed) = OrderedIn(allTaskHashes, escrowed, c)
    BY OrderedSum
  <2>3. PaidOut(c) = PaidIn(settlements, paid, c) /\ Swapped(c) = SwappedIn(settlements, paid, c)
    BY DEF PaidOut, Swapped, PaidIn, SwappedIn, SumFunction
  <2>4. QED
    BY <2>1, <2>2, <2>3 DEF Matches
<1>2. QED
  BY <1>1, PoolInitMatch, PoolStepMatch, PTL DEF PoolSpec

(* In the two contracts together a settlement that comes through pays      *)
(* every transfer of its batch in full, whatever the manager verified.     *)
THEOREM PoolBatchIsPaid == PoolSpec => PaysTheBatch
BY PoolImplementsHook, BatchIsPaid, PTL

(* The two contracts together are a ledger that takes an order or pays a   *)
(* batch in one step, as the hook alone is.                                *)
THEOREM PoolImplementsLedger == PoolSpec => ImplementsLedger
BY PoolImplementsHook, HookImplementsLedger, PTL

------------------------------------------------------------------------------
(* What the tasks the hook took over gave up in c, one by one.             *)
Inputs(c) ==
    [i \in TaskIds |-> IF i \in escrowed THEN InputOf(allTaskHashes[i], c) ELSE 0]

LEMMA OrderedInputs ==
    ASSUME PoolInv, Traced(allTaskHashes, escrowed, settlements, paid), NEW c
    PROVE  /\ IsFiniteSet(TaskIds) /\ \A i \in TaskIds : Inputs(c)[i] \in Int
           /\ \A ids \in SUBSET escrowed : Ordered(c, ids) = SumFunctionOnSet(Inputs(c), ids)
<1>1. /\ allTaskHashes \in [TaskIds -> Task \cup {NoTask}]
      /\ escrowed \in SUBSET TaskIds /\ \A i \in escrowed : allTaskHashes[i] # NoTask
  BY DEF PoolInv, ManagerInv, ManagerTypeOK, Traced
<1>2. IsFiniteSet(TaskIds) /\ \A i \in TaskIds : Inputs(c)[i] \in Int
  BY <1>1, TaskSums DEF Inputs
<1>3. ASSUME NEW ids \in SUBSET escrowed
      PROVE  Ordered(c, ids) = SumFunctionOnSet(Inputs(c), ids)
  <2> DEFINE f == Inputs(c)
             g == [i \in TaskIds |-> IF i \in ids THEN InputOf(allTaskHashes[i], c) ELSE 0]
             rest == TaskIds \ ids
  <2>1. ids \in SUBSET TaskIds /\ rest \in SUBSET TaskIds
    BY <1>1, <1>3
  <2>2. IsFiniteSet(ids) /\ IsFiniteSet(rest)
    BY <1>2, <2>1, FS_Subset
  <2>3. (\A i \in ids : g[i] = f[i]) /\ \A i \in rest : g[i] = 0
    BY <1>3, <2>1 DEF Inputs
  <2>4. Ordered(c, ids) = SumFunctionOnSet(g, TaskIds)
    BY OrderedSum DEF OrderedIn
  <2> HIDE DEF f, g
  <2>5. /\ \A i \in ids : f[i] \in Int
        /\ \A i \in TaskIds : g[i] \in Int
    BY <1>2, <2>1, <2>3 DEF f
  <2>6. SumFunctionOnSet(g, rest) = 0
    <3> HIDE DEF rest
    <3> QED
      BY <2>2, <2>3, SumZero
  <2>7. SumFunctionOnSet(g, ids) = SumFunctionOnSet(f, ids)
    BY <2>2, <2>3, <2>5, SumEqual
  <2>8. /\ SumFunctionOnSet(g, ids) \in Int
        /\ SumFunctionOnSet(g, TaskIds) = SumFunctionOnSet(g, ids) + SumFunctionOnSet(g, rest)
    BY <1>2, <2>1, <2>5, SumSplit
  <2>9. QED
    BY <2>4, <2>6, <2>7, <2>8 DEF f
<1>4. QED
  BY <1>2, <1>3

(* Clean settlements, each of its own tasks, together spend no more than   *)
(* those tasks gave up.                                                    *)
LEMMA SettlementsSpend ==
    ASSUME PoolInv, Traced(allTaskHashes, escrowed, settlements, paid), AllClean,
           NEW c \in Currencies
    PROVE  /\ PaidIds \in SUBSET escrowed
           /\ PaidIn(settlements, paid, c) + SwappedIn(settlements, paid, c)
                  <= SumFunctionOnSet(Inputs(c), PaidIds)
<1> DEFINE D == DOMAIN settlements
           out == [k \in D |-> IF k \in paid THEN PaidBy(settlements[k], c) ELSE 0]
           swapped == [k \in D |-> IF k \in paid THEN SwappedBy(settlements[k], c) ELSE 0]
           spent == [k \in D |-> out[k] + swapped[k]]
           own(k) == IF k \in paid THEN Refs(settlements[k]) ELSE {}
           Ids(K) == UNION {own(k) : k \in K}
           Q == {K \in SUBSET D : SumFunctionOnSet(spent, K) <= SumFunctionOnSet(Inputs(c), Ids(K))}
<1>1. /\ settlements \in Seq(Settlement) /\ D = 1..Len(settlements) /\ Len(settlements) \in Nat
      /\ \A k \in D : settlements[k] \in Settlement
      /\ paid \in SUBSET D /\ escrowed \in SUBSET TaskIds
  BY DEF PoolInv, ManagerInv, ManagerTypeOK, Traced
<1>2. IsFiniteSet(D)
  BY <1>1, FS_Interval
<1>3. \A k \in D : out[k] \in Int /\ swapped[k] \in Int
  BY <1>1, SettlementSums
<1>4. IsFiniteSet(TaskIds) /\ \A i \in TaskIds : Inputs(c)[i] \in Int
  BY OrderedInputs
<1>5. \A k \in D : own(k) \in SUBSET escrowed
  BY <1>1 DEF AllClean, Clean
<1>6. \A K \in SUBSET D : Ids(K) \in SUBSET escrowed
  BY <1>5
<1>7. \A k \in D : spent[k] = out[k] + swapped[k] /\ spent[k] \in Int
  BY <1>3
<1>8. \A k \in D : spent[k] <= SumFunctionOnSet(Inputs(c), own(k))
  <2> SUFFICES ASSUME NEW k \in D PROVE spent[k] <= SumFunctionOnSet(Inputs(c), own(k))
    OBVIOUS
  <2>1. CASE k \in paid
    <3>1. Refs(settlements[k]) \in SUBSET escrowed
      BY <2>1 DEF AllClean, Clean
    <3>2. PaidBy(settlements[k], c) + SwappedBy(settlements[k], c) <= Ordered(c, Refs(settlements[k]))
      BY <2>1 DEF AllClean, Clean
    <3>3. Ordered(c, Refs(settlements[k])) = SumFunctionOnSet(Inputs(c), Refs(settlements[k]))
      BY <3>1, OrderedInputs
    <3>4. spent[k] = PaidBy(settlements[k], c) + SwappedBy(settlements[k], c)
          /\ own(k) = Refs(settlements[k])
      BY <2>1
    <3> HIDE DEF spent, own
    <3>5. QED
      BY <3>2, <3>3, <3>4
  <2>2. CASE k \notin paid
    <3>1. spent[k] = 0 /\ own(k) = {}
      BY <2>2
    <3> HIDE DEF spent, own
    <3>2. QED
      BY <3>1, SumEmpty
  <2>3. QED
    BY <2>1, <2>2
<1>9. \A j, k \in D : j # k => own(j) \cap own(k) = {}
  BY DEF AllClean
<1>10. {} \in Q
  <2>1. Ids({}) = {}
    OBVIOUS
  <2>2. SumFunctionOnSet(spent, {}) = 0 /\ SumFunctionOnSet(Inputs(c), {}) = 0
    BY SumEmpty
  <2> HIDE DEF spent
  <2>3. QED
    BY <2>1, <2>2
<1> HIDE DEF spent, out, swapped, own
<1>11. ASSUME NEW K \in SUBSET D, K \in Q, NEW x \in D \ K PROVE K \cup {x} \in Q
  <2> DEFINE old == Ids(K)
             new == own(x)
  <2>1. Ids(K \cup {x}) = old \cup new
    OBVIOUS
  <2>2. old \cap new = {}
    BY <1>9
  <2>3. old \in SUBSET TaskIds /\ new \in SUBSET TaskIds
    BY <1>1, <1>5, <1>6
  <2>4. SumFunctionOnSet(spent, K) <= SumFunctionOnSet(Inputs(c), old)
    BY <1>11
  <2>5. spent[x] <= SumFunctionOnSet(Inputs(c), new) /\ spent[x] \in Int
    BY <1>7, <1>8
  <2> HIDE DEF old, new
  <2>6. IsFiniteSet(K) /\ x \notin K
    BY <1>2, FS_Subset
  <2>7. SumFunctionOnSet(spent, K \cup {x}) = SumFunctionOnSet(spent, K) + spent[x]
    <3>1. \A y \in K \cup {x} : spent[y] \in Int
      BY <1>7
    <3>2. QED
      BY <2>6, <3>1, SumWith
  <2>8. SumFunctionOnSet(spent, K) \in Int
    <3>1. \A y \in K : spent[y] \in Int
      BY <1>7
    <3>2. QED
      BY <2>6, <3>1, SumWithout
  <2>9. /\ SumFunctionOnSet(Inputs(c), old) \in Int /\ SumFunctionOnSet(Inputs(c), new) \in Int
        /\ SumFunctionOnSet(Inputs(c), old \cup new)
               = SumFunctionOnSet(Inputs(c), old) + SumFunctionOnSet(Inputs(c), new)
    <3> DEFINE S == old \cup new
               f == Inputs(c)
    <3>1. IsFiniteSet(S)
      <4>1. S \in SUBSET TaskIds
        BY <2>3
      <4>2. QED
        BY <1>4, <4>1, FS_Subset
    <3>2. \A i \in S : f[i] \in Int
      BY <1>4, <2>3
    <3>3. old \in SUBSET S /\ S \ old = new
      BY <2>2
    <3> HIDE DEF S, f
    <3>4. /\ SumFunctionOnSet(f, old) \in Int /\ SumFunctionOnSet(f, S \ old) \in Int
          /\ SumFunctionOnSet(f, S) = SumFunctionOnSet(f, old) + SumFunctionOnSet(f, S \ old)
      BY <3>1, <3>2, <3>3, SumSplit
    <3>5. QED
      BY <3>3, <3>4 DEF S, f
  <2>10. SumFunctionOnSet(spent, K \cup {x}) <= SumFunctionOnSet(Inputs(c), old \cup new)
    <3> HIDE DEF Q, Ids
    <3>1. QED
      BY <2>4, <2>5, <2>7, <2>8, <2>9
  <2>11. QED
    BY <2>1, <2>10
<1> HIDE DEF Q
<1>12. SUBSET D \subseteq Q
  <2>1. \A K \in SUBSET D : K \in Q => \A x \in D \ K : K \cup {x} \in Q
    BY <1>11
  <2> HIDE DEF D
  <2>2. QED
    BY <1>2, <1>10, <2>1, SubsetInduction
<1>13. Ids(D) = PaidIds
  BY <1>1 DEF PaidIds, own
<1>14. SumFunctionOnSet(spent, D) <= SumFunctionOnSet(Inputs(c), PaidIds)
  <2>1. D \in Q
    BY <1>12
  <2>2. SumFunctionOnSet(spent, D) <= SumFunctionOnSet(Inputs(c), Ids(D))
    BY <2>1 DEF Q
  <2> HIDE DEF Ids
  <2>3. QED
    BY <1>13, <2>2
<1>15. PaidIds \in SUBSET escrowed
  BY <1>6, <1>13
<1>16. SumFunctionOnSet(spent, D) = SumFunctionOnSet(out, D) + SumFunctionOnSet(swapped, D)
  <2> HIDE DEF D
  <2>1. QED
    BY <1>2, <1>3, <1>7, SumPlus
<1>17. QED
  BY <1>14, <1>15, <1>16 DEF PaidIn, SwappedIn, out, swapped

(* So what is left of the claims covers the tasks nobody settled.          *)
LEMMA CleanCovers == BothInv /\ MatchInv => CoveredByCleanBatches
<1> SUFFICES ASSUME BothInv, MatchInv, AllClean, pc = "idle", NEW c \in Currencies
             PROVE  claims[c] >= Ordered(c, escrowed \ PaidIds)
  BY DEF CoveredByCleanBatches
<1> DEFINE f == Inputs(c)
           rest == escrowed \ PaidIds
           out == PaidIn(settlements, paid, c)
           swapped == SwappedIn(settlements, paid, c)
<1>1. /\ PoolInv /\ claims[c] \in Int
      /\ Traced(allTaskHashes, escrowed, settlements, paid)
      /\ Matches(claims, allTaskHashes, escrowed, settlements, paid)
  BY DEF BothInv, IInv, TypeOK, MatchInv, BooksNow, Books
<1>2. \A k \in paid : ExactInput(settlements[k])
  BY DEF AllClean, Clean
<1>3. claims[c] >= OrderedIn(allTaskHashes, escrowed, c) - out - swapped
  BY <1>1, <1>2 DEF Matches
<1>4. out \in Int /\ swapped \in Int
  BY BothTypes, ListSums
<1>5. PaidIds \in SUBSET escrowed /\ out + swapped <= SumFunctionOnSet(f, PaidIds)
  BY <1>1, SettlementsSpend
<1>6. /\ OrderedIn(allTaskHashes, escrowed, c) = SumFunctionOnSet(f, escrowed)
      /\ Ordered(c, rest) = SumFunctionOnSet(f, rest)
  <2>1. Ordered(c, escrowed) = SumFunctionOnSet(f, escrowed) /\ Ordered(c, rest) = SumFunctionOnSet(f, rest)
    BY <1>1, OrderedInputs
  <2>2. QED
    BY <2>1, OrderedSum
<1>7. IsFiniteSet(escrowed) /\ \A i \in escrowed : f[i] \in Int
  <2>1. IsFiniteSet(TaskIds) /\ \A i \in TaskIds : f[i] \in Int
    BY <1>1, OrderedInputs
  <2>2. escrowed \in SUBSET TaskIds
    BY <1>1 DEF Traced
  <2> HIDE DEF f
  <2>3. QED
    BY <2>1, <2>2, FS_Subset
<1> HIDE DEF f, out, swapped
<1>8. /\ SumFunctionOnSet(f, PaidIds) \in Int /\ SumFunctionOnSet(f, rest) \in Int
      /\ SumFunctionOnSet(f, escrowed) = SumFunctionOnSet(f, PaidIds) + SumFunctionOnSet(f, rest)
  BY <1>5, <1>7, SumSplit
<1> HIDE DEF rest
<1>9. claims[c] >= Ordered(c, rest)
  BY <1>1, <1>3, <1>4, <1>5, <1>6, <1>8
<1>10. QED
  BY <1>9 DEF rest

(* For any operators, pools, lists and hooks: as long as every settlement  *)
(* the hook made is clean, each order it took over and has not settled is  *)
(* covered by claims.                                                      *)
THEOREM PoolCleanCovered == PoolSpec => []CoveredByCleanBatches
BY PoolInitMatch, PoolStepMatch, CleanCovers, PTL DEF PoolSpec

------------------------------------------------------------------------------
(* The two contracts as the atomic pool.                                   *)

(* A transaction is in progress only while the manager points at the hook, *)
(* and an order in progress has put one new task on record: of the input   *)
(* that is in escrow, and as much of it.                                   *)
OrderNow ==
    /\ pc # "idle" => hook = Hook
    /\ pc # "idle" /\ call \in SwapCall =>
          \E i \in TaskIds, task \in Task :
              /\ savedManager.allTaskHashes[i] = NoTask
              /\ allTaskHashes = [savedManager.allTaskHashes EXCEPT ![i] = task]
              /\ TaskInput(task) = call.currency /\ TaskAmount(task) = call.returned

AtomicInv == BothInv /\ MatchInv /\ OrderNow

LEMMA OrderNowStep == BothInv /\ OrderNow /\ IInv' /\ [PoolNext]_poolVars => OrderNow'
<1> SUFFICES ASSUME BothInv, OrderNow, IInv', [PoolNext]_poolVars PROVE OrderNow'
  OBVIOUS
<1>1. ASSUME pc' = "idle" PROVE OrderNow'
  BY <1>1 DEF OrderNow
<1>2. ASSUME UNCHANGED <<pc, call, allTaskHashes, savedManager, hook>> PROVE OrderNow'
  BY <1>2 DEF OrderNow
<1>3. CASE TakeOrder
  <2>1. PICK u \in Users, p \in Pools, z \in BOOLEAN, d \in HookData,
             a \in Amounts \cup {-b : b \in Amounts} :
          LetThrough(u, p, z, a, d) \/ TakeOver(u, p, z, a, d)
    BY <1>3 DEF TakeOrder
  <2>2. CASE LetThrough(u, p, z, a, d)
    BY <1>1, <2>2 DEF LetThrough, PlainSwap
  <2>3. CASE TakeOver(u, p, z, a, d)
    <3> DEFINE task == NewTask(z, a, d.sender, p)
    <3>1. /\ latestTaskNum \in TaskIds /\ task \in Task /\ allTaskHashes[latestTaskNum] = NoTask
          /\ allTaskHashes' = [allTaskHashes EXCEPT ![latestTaskNum] = task]
      BY <2>3, TakenTask
    <3>2. TaskInput(task) = call'.currency /\ TaskAmount(task) = call'.returned
      BY <2>3, TakenTask
    <3>3. savedManager'.allTaskHashes = allTaskHashes /\ hook' = Hook
      BY <2>3 DEF TakeOver, CreateNewTask, Manager
    <3> HIDE DEF task
    <3>4. QED
      BY <3>1, <3>2, <3>3 DEF OrderNow
  <2>4. QED
    BY <2>1, <2>2, <2>3
<1>4. CASE Settle
  <2>1. pc' = "burn" /\ hook' = Hook
    BY <1>4 DEF Settle, SettleBalances, Unlock, RespondSigned, RespondToBatch
  <2>2. call' \in SettleCall
    BY <2>1 DEF IInv, TypeOK, Settling
  <2>3. QED
    BY <2>1, <2>2, CallsDiffer DEF OrderNow
<1>5. CASE Deploy \/ RecordElsewhere \/ SettleElsewhere \/ AnswerAlone
  BY <1>1, <1>5 DEF Deploy, RecordElsewhere, SettleElsewhere, AnswerAlone, AfterInitialize, vars
<1>6. CASE Proceed
  <2>1. pc # "idle" /\ UNCHANGED <<call, managerVars, savedManager>>
    BY <1>6 DEF Proceed, ChargeSwapper, UnlockCallback, BurnTransfer, TakeTransfer,
       EndTransfers, SwapOne, EndSwaps, Net0, Net1
  <2>2. QED
    BY <2>1 DEF OrderNow, managerVars
<1>7. CASE Commit \/ RevertAll
  BY <1>1, <1>7 DEF Commit, RevertAll, Return, Revert, Relock
<1>8. CASE UNCHANGED poolVars
  BY <1>2, <1>8 DEF poolVars, vars, managerVars
<1>9. QED
  BY <1>3, <1>4, <1>5, <1>6, <1>7, <1>8 DEF PoolNext

(* The atomic pool sums as the theorems do.                                *)
LEMMA AtomicSum == \A f : Atomic!SumFunction(f) = SumFunctionOnSet(f, DOMAIN f)
BY DEF Atomic!SumFunction, Atomic!SumFunctionOnSet, Atomic!FoldFunctionOnSet,
       Atomic!MapThenFoldSet, SumFunctionOnSet, FoldFunctionOnSet, MapThenFoldSet

(* Its settlement of money is the ledger's.                                *)
LEMMA AtomicSettle == Ledger!Settle => Atomic!Settle
<1>1. \A f : Atomic!SumFunction(f) = Ledger!SumFunction(f)
  BY AtomicSum, LedgerSum
<1>2. QED
  BY <1>1 DEF Ledger!Settle, Atomic!Settle, Ledger!Surplus, Atomic!Surplus

(* An order that commits is escrow and a task in one step.                 *)
LEMMA CommitRecordsOrder ==
    ASSUME AtomicInv, Commit, call \in SwapCall
    PROVE  \E i \in TaskIds : Atomic!RecordOrder(i)
<1>1. /\ Return /\ pc = "return" /\ pc' = "idle"
      /\ UNCHANGED <<claims, allTaskHashes, settlements, hook>>
  BY DEF Commit, Return, Relock, money, managerVars
<1>2. Atomic!Deposit
  BY <1>1, ReturnDeposits DEF AtomicInv, BothInv, Ledger!Deposit, Atomic!Deposit
<1>3. PICK i \in TaskIds, task \in Task :
        /\ savedManager.allTaskHashes[i] = NoTask
        /\ allTaskHashes = [savedManager.allTaskHashes EXCEPT ![i] = task]
        /\ TaskInput(task) = call.currency /\ TaskAmount(task) = call.returned
  BY <1>1 DEF AtomicInv, OrderNow
<1>4. /\ claims = [saved.claims EXCEPT ![call.currency] = @ + call.returned]
      /\ settlements = savedManager.settlements
  BY <1>1 DEF AtomicInv, BothInv, LedgerInv, DepositInv, MatchInv, RecordedNow
<1>5. savedManager.allTaskHashes \in [TaskIds -> Task \cup {NoTask}]
  BY <1>1, BothTypes DEF AtomicInv
<1>6. allTaskHashes[i] = task /\ task # NoTask
  BY <1>3, <1>5, ManagerAssumption
<1>7. /\ allTaskHashes = [savedManager.allTaskHashes EXCEPT ![i] = allTaskHashes[i]]
      /\ claims = [saved.claims EXCEPT ![TaskInput(allTaskHashes[i])] = @ + TaskAmount(allTaskHashes[i])]
  BY <1>3, <1>4, <1>6
<1>8. /\ Committed(claims, saved.claims) = saved.claims
      /\ Committed(claims, saved.claims)' = claims
      /\ Committed(allTaskHashes, savedManager.allTaskHashes) = savedManager.allTaskHashes
      /\ Committed(allTaskHashes, savedManager.allTaskHashes)' = allTaskHashes
      /\ Committed(settlements, savedManager.settlements) = settlements
      /\ Committed(settlements, savedManager.settlements)' = settlements
  BY <1>1, <1>4 DEF Committed
<1>9. hook = Hook
  BY <1>1 DEF AtomicInv, OrderNow
<1>10. Atomic!Record(i)
  BY <1>1, <1>3, <1>6, <1>7, <1>8 DEF Atomic!Record
<1>11. Atomic!RecordOrder(i)
  BY <1>2, <1>7, <1>8, <1>9, <1>10 DEF Atomic!RecordOrder
<1>12. QED
  BY <1>11

(* What the manager's invariant says of tasks and settlements on record,   *)
(* and what Settles asks of the next one.                                  *)
OnRecord(tasks, next, list) ==
    /\ \A i \in TaskIds : i < next => tasks[i] # NoTask
    /\ \A k \in DOMAIN list :
          /\ \A i \in Refs(list[k]) : i < next
          /\ list[k].message.poolId = tasks[list[k].refs[1]].order.poolId
    /\ \A j, k \in DOMAIN list :
          j # k /\ list[j].operator = list[k].operator => Refs(list[j]) \cap Refs(list[k]) = {}
MayFollow(tasks, list, m) ==
    /\ m.message.poolId = tasks[m.refs[1]].order.poolId
    /\ \A i \in TaskIds : Atomic!Covers(m, i) =>
          /\ tasks[i] # NoTask
          /\ \A k \in DOMAIN list : list[k].operator = m.operator => ~Atomic!Covers(list[k], i)

LEMMA ManagerOnRecord == ManagerInv => OnRecord(allTaskHashes, latestTaskNum, settlements)
BY DEF ManagerInv, RecordsInOrder, SettlesRecordedTasks, OncePerOperator, OnRecord

(* The last settlement on record was one that may follow the others.       *)
LEMMA LastOnRecord ==
    ASSUME NEW old \in Seq(Settlement), NEW m \in Settlement, NEW list, list = Append(old, m),
           NEW tasks, NEW next, OnRecord(tasks, next, list)
    PROVE  /\ Len(list) \in DOMAIN list /\ list[Len(list)] = m
           /\ MayFollow(tasks, old, m)
<1> DEFINE l == Len(list)
<1>1. /\ l = Len(old) + 1 /\ list[l] = m /\ l \in DOMAIN list
      /\ \A k \in DOMAIN old : k \in DOMAIN list /\ k # l /\ list[k] = old[k]
  OBVIOUS
<1> HIDE DEF l
<1>2. m.message.poolId = tasks[m.refs[1]].order.poolId /\ \A i \in Refs(m) : i < next
  BY <1>1 DEF OnRecord
<1>3. \A s, i : Atomic!Covers(s, i) <=> i \in Refs(s)
  BY DEF Atomic!Covers, Refs
<1>4. ASSUME NEW i \in TaskIds, Atomic!Covers(m, i)
      PROVE  /\ tasks[i] # NoTask
             /\ \A k \in DOMAIN old : old[k].operator = m.operator => ~Atomic!Covers(old[k], i)
  <2>1. i \in Refs(m)
    BY <1>3, <1>4
  <2>2. tasks[i] # NoTask
    BY <1>2, <2>1 DEF OnRecord
  <2>3. ASSUME NEW k \in DOMAIN old, old[k].operator = m.operator PROVE i \notin Refs(old[k])
    <3>1. Refs(list[k]) \cap Refs(list[l]) = {}
      BY <1>1, <2>3 DEF OnRecord
    <3>2. QED
      BY <1>1, <2>1, <3>1
  <2>4. QED
    BY <1>3, <2>2, <2>3
<1>5. QED
  BY <1>1, <1>2, <1>4 DEF MayFollow, l

(* A settlement that commits is payment and record in one step.            *)
LEMMA CommitRecordsSettlement ==
    ASSUME AtomicInv, Commit, call \in SettleCall
    PROVE  Atomic!PoolNext
<1>1. /\ Return /\ pc = "return" /\ pc' = "idle"
      /\ UNCHANGED <<amm, held, allTaskHashes, settlements, hook>>
  BY DEF Commit, Return, Relock, money, managerVars
<1>2. allTaskHashes = savedManager.allTaskHashes
  BY <1>1 DEF AtomicInv, MatchInv, SettledNow
<1>3. PICK m \in Settlement :
        /\ settlements = Append(savedManager.settlements, m)
        /\ m.message.payload = [transfers |-> call.transfers, swaps |-> call.swaps]
        /\ call.key \in {NoKey, PoolKeyOf[m.message.poolId]}
  BY <1>1 DEF AtomicInv, MatchInv, SettledNow
<1> DEFINE old == savedManager.settlements
           l == Len(settlements)
           key == PoolKeyOf[m.message.poolId]
<1>4. old \in Seq(Settlement) /\ OnRecord(allTaskHashes, latestTaskNum, settlements)
  BY <1>1, BothTypes, ManagerOnRecord DEF AtomicInv, BothInv, PoolInv
<1> HIDE DEF old
<1>5. settlements = Append(old, m)
  BY <1>3 DEF old
<1>6. l \in DOMAIN settlements /\ settlements[l] = m /\ MayFollow(allTaskHashes, old, m)
  BY <1>4, <1>5, LastOnRecord
<1>7. Atomic!Settle
  BY <1>1, ReturnSettles, AtomicSettle DEF AtomicInv, BothInv
<1>8. \A u \in Users, c \in Currencies :
         held[u][c] - saved.held[u][c] = Owed(m.message.payload.transfers, u, c)
  BY <1>1, <1>3, ReturnPays DEF AtomicInv, BothInv
<1>9. \A c \in Currencies \ {key.currency0, key.currency1} : amm[c] = saved.amm[c]
  <2> SUFFICES ASSUME NEW c \in Currencies \ {key.currency0, key.currency1} PROVE amm[c] = saved.amm[c]
    OBVIOUS
  <2>1. Net(c) = 0
    BY <1>3 DEF Net
  <2>2. amm[c] = saved.amm[c] - 0
    BY <1>1, <2>1 DEF AtomicInv, BothInv, LedgerInv, EscrowInv
  <2>3. saved.amm[c] \in Int
    BY <1>1, EscrowTypes DEF AtomicInv, BothInv
  <2>4. QED
    BY <2>2, <2>3
<1>10. /\ Committed(amm, saved.amm) = saved.amm /\ Committed(amm, saved.amm)' = amm
       /\ Committed(held, saved.held) = saved.held /\ Committed(held, saved.held)' = held
       /\ Committed(allTaskHashes, savedManager.allTaskHashes) = allTaskHashes
       /\ Committed(allTaskHashes, savedManager.allTaskHashes)' = allTaskHashes
       /\ Committed(settlements, savedManager.settlements) = old
       /\ Committed(settlements, savedManager.settlements)' = settlements
  BY <1>1, <1>2 DEF Committed, old
<1>11. Atomic!Settles(m)
  BY <1>1, <1>5, <1>6, <1>10 DEF Atomic!Settles, MayFollow
<1>12. hook = Hook
  BY <1>1 DEF AtomicInv, OrderNow
<1>13. Atomic!RecordSettlement(m)
  BY <1>7, <1>8, <1>9, <1>10, <1>11, <1>12 DEF Atomic!RecordSettlement
<1>14. QED
  BY <1>6, <1>10, <1>13 DEF Atomic!PoolNext

(* Between transactions the atomic pool's variables are the contracts'.    *)
LEMMA CommittedIdle ==
    ASSUME pc = "idle", pc' = "idle"
    PROVE  /\ Committed(claims, saved.claims) = claims /\ Committed(claims, saved.claims)' = claims'
           /\ Committed(amm, saved.amm) = amm /\ Committed(amm, saved.amm)' = amm'
           /\ Committed(held, saved.held) = held /\ Committed(held, saved.held)' = held'
           /\ Committed(allTaskHashes, savedManager.allTaskHashes) = allTaskHashes
           /\ Committed(allTaskHashes, savedManager.allTaskHashes)' = allTaskHashes'
           /\ Committed(settlements, savedManager.settlements) = settlements
           /\ Committed(settlements, savedManager.settlements)' = settlements'
BY DEF Committed

(* A task or a settlement recorded while the manager points elsewhere is a *)
(* record with which no money moves.                                       *)
LEMMA RecordElsewhereIsDetached ==
    ASSUME AtomicInv, RecordElsewhere
    PROVE  Atomic!PoolNext
<1>1. PICK caller \in Addresses \ {Hook}, order \in Orders : CreateNewTask(caller, order)
  BY DEF RecordElsewhere
<1> DEFINE k == latestTaskNum
           new == [order |-> order, taskId |-> k]
<1>2. /\ pc = "idle" /\ pc' = "idle" /\ UNCHANGED <<claims, amm, held>>
      /\ hook # Hook /\ hook' = hook /\ settlements' = settlements
      /\ allTaskHashes' = [allTaskHashes EXCEPT ![k] = new]
  BY <1>1 DEF RecordElsewhere, CreateNewTask, vars
<1>3. /\ allTaskHashes \in [TaskIds -> Task \cup {NoTask}]
      /\ k \in TaskIds /\ allTaskHashes[k] = NoTask
  <2>1. k \in TaskIds /\ RecordsInOrder
    BY DEF AtomicInv, BothInv, PoolInv, ManagerInv, ManagerTypeOK
  <2>2. ~ (k < k)
    BY <2>1 DEF TaskIds
  <2>3. QED
    BY <2>1, <2>2, BothTypes DEF RecordsInOrder, AtomicInv
<1>4. new # NoTask
  BY <1>3, ManagerAssumption DEF Task
<1> HIDE DEF k, new
<1>5. allTaskHashes'[k] = new
  BY <1>2, <1>3
<1>6. Atomic!Record(k)
  BY <1>2, <1>3, <1>4, <1>5, CommittedIdle DEF Atomic!Record
<1>7. UNCHANGED Atomic!ledgerVars
  BY <1>2, CommittedIdle DEF Atomic!ledgerVars
<1>8. Atomic!RecordDetached
  BY <1>2, <1>3, <1>6, <1>7 DEF Atomic!RecordDetached
<1>9. QED
  BY <1>8 DEF Atomic!PoolNext

LEMMA SettleElsewhereIsDetached ==
    ASSUME AtomicInv, ManagerInv', SettleElsewhere
    PROVE  Atomic!PoolNext
<1>1. PICK op, refs, payload, tasks : RespondSigned(op, refs, tasks, payload)
  BY DEF SettleElsewhere
<1> DEFINE m == Sent(op, refs, tasks, payload)
           l == Len(settlements')
<1>2. /\ settlements' = Append(settlements, m) /\ allTaskHashes' = allTaskHashes
      /\ UNCHANGED hook /\ m \in Settlement /\ settlements \in Seq(Settlement)
  <2>1. BothInv /\ settlements' \in Seq(Settlement)
    BY DEF AtomicInv, ManagerInv, ManagerTypeOK
  <2>2. QED
    BY <1>1, <2>1, RecordedBatch
<1>3. pc = "idle" /\ pc' = "idle" /\ hook # Hook /\ UNCHANGED <<claims, amm, held>>
  BY DEF SettleElsewhere, vars
<1> HIDE DEF m
<1>4. OnRecord(allTaskHashes', latestTaskNum', settlements')
  BY DEF ManagerInv, RecordsInOrder, SettlesRecordedTasks, OncePerOperator, OnRecord
<1>5. l \in DOMAIN settlements' /\ settlements'[l] = m /\ MayFollow(allTaskHashes, settlements, m)
  BY <1>2, <1>4, LastOnRecord
<1>6. Atomic!Settles(m)
  BY <1>2, <1>3, <1>5, CommittedIdle DEF Atomic!Settles, MayFollow
<1>7. UNCHANGED Atomic!ledgerVars
  BY <1>3, CommittedIdle DEF Atomic!ledgerVars
<1>8. Atomic!RecordDetached
  BY <1>3, <1>5, <1>6, <1>7, CommittedIdle DEF Atomic!RecordDetached
<1>9. QED
  BY <1>8 DEF Atomic!PoolNext

(* Every step of the two contracts is a transaction of the atomic pool or  *)
(* none.                                                                   *)
LEMMA PoolStepIsAtomic ==
    AtomicInv /\ ManagerInv' /\ [PoolNext]_poolVars => [Atomic!PoolNext]_(Atomic!poolVars)
<1> SUFFICES ASSUME AtomicInv, ManagerInv', [PoolNext]_poolVars
             PROVE  Atomic!PoolNext \/ UNCHANGED Atomic!poolVars
  BY DEF Atomic!poolVars
<1>1. ASSUME pc = "idle", pc' = "idle",
             UNCHANGED <<claims, amm, held, allTaskHashes, settlements, hook>>
      PROVE  UNCHANGED Atomic!poolVars
  BY <1>1 DEF Committed, Atomic!poolVars, Atomic!ledgerVars
<1>2. ASSUME pc = "idle", pc' # "idle", savedManager' = Manager, UNCHANGED hook,
             saved'.claims = claims, saved'.amm = amm, saved'.held = held
      PROVE  UNCHANGED Atomic!poolVars
  <2>1. savedManager'.allTaskHashes = allTaskHashes /\ savedManager'.settlements = settlements
    BY <1>2 DEF Manager
  <2>2. QED
    BY <1>2, <2>1 DEF Committed, Atomic!poolVars, Atomic!ledgerVars
<1>3. CASE Deploy \/ AnswerAlone
  <2>1. pc = "idle" /\ pc' = "idle" /\ UNCHANGED <<claims, amm, held, allTaskHashes, settlements>>
    BY <1>3 DEF Deploy, AfterInitialize, SetHook, AnswerAlone, RespondToTask, registry, money, vars,
                managerVars
  <2>2. CASE (hook' = Hook) = (hook = Hook)
    BY <2>1, <2>2, CommittedIdle DEF Atomic!poolVars, Atomic!ledgerVars
  <2>3. CASE (hook' = Hook) # (hook = Hook)
    BY <2>1, <2>3, CommittedIdle DEF Atomic!PoolNext, Atomic!Attach, Atomic!ledgerVars
  <2>4. QED
    BY <2>2, <2>3
<1>4. CASE TakeOrder
  <2>1. PICK u \in Users, p \in Pools, z \in BOOLEAN, d \in HookData,
             a \in Amounts \cup {-b : b \in Amounts} :
          LetThrough(u, p, z, a, d) \/ TakeOver(u, p, z, a, d)
    BY <1>4 DEF TakeOrder
  <2>2. CASE LetThrough(u, p, z, a, d)
    <3>1. a \in Int
      <4>1. \A b \in Amounts : b \in Int /\ -b \in Int
        BY AmountsArePositive
      <4>2. QED
        BY <4>1
    <3>2. Atomic!Trade
      BY <2>2, <3>1, PlainSwapTrades DEF LetThrough, AtomicInv, BothInv, Ledger!Trade, Atomic!Trade
    <3>3. pc = "idle" /\ pc' = "idle"
      BY <2>2 DEF LetThrough, PlainSwap
    <3>4. UNCHANGED <<Committed(allTaskHashes, savedManager.allTaskHashes),
                      Committed(settlements, savedManager.settlements), hook = Hook>>
      BY <2>2, <3>3 DEF LetThrough, Committed, managerVars
    <3>5. QED
      BY <3>2, <3>4 DEF Atomic!PoolNext
  <2>3. CASE TakeOver(u, p, z, a, d)
    <3>1. /\ pc = "idle" /\ pc' # "idle" /\ savedManager' = Manager /\ UNCHANGED hook
          /\ saved'.claims = claims /\ saved'.amm = amm /\ saved'.held = held
      BY <2>3 DEF TakeOver, CreateNewTask, BeforeSwap, Unlock
    <3>2. QED
      BY <1>2, <3>1
  <2>4. QED
    BY <2>1, <2>2, <2>3
<1>5. CASE Settle
  <2>1. /\ pc = "idle" /\ pc' # "idle" /\ savedManager' = Manager /\ UNCHANGED hook
        /\ saved'.claims = claims /\ saved'.amm = amm /\ saved'.held = held
    BY <1>5 DEF Settle, SettleBalances, Unlock, RespondSigned, RespondToBatch
  <2>2. QED
    BY <1>2, <2>1
<1>6. CASE SettleElsewhere \/ RecordElsewhere
  BY <1>6, SettleElsewhereIsDetached, RecordElsewhereIsDetached
<1>7. CASE Proceed \/ (UNCHANGED poolVars /\ pc # "idle")
  <2>1. pc # "idle" /\ pc' # "idle" /\ UNCHANGED <<saved, savedManager, hook>>
    BY <1>7 DEF Proceed, ChargeSwapper, UnlockCallback, BurnTransfer, TakeTransfer,
       EndTransfers, SwapOne, EndSwaps, Net0, Net1, poolVars, vars, managerVars
  <2>2. QED
    BY <2>1 DEF Committed, Atomic!poolVars, Atomic!ledgerVars
<1>8. CASE Commit
  <2>1. call \in SwapCall \/ call \in SettleCall
    BY <1>8 DEF Commit, Return, AtomicInv, BothInv, LedgerInv, KeyedByPool
  <2>2. QED
    BY <1>8, <2>1, CommitRecordsOrder, CommitRecordsSettlement DEF Atomic!PoolNext
<1>9. CASE RevertAll
  BY <1>9 DEF RevertAll, Revert, Relock, Committed, Atomic!poolVars, Atomic!ledgerVars
<1>10. CASE UNCHANGED poolVars /\ pc = "idle"
  BY <1>1, <1>10 DEF poolVars, vars, managerVars
<1>11. QED
  BY <1>3, <1>4, <1>5, <1>6, <1>7, <1>8, <1>9, <1>10 DEF PoolNext

(* Call by call, with two contracts and a failure possible at every call   *)
(* of either, the system does what the atomic pool does in one step.       *)
THEOREM PoolImplementsAtomicPool == PoolSpec => ImplementsAtomicPool
<1>1. PoolInit => AtomicInv
  <2>1. PoolInit => pc = "idle"
    BY DEF PoolInit, Init
  <2>2. QED
    BY <2>1, PoolInitMatch DEF AtomicInv, OrderNow
<1>2. AtomicInv /\ [PoolNext]_poolVars => AtomicInv' /\ ManagerInv'
  BY PoolStepMatch, OrderNowStep DEF AtomicInv, BothInv, PoolInv
<1>3. PoolInit => Atomic!PoolInit
  <2>1. Hook # NoAddress
    BY PoolAssumption, ManagerAssumption
  <2>2. QED
    BY <2>1 DEF PoolInit, Init, ManagerInit, NoDelta, Committed, Atomic!PoolInit, Atomic!LedgerInit
<1>4. AtomicInv /\ [PoolNext]_poolVars => [Atomic!PoolNext]_(Atomic!poolVars)
  BY <1>2, PoolStepIsAtomic
<1>5. QED
  BY <1>1, <1>2, <1>3, <1>4, PTL DEF PoolSpec, ImplementsAtomicPool, Atomic!PoolSpec
==============================================================================
