---------------------- MODULE OrderServiceManagerProofs ----------------------
(***************************************************************************)
(* Theorems about OrderServiceManager, for any number of operators, tasks, *)
(* orders and any batches.  The invariant is the conjunction of the        *)
(* properties themselves: that a task settled by an operator carries that  *)
(* operator's answer (SettledIsSigned) is what makes the check for an      *)
(* empty answer keep the operator's batches disjoint (OncePerOperator).    *)
(***************************************************************************)
EXTENDS OrderServiceManager, TLAPS

(* An empty batch never reaches the hook.                                  *)
NoEmptyBatch == \A k \in DOMAIN settlements : settlements[k].refs # <<>>

ManagerInv ==
    /\ ManagerTypeOK
    /\ NoEmptyBatch
    /\ RecordsInOrder
    /\ SettledIsSigned
    /\ SettlesRecordedTasks
    /\ OncePerOperator

(* The freshly deployed contract satisfies the invariant.                  *)
LEMMA ManagerInitInv == ManagerInit => ManagerInv
  <1> SUFFICES ASSUME ManagerInit PROVE ManagerInv
    OBVIOUS
  <1> USE ManagerAssumption DEF ManagerInit, TaskIds
  <1>1. ManagerTypeOK
    BY DEF ManagerTypeOK
  <1>2. RecordsInOrder
    BY DEF RecordsInOrder
  <1>3. SettledIsSigned /\ SettlesRecordedTasks /\ OncePerOperator /\ NoEmptyBatch
    BY DEF NoEmptyBatch, SettledIsSigned, SettlesRecordedTasks, OncePerOperator
  <1> QED
    BY <1>1, <1>2, <1>3 DEF ManagerInv

(* The tasks a settlement refers to are task ids.                          *)
LEMMA RefsType ==
    ASSUME ManagerTypeOK, NEW k \in DOMAIN settlements
    PROVE  /\ settlements[k] \in Settlement
           /\ Refs(settlements[k]) \subseteq TaskIds
           /\ settlements[k].refs # <<>> => settlements[k].refs[1] \in Refs(settlements[k])
  <1>1. settlements[k] \in Settlement
    BY DEF ManagerTypeOK
  <1> QED
    BY <1>1 DEF Settlement, Refs

(* A task an operator settled carries a non-empty answer of that operator. *)
LEMMA SettledAnswered ==
    ASSUME ManagerInv, NEW k \in DOMAIN settlements, NEW i \in Refs(settlements[k])
    PROVE  allTaskResponses[settlements[k].operator][i] # Empty
  <1> DEFINE answer == [signer |-> settlements[k].operator, message |-> settlements[k].message]
  <1>1. settlements[k].operator \in Operators /\ settlements[k].message \in Message
    BY RefsType DEF ManagerInv, Settlement
  <1>2. answer \in Signature
    BY <1>1 DEF Signature
  <1>3. answer # Empty
    BY <1>2, ManagerAssumption
  <1>4. allTaskResponses[settlements[k].operator][i] = answer
    BY DEF ManagerInv, SettledIsSigned
  <1> QED
    BY <1>3, <1>4

(* A new task is recorded under the first free id.                         *)
LEMMA CreateNewTaskInv ==
    ASSUME ManagerInv, NEW caller \in Addresses, NEW order \in Orders,
           CreateNewTask(caller, order)
    PROVE  ManagerInv'
  <1> DEFINE task == [order |-> order, taskId |-> latestTaskNum]
  <1>1. /\ latestTaskNum \in Nat /\ latestTaskNum < MaxUint32 /\ MaxUint32 \in Nat
        /\ latestTaskNum' = latestTaskNum + 1
        /\ allTaskHashes' = [allTaskHashes EXCEPT ![latestTaskNum] = task]
        /\ latestTaskNum \in TaskIds /\ latestTaskNum' \in TaskIds
        /\ UNCHANGED <<allTaskResponses, hook, settlements>>
    BY ManagerAssumption DEF CreateNewTask, Increment, ManagerInv, ManagerTypeOK, TaskIds
  <1>2. task \in Task /\ task # NoTask
    BY <1>1, ManagerAssumption DEF Task
  <1>3. ManagerTypeOK'
    BY <1>1, <1>2 DEF ManagerInv, ManagerTypeOK
  <1>4. RecordsInOrder'
    BY <1>1, <1>2 DEF ManagerInv, ManagerTypeOK, RecordsInOrder, TaskIds
  <1>5. SettledIsSigned' /\ NoEmptyBatch'
    BY <1>1 DEF ManagerInv, SettledIsSigned, NoEmptyBatch
  <1>7. OncePerOperator'
    BY <1>1 DEF ManagerInv, OncePerOperator
  <1>6. SettlesRecordedTasks'
    <2> SUFFICES ASSUME NEW k \in DOMAIN settlements
                 PROVE  /\ \A i \in Refs(settlements[k]) : i < latestTaskNum'
                        /\ settlements[k].message.poolId =
                              allTaskHashes'[settlements[k].refs[1]].order.poolId
      BY <1>1 DEF SettlesRecordedTasks, Refs
    <2>1. \A i \in Refs(settlements[k]) : i \in TaskIds /\ i \in Nat /\ i < latestTaskNum
      BY RefsType, ManagerAssumption DEF ManagerInv, SettlesRecordedTasks, TaskIds
    <2>2. settlements[k].refs[1] \in Refs(settlements[k])
      BY RefsType DEF ManagerInv, NoEmptyBatch
    <2>3. allTaskHashes'[settlements[k].refs[1]] = allTaskHashes[settlements[k].refs[1]]
      BY <1>1, <2>1, <2>2 DEF ManagerInv, ManagerTypeOK
    <2> QED
      BY <1>1, <2>1, <2>3 DEF ManagerInv, SettlesRecordedTasks
  <1> QED
    BY <1>3, <1>4, <1>5, <1>6, <1>7 DEF ManagerInv

(* A single answer is stored where there was none.                         *)
LEMMA RespondToTaskInv ==
    ASSUME ManagerInv, NEW op \in Operators, NEW ref \in TaskIds, NEW task \in Recorded,
           NEW answer \in Signature \cup {Empty},
           RespondToTask(op, task, ref, answer)
    PROVE  ManagerInv'
  <1>1. /\ allTaskResponses[op][ref] = Empty
        /\ allTaskResponses' = [allTaskResponses EXCEPT ![op][ref] = answer]
        /\ UNCHANGED <<latestTaskNum, allTaskHashes, hook, settlements>>
    BY DEF RespondToTask, registry
  <1>2. ManagerTypeOK'
    BY <1>1 DEF ManagerInv, ManagerTypeOK
  <1>3. RecordsInOrder' /\ NoEmptyBatch' /\ SettlesRecordedTasks' /\ OncePerOperator'
    BY <1>1 DEF ManagerInv, RecordsInOrder, NoEmptyBatch, SettlesRecordedTasks, OncePerOperator
  <1>4. SettledIsSigned'
    <2> SUFFICES ASSUME NEW k \in DOMAIN settlements, NEW i \in Refs(settlements[k])
                 PROVE  allTaskResponses'[settlements[k].operator][i] =
                          allTaskResponses[settlements[k].operator][i]
      BY <1>1 DEF ManagerInv, SettledIsSigned
    <2>1. settlements[k].operator \in Operators /\ settlements[k].message \in Message
          /\ i \in TaskIds
      BY RefsType DEF ManagerInv, Settlement
    <2>2. allTaskResponses[settlements[k].operator][i] # Empty
      BY SettledAnswered
    <2> QED
      BY <1>1, <2>1, <2>2 DEF ManagerInv, ManagerTypeOK
  <1> QED
    BY <1>2, <1>3, <1>4 DEF ManagerInv

(* Moving the hook changes nothing else.                                   *)
LEMMA SetHookInv ==
    ASSUME ManagerInv, NEW address \in Addresses, SetHook(address)
    PROVE  ManagerInv'
  <1>1. hook' = address /\ UNCHANGED <<latestTaskNum, allTaskHashes, allTaskResponses, settlements>>
    BY DEF SetHook, registry
  <1>2. ManagerTypeOK'
    BY <1>1 DEF ManagerInv, ManagerTypeOK
  <1>3. RecordsInOrder' /\ NoEmptyBatch' /\ SettlesRecordedTasks' /\ OncePerOperator'
        /\ SettledIsSigned'
    BY <1>1 DEF ManagerInv, RecordsInOrder, NoEmptyBatch, SettlesRecordedTasks,
               OncePerOperator, SettledIsSigned
  <1> QED
    BY <1>2, <1>3 DEF ManagerInv

(* A batch: its tasks had no answer of the operator, so none of them is in *)
(* an earlier settlement of its; its answers are the batch's signature.    *)
LEMMA RespondToBatchInv ==
    ASSUME ManagerInv, NEW op \in Operators, NEW signature \in Signature,
           NEW refs \in RefLists, NEW payload \in Payloads,
           NEW tasks \in [DOMAIN refs -> Recorded],
           RespondToBatch(op, tasks, refs, payload, signature)
    PROVE  ManagerInv'
  <1> DEFINE message == [poolId |-> PoolToUse(tasks), payload |-> payload]
             new == [operator |-> op, refs |-> refs, message |-> message]
  <1>1. refs \in Seq(TaskIds) /\ refs # <<>> /\ 1 \in DOMAIN refs
    BY ManagerAssumption DEF RespondToBatch
  <1>2. \A i \in DOMAIN refs :
          /\ refs[i] \in TaskIds
          /\ tasks[i] = allTaskHashes[refs[i]] /\ tasks[i] \in Task
          /\ allTaskResponses[op][refs[i]] = Empty
    BY <1>1 DEF RespondToBatch, Answerable, Recorded, ManagerInv, ManagerTypeOK
  <1>3. message \in Message /\ new \in Settlement
    BY <1>1, <1>2 DEF Message, PoolIds, Task, Settlement, PoolToUse
  <1>4. signature = [signer |-> op, message |-> message]
    <2>1. Recover(message, signature) = op
      BY DEF RespondToBatch
    <2> QED
      BY <2>1, ManagerAssumption DEF Recover, Signature
  <1>5. allTaskResponses' = [allTaskResponses EXCEPT ![op] =
          [i \in TaskIds |-> IF \E k \in DOMAIN refs : refs[k] = i THEN signature ELSE @[i]]]
    BY DEF RespondToBatch
  <1>6. settlements' = Append(settlements, new)
        /\ UNCHANGED <<latestTaskNum, allTaskHashes, hook>>
    BY DEF RespondToBatch, registry
  <1> HIDE DEF message, new
  <1>7. /\ settlements \in Seq(Settlement) /\ settlements' \in Seq(Settlement)
        /\ Len(settlements') = Len(settlements) + 1
        /\ settlements'[Len(settlements) + 1] = new
        /\ \A k \in DOMAIN settlements : settlements'[k] = settlements[k]
        /\ DOMAIN settlements' = DOMAIN settlements \cup {Len(settlements) + 1}
        /\ Len(settlements) + 1 \notin DOMAIN settlements
    BY <1>3, <1>6 DEF ManagerInv, ManagerTypeOK
  <1>8. new.operator = op /\ new.refs = refs /\ new.message = message
        /\ message.poolId = tasks[1].order.poolId
    BY DEF new, message, PoolToUse
  <1>9. Refs(new) = {refs[i] : i \in DOMAIN refs}
    BY <1>8 DEF Refs
  <1>10. \A o \in Operators, i \in TaskIds :
            allTaskResponses'[o][i] = IF o = op /\ i \in Refs(new) THEN signature
                                     ELSE allTaskResponses[o][i]
    BY <1>5, <1>9 DEF ManagerInv, ManagerTypeOK
  <1>11. ManagerTypeOK'
    <2>1. allTaskResponses' \in [Operators -> [TaskIds -> Signature \cup {Empty}]]
      BY <1>5 DEF ManagerInv, ManagerTypeOK
    <2> QED
      BY <1>6, <1>7, <2>1 DEF ManagerInv, ManagerTypeOK
  <1>12. RecordsInOrder' /\ NoEmptyBatch'
    BY <1>1, <1>6, <1>7, <1>8 DEF ManagerInv, RecordsInOrder, NoEmptyBatch
  (* An earlier settlement of the operator shares no task with this one.   *)
  <1>13. ASSUME NEW k \in DOMAIN settlements, settlements[k].operator = op
         PROVE  Refs(settlements[k]) \cap Refs(new) = {}
    <2>1. \A i \in Refs(settlements[k]) : allTaskResponses[op][i] # Empty
      BY <1>13, SettledAnswered
    <2> QED
      BY <1>2, <1>9, <2>1
  <1>14. SettledIsSigned'
    <2> SUFFICES ASSUME NEW k \in DOMAIN settlements', NEW i \in Refs(settlements'[k])
                 PROVE  allTaskResponses'[settlements'[k].operator][i] =
                          [signer |-> settlements'[k].operator, message |-> settlements'[k].message]
      BY DEF SettledIsSigned
    <2>1. CASE k \in DOMAIN settlements
      <3>1. settlements'[k] = settlements[k] /\ settlements[k].operator \in Operators
            /\ i \in TaskIds /\ i \in Refs(settlements[k])
        BY <1>7, <2>1, RefsType DEF ManagerInv, Settlement
      <3>2. ~(settlements[k].operator = op /\ i \in Refs(new))
        BY <1>13, <2>1, <3>1
      <3> QED
        BY <1>10, <2>1, <3>1, <3>2 DEF ManagerInv, SettledIsSigned
    <2>2. CASE k = Len(settlements) + 1
      BY <1>2, <1>4, <1>7, <1>8, <1>9, <1>10, <2>2
    <2> QED
      BY <1>7, <2>1, <2>2
  <1>15. SettlesRecordedTasks'
    <2>1. \A i \in Refs(new) : i < latestTaskNum
      BY <1>2, <1>9 DEF ManagerInv, RecordsInOrder, Recorded
    <2>2. new.message.poolId = allTaskHashes[new.refs[1]].order.poolId
      BY <1>1, <1>2, <1>8
    <2> QED
      BY <1>6, <1>7, <2>1, <2>2 DEF ManagerInv, SettlesRecordedTasks
  <1>16. OncePerOperator'
    BY <1>7, <1>8, <1>13 DEF ManagerInv, OncePerOperator
  <1> QED
    BY <1>11, <1>12, <1>14, <1>15, <1>16 DEF ManagerInv

(* Every step keeps the invariant.                                         *)
LEMMA ManagerNextInv == ManagerInv /\ [ManagerNext]_managerVars => ManagerInv'
  <1> SUFFICES ASSUME ManagerInv, [ManagerNext]_managerVars PROVE ManagerInv'
    OBVIOUS
  <1>1. ASSUME NEW caller \in Addresses, NEW order \in Orders, CreateNewTask(caller, order)
        PROVE  ManagerInv'
    BY <1>1, CreateNewTaskInv
  <1>2. CASE Respond
    <2>1. PICK op \in Operators, signature \in Signature :
            \/ \E refs \in RefLists, payload \in Payloads :
                  \E tasks \in [DOMAIN refs -> Recorded] :
                      RespondToBatch(op, tasks, refs, payload, signature)
            \/ \E ref \in TaskIds, task \in Recorded, answer \in {signature, Empty} :
                  RespondToTask(op, task, ref, answer)
      BY <1>2 DEF Respond
    <2> QED
      BY <2>1, RespondToBatchInv, RespondToTaskInv
  <1>3. ASSUME NEW address \in Addresses, SetHook(address) PROVE ManagerInv'
    BY <1>3, SetHookInv
  <1>4. CASE UNCHANGED managerVars
    BY <1>4 DEF managerVars, ManagerInv, ManagerTypeOK, NoEmptyBatch, RecordsInOrder,
               SettledIsSigned, SettlesRecordedTasks, OncePerOperator
  <1> QED
    BY <1>1, <1>2, <1>3, <1>4 DEF ManagerNext

------------------------------------------------------------------------------
(* Every variable keeps its type: latestTaskNum stays a uint32, answers    *)
(* and settlements are those of tasks that can be recorded.                *)
THEOREM ManagerTypeCorrect == ManagerSpec => []ManagerTypeOK
  <1>1. ManagerInv => ManagerTypeOK
    BY DEF ManagerInv
  <1> QED
    BY ManagerInitInv, ManagerNextInv, <1>1, PTL DEF ManagerSpec

(* createNewTask numbers the tasks from 0 without a gap and never starts   *)
(* again over a recorded one.                                              *)
THEOREM TasksInOrder == ManagerSpec => []RecordsInOrder
  <1>1. ManagerInv => RecordsInOrder
    BY DEF ManagerInv
  <1> QED
    BY ManagerInitInv, ManagerNextInv, <1>1, PTL DEF ManagerSpec

(* For every task an operator settled, the answer on record stays that     *)
(* operator's own signature of the lists that were settled.                *)
THEOREM AlwaysSigned == ManagerSpec => []SettledIsSigned
  <1>1. ManagerInv => SettledIsSigned
    BY DEF ManagerInv
  <1> QED
    BY ManagerInitInv, ManagerNextInv, <1>1, PTL DEF ManagerSpec

(* respondToBatch settles recorded tasks only, under the pool of the first.*)
THEOREM AlwaysRecorded == ManagerSpec => []SettlesRecordedTasks
  <1>1. ManagerInv => SettlesRecordedTasks
    BY DEF ManagerInv
  <1> QED
    BY ManagerInitInv, ManagerNextInv, <1>1, PTL DEF ManagerSpec

(* However batches overlap and repeat tasks, no operator settles the same  *)
(* task in two of them.                                                    *)
THEOREM OperatorSettlesOnce == ManagerSpec => []OncePerOperator
  <1>1. ManagerInv => OncePerOperator
    BY DEF ManagerInv
  <1> QED
    BY ManagerInitInv, ManagerNextInv, <1>1, PTL DEF ManagerSpec

(* No step replaces a recorded task or a non-empty answer.                 *)
THEOREM NothingReplaced == ManagerSpec => RecordsFinal
  <1> DEFINE Kept ==
        /\ \A i \in TaskIds : allTaskHashes[i] # NoTask => allTaskHashes'[i] = allTaskHashes[i]
        /\ \A o \in Operators, i \in TaskIds :
              allTaskResponses[o][i] # Empty =>
                  allTaskResponses'[o][i] = allTaskResponses[o][i]
  <1>1. ManagerInv /\ [ManagerNext]_managerVars => [Kept]_managerVars
    <2> SUFFICES ASSUME ManagerInv, ManagerNext PROVE Kept
      OBVIOUS
    <2>1. ASSUME NEW caller \in Addresses, NEW order \in Orders, CreateNewTask(caller, order)
          PROVE  Kept
      BY <2>1, ManagerAssumption
         DEF CreateNewTask, Increment, ManagerInv, ManagerTypeOK, RecordsInOrder, TaskIds
    <2>2. ASSUME NEW op \in Operators, NEW refs \in RefLists, NEW payload \in Payloads,
                 NEW signature \in Signature, NEW tasks \in [DOMAIN refs -> Recorded],
                 RespondToBatch(op, tasks, refs, payload, signature)
          PROVE  Kept
      <3>1. \A k \in DOMAIN refs : allTaskResponses[op][refs[k]] = Empty
        BY <2>2 DEF RespondToBatch, Answerable
      <3>2. /\ UNCHANGED allTaskHashes
            /\ allTaskResponses' = [allTaskResponses EXCEPT ![op] =
                 [i \in TaskIds |-> IF \E k \in DOMAIN refs : refs[k] = i
                                    THEN signature ELSE @[i]]]
        BY <2>2 DEF RespondToBatch, registry
      <3> QED
        BY <3>1, <3>2 DEF ManagerInv, ManagerTypeOK
    <2>3. ASSUME NEW op \in Operators, NEW ref \in TaskIds, NEW task \in Recorded,
                 NEW answer \in Signature \cup {Empty}, RespondToTask(op, task, ref, answer)
          PROVE  Kept
      BY <2>3 DEF RespondToTask, registry, ManagerInv, ManagerTypeOK
    <2>4. ASSUME NEW address \in Addresses, SetHook(address) PROVE Kept
      BY <2>4 DEF SetHook, registry
    <2>5. CASE Respond
      <3>1. PICK op \in Operators, signature \in Signature :
            \/ \E refs \in RefLists, payload \in Payloads :
                  \E tasks \in [DOMAIN refs -> Recorded] :
                      RespondToBatch(op, tasks, refs, payload, signature)
            \/ \E ref \in TaskIds, task \in Recorded, answer \in {signature, Empty} :
                  RespondToTask(op, task, ref, answer)
        BY <2>5 DEF Respond
      <3> HIDE DEF Kept
      <3> QED
        BY <2>2, <2>3, <3>1
    <2> HIDE DEF Kept
    <2> QED
      BY <2>1, <2>4, <2>5 DEF ManagerNext
  <1> QED
    BY ManagerInitInv, ManagerNextInv, <1>1, PTL DEF ManagerSpec, RecordsFinal
=============================================================================
