------------------------- MODULE OrderServiceManager -------------------------
(***************************************************************************)
(* The task registry of avs/contract/src/OrderServiceManager.sol: tasks    *)
(* recorded for the hook, answers recorded per operator, and batches that  *)
(* are signed by their sender and passed on to the hook's settleBalances.  *)
(*                                                                         *)
(* keccak256 is taken as injective, so a task's hash is the task itself    *)
(* and a signed message is the pair it hashes.  What the hook settles is   *)
(* opaque here (Payloads); DarkPool gives it meaning.  The proof verifier  *)
(* and the hook may refuse any batch, which leaves no trace on chain.      *)
(* slashOperator has an empty body and the block a task was created in is  *)
(* read by nothing, so neither appears.                                    *)
(***************************************************************************)
EXTENDS Integers, Sequences

CONSTANTS
    Operators,     \* accounts that answer tasks
    Addresses,     \* accounts that may be the hook or call as one
    Orders,        \* what createNewTask is called with: records with a poolId
    Payloads,      \* transfer and swap lists of a settlement
    RefLists,      \* the referenceTaskIndices a batch may carry
    MaxUint32,     \* the largest uint32
    NoTask,        \* the zero hash
    Empty,         \* the empty signature
    NoAddress      \* the zero address, and what recover gives for a wrong message

PoolIds == {o.poolId : o \in Orders}
TaskIds == 0..MaxUint32
Task == [order : Orders, taskId : TaskIds]
Message == [poolId : PoolIds, payload : Payloads]
Signature == [signer : Operators, message : Message]
Settlement == [operator : Operators, refs : Seq(TaskIds), message : Message]

ASSUME ManagerAssumption ==
    /\ MaxUint32 \in Nat
    /\ RefLists \subseteq Seq(TaskIds)
    /\ NoTask \notin Task
    /\ Empty \notin Signature
    /\ NoAddress \notin Operators \cup Addresses

VARIABLES
    latestTaskNum,      \* the id of the next task
    allTaskHashes,      \* task id -> the task recorded under it
    allTaskResponses,   \* operator -> task id -> its answer
    hook,               \* the one account that may create tasks, and that settles
    settlements         \* the settleBalances calls made, in order

registry == <<latestTaskNum, allTaskHashes>>
managerVars == <<latestTaskNum, allTaskHashes, allTaskResponses, hook, settlements>>

ManagerInit ==
    /\ latestTaskNum = 0
    /\ allTaskHashes = [i \in TaskIds |-> NoTask]
    /\ allTaskResponses = [o \in Operators |-> [i \in TaskIds |-> Empty]]
    /\ hook = NoAddress
    /\ settlements = <<>>

Recorded == {allTaskHashes[i] : i \in TaskIds} \ {NoTask}

(* ECDSA recover: the signer, when the message is the one signed.          *)
Recover(message, signature) ==
    IF signature.message = message THEN signature.signer ELSE NoAddress

Refs(settlement) == {settlement.refs[i] : i \in DOMAIN settlement.refs}

------------------------------------------------------------------------------
(* latestTaskNum++: checked arithmetic, which refuses at the top of uint32.*)
(* The wrong ones wrap around, and check too late.                         *)
IncrementWraps(next) == next = (latestTaskNum + 1) % (MaxUint32 + 1)
IncrementTooLate(next) == latestTaskNum <= MaxUint32 /\ next = latestTaskNum + 1
Increment(next) == latestTaskNum < MaxUint32 /\ next = latestTaskNum + 1

(* createNewTask: onlyHook; the checked latestTaskNum++ reverts at the top *)
(* of uint32, so the last id is never used.                                *)
CreateNewTask(caller, order) ==
    /\ caller = hook
    /\ Increment(latestTaskNum')
    /\ allTaskHashes' = [allTaskHashes EXCEPT
                            ![latestTaskNum] = [order |-> order, taskId |-> latestTaskNum]]
    /\ UNCHANGED <<allTaskResponses, hook, settlements>>

(* The loop of checks at the top of respondToBatch, for the caller op. The *)
(* wrong ones forget the answers, and check the first task's only.         *)
RecordedOnly(op, tasks, refs) ==
    \A i \in DOMAIN refs : tasks[i] = allTaskHashes[refs[i]]
FirstAnswerable(op, tasks, refs) ==
    RecordedOnly(op, tasks, refs) /\ allTaskResponses[op][refs[1]] = Empty
Answerable(op, tasks, refs) ==
    \A i \in DOMAIN refs :
        /\ tasks[i] = allTaskHashes[refs[i]]
        /\ allTaskResponses[op][refs[i]] = Empty

(* poolIdToUse: the first task's pool; the wrong one is the last task's.   *)
LastPool(tasks) == tasks[Len(tasks)].order.poolId
PoolToUse(tasks) == tasks[1].order.poolId

(* respondToBatch.  An empty batch reverts on its first element; the       *)
(* message is over the pool of the first task and the payload, and does    *)
(* not name the tasks.                                                     *)
RespondToBatch(op, tasks, refs, payload, signature) ==
    LET message == [poolId |-> PoolToUse(tasks), payload |-> payload]
    IN  /\ refs # <<>>
        /\ Answerable(op, tasks, refs)
        /\ Recover(message, signature) = op
        /\ allTaskResponses' = [allTaskResponses EXCEPT ![op] =
              [i \in TaskIds |-> IF \E k \in DOMAIN refs : refs[k] = i
                                 THEN signature ELSE @[i]]]
        /\ settlements' = Append(settlements,
              [operator |-> op, refs |-> refs, message |-> message])
        /\ UNCHANGED <<registry, hook>>

AnswersAgain(op, task, ref, signature) ==    \* wrong: replaces an answer
    /\ task = allTaskHashes[ref]
    /\ allTaskResponses' = [allTaskResponses EXCEPT ![op][ref] = signature]
    /\ UNCHANGED <<registry, hook, settlements>>

(* respondToTask: one answer, not checked to be a signature of anything,   *)
(* and no settlement.                                                      *)
RespondToTask(op, task, ref, signature) ==
    /\ task = allTaskHashes[ref]
    /\ allTaskResponses[op][ref] = Empty
    /\ allTaskResponses' = [allTaskResponses EXCEPT ![op][ref] = signature]
    /\ UNCHANGED <<registry, hook, settlements>>

(* setHook: whoever calls it.                                              *)
SetHook(address) ==
    /\ hook' = address
    /\ UNCHANGED <<registry, allTaskResponses, settlements>>

------------------------------------------------------------------------------
(* A task that was never recorded matches no hash, so the tasks supplied   *)
(* range over the recorded ones, in every wrong order too.                 *)
Respond ==
    \E op \in Operators, signature \in Signature :
        \/ \E refs \in RefLists, payload \in Payloads :
              \E tasks \in [DOMAIN refs -> Recorded] :
                  RespondToBatch(op, tasks, refs, payload, signature)
        \/ \E ref \in TaskIds, task \in Recorded, answer \in {signature, Empty} :
              RespondToTask(op, task, ref, answer)

ManagerNext ==
    \/ \E caller \in Addresses, order \in Orders : CreateNewTask(caller, order)
    \/ Respond
    \/ \E address \in Addresses : SetHook(address)

ManagerSpec == ManagerInit /\ [][ManagerNext]_managerVars

------------------------------------------------------------------------------
(* Every variable has its type; task ids stay within uint32.               *)
ManagerTypeOK ==
    /\ latestTaskNum \in TaskIds
    /\ allTaskHashes \in [TaskIds -> Task \cup {NoTask}]
    /\ allTaskResponses \in [Operators -> [TaskIds -> Signature \cup {Empty}]]
    /\ hook \in Addresses \cup {NoAddress}
    /\ settlements \in Seq(Settlement)

(* The tasks on record are exactly those numbered below latestTaskNum,     *)
(* each under its own id: createNewTask leaves no gap, and at the end of   *)
(* uint32 it refuses rather than start again over the first tasks.         *)
RecordsInOrder ==
    \A i \in TaskIds :
        IF i < latestTaskNum
        THEN allTaskHashes[i] # NoTask /\ allTaskHashes[i].taskId = i
        ELSE allTaskHashes[i] = NoTask

(* A recorded task is never replaced, and an operator's answer, once it is *)
(* not empty, is never replaced: neither respondToBatch nor respondToTask  *)
(* may answer again, with whatever batch they share the task.              *)
RecordsFinal ==
    [][ /\ \A i \in TaskIds : allTaskHashes[i] # NoTask => allTaskHashes'[i] = allTaskHashes[i]
        /\ \A o \in Operators, i \in TaskIds :
              allTaskResponses[o][i] # Empty =>
                  allTaskResponses'[o][i] = allTaskResponses[o][i] ]_managerVars

(* The answer on record for a task an operator settled is that operator's  *)
(* own signature of the very lists that were settled: no later answer, in  *)
(* a batch or alone, makes the record disagree with the money.             *)
SettledIsSigned ==
    \A k \in DOMAIN settlements : \A i \in Refs(settlements[k]) :
        allTaskResponses[settlements[k].operator][i] =
            [signer |-> settlements[k].operator, message |-> settlements[k].message]

(* Every settled task is on record, and the pool settled under is the one  *)
(* the first task of the batch was created for.                            *)
SettlesRecordedTasks ==
    \A k \in DOMAIN settlements :
        /\ \A i \in Refs(settlements[k]) : i < latestTaskNum
        /\ settlements[k].message.poolId = allTaskHashes[settlements[k].refs[1]].order.poolId

(* No operator settles one task in two batches: what it settled once, or   *)
(* answered with a signature alone, respondToBatch refuses from it.        *)
OncePerOperator ==
    \A j, k \in DOMAIN settlements :
        j # k /\ settlements[j].operator = settlements[k].operator =>
            Refs(settlements[j]) \cap Refs(settlements[k]) = {}

(* What the comment at the top of respondToBatch says of a task, that it   *)
(* has not been responded yet: no task is settled twice, by anyone.        *)
EachTaskSettledOnce ==
    \A j, k \in DOMAIN settlements :
        j # k => Refs(settlements[j]) \cap Refs(settlements[k]) = {}
=============================================================================
