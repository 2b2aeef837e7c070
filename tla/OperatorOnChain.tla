--------------------------- MODULE OperatorOnChain ---------------------------
(***************************************************************************)
(* The operator and the service manager together: createNewTask emits the  *)
(* events the operator listens to, and what the operator submits is the    *)
(* call of respondToBatch the chain executes, if the manager accepts it.   *)
(* A task is its id, and every order is for one pool.                      *)
(***************************************************************************)
EXTENDS Operator

CONSTANTS
    Self,          \* the operator's account
    Hook, Pool,
    MaxTaskId,     \* bound: the largest uint32
    NoTask, Empty, NoAddress

(* The ids are numbers, and what stands for nobody and for no task is not  *)
(* one of the accounts and tasks.                                          *)
OnChainConstants ==
    /\ MaxTaskId \in Nat
    /\ NoAddress \notin {Self, Hook}
    /\ NoTask \notin [order : {[poolId |-> Pool]}, taskId : 0..MaxTaskId]

VARIABLES latestTaskNum, allTaskHashes, allTaskResponses, hook, settlements

NoLists == [transfers |-> <<>>, swaps |-> <<>>]

Chain == INSTANCE OrderServiceManager WITH
    Operators <- {Self}, Addresses <- {Hook}, Orders <- {[poolId |-> Pool]},
    Payloads <- {NoLists}, RefLists <- UNION {[1..n -> Tasks] : n \in 1..2},
    MaxUint32 <- MaxTaskId

managerVars == <<latestTaskNum, allTaskHashes, allTaskResponses, hook, settlements>>
onChainVars == <<operatorVars, managerVars>>

(* The message the operator has hashed: the first task's pool, and the two *)
(* lists, to which processBatch adds nothing.                              *)
MessageHash(refs) ==
    [poolId |-> allTaskHashes[refs[1]].order.poolId, payload |-> NoLists]

(* signTypedData signs the hash of the struct the hash is put into, under  *)
(* a domain that is empty.                                                 *)
SignTypedData(messageHash) ==
    [signer |-> Self, message |-> [domain |-> {}, hash |-> messageHash]]

OnChainInit ==
    /\ OperatorInit /\ Chain!ManagerInit
    /\ Tasks = Chain!TaskIds

------------------------------------------------------------------------------
(* The operator hears of a task after it has been recorded.                *)
Order ==
    /\ Chain!CreateNewTask(Hook, [poolId |-> Pool])
    /\ UNCHANGED operatorVars

Deploy == Chain!SetHook(Hook) /\ hook # Hook /\ UNCHANGED operatorVars

Operate ==
    /\ MonitorStep \/ Restart
    /\ events \ events' \subseteq {t \in Tasks : t < latestTaskNum}
    /\ UNCHANGED managerVars

(* respondToBatch as it is sent: the tasks with their own ids.             *)
Respond(k, signature) ==
    /\ Mine(k)
    /\ LET refs == submissions[k]
       IN  Chain!RespondToBatch(Self, [j \in DOMAIN refs |-> allTaskHashes[refs[j]]], refs,
                                NoLists, signature)

Answer(k) == Respond(k, SignTypedData(MessageHash(submissions[k])))

OnChainNext ==
    \/ Order \/ Deploy \/ Operate
    \/ \E k \in DOMAIN submissions : Answer(k)

OnChainSpec == OnChainInit /\ [][OnChainNext]_onChainVars

(* The manager refuses each of these signatures, and what is true of a     *)
(* submission because it is never executed says little.  So submissions    *)
(* are looked at with any signature as well, right ones included.          *)
AnySignatureNext ==
    \/ Order \/ Deploy \/ Operate
    \/ \E k \in DOMAIN submissions :
          \E signature \in Chain!Signature \cup {SignTypedData(MessageHash(submissions[k]))} :
              Respond(k, signature)

AnySignatureSpec == OnChainInit /\ [][AnySignatureNext]_onChainVars

------------------------------------------------------------------------------
(* The operator signs "the message hash directly without prefixing": from  *)
(* the signature of a batch that is submitted, respondToBatch recovers the *)
(* operator, the address it is sent from.                                  *)
SignatureRecovers ==
    \A k \in DOMAIN submissions :
        LET messageHash == MessageHash(submissions[k])
        IN  Chain!Recover(messageHash, SignTypedData(messageHash)) = Self

(* A batch that is sent passes the loop of checks of respondToBatch, when  *)
(* it is executed at once or late: it is not empty, its tasks are on       *)
(* record under the ids it gives, and none of them has been answered.  One *)
(* task for which this fails would take the whole batch down with it.      *)
SubmissionsAnswerable ==
    \A k \in DOMAIN submissions \ mined :
        LET refs == submissions[k]
            tasks == [j \in DOMAIN refs |-> allTaskHashes[refs[j]]]
        IN  /\ refs # <<>> /\ NoTask \notin Elements(tasks)
            /\ Chain!Answerable(Self, tasks, refs)
=============================================================================
