------------------------------ MODULE DarkPool ------------------------------
(***************************************************************************)
(* The two contracts together.  beforeSwap escrows and has the service     *)
(* manager record the task in the same transaction; respondToBatch records *)
(* the answers and has the hook settle in the same transaction; a failure  *)
(* of any call undoes what both contracts did.                             *)
(*                                                                         *)
(* setHook is open to every caller, and onlyHook compares the caller with  *)
(* what setHook stored and nothing else.  While the manager points at      *)
(* another account that account records tasks nobody escrowed for, and     *)
(* settlements are recorded that pay nobody.  Operators sign any lists.    *)
(*                                                                         *)
(* escrowed and paid are history variables: they tell the tasks and the    *)
(* settlements the hook took part in from the others.                      *)
(***************************************************************************)
EXTENDS DarkCoWHook, OrderServiceManager, Functions

VARIABLES
    escrowed,       \* the ids of the tasks the hook's beforeSwap created
    paid,           \* the settlements, by position, that the hook was called for
    savedManager    \* what a failure restores in the service manager

history == <<escrowed, paid>>
poolVars == <<vars, managerVars, history, savedManager>>

NoLists == [transfers |-> <<>>, swaps |-> <<>>]

ASSUME PoolAssumption ==
    /\ Hook \in Addresses    \* the others know nothing of pools or escrow
    /\ [zeroForOne : BOOLEAN, amountSpecified : {-a : a \in Amounts},
        sender : Users, poolId : Pools] \subseteq Orders
    /\ Orders \subseteq [zeroForOne : BOOLEAN, amountSpecified : Int,
                         sender : Users, poolId : Pools]
    /\ NoLists \in Payloads
    /\ Payloads \subseteq [transfers : TransferLists, swaps : SwapLists]

PoolInit == Init /\ ManagerInit /\ escrowed = {} /\ paid = {} /\ savedManager = None

Order(zeroForOne, amountSpecified, sender, p) ==
    [zeroForOne |-> zeroForOne, amountSpecified |-> amountSpecified,
     sender |-> sender, poolId |-> p]

TaskInput(task) == Input(PoolKeyOf[task.order.poolId], task.order.zeroForOne)
TaskAmount(task) == -task.order.amountSpecified

Manager == [latestTaskNum |-> latestTaskNum, allTaskHashes |-> allTaskHashes,
            allTaskResponses |-> allTaskResponses, settlements |-> settlements,
            escrowed |-> escrowed, paid |-> paid]

------------------------------------------------------------------------------
(* Deployment: the pools are initialized, and setHook is called; anyone    *)
(* may call it again, with another hook or back, while tasks are pending.  *)
Deploy ==
    \/ /\ \E p \in Pools : AfterInitialize(p)
       /\ UNCHANGED <<managerVars, history, savedManager>>
    \/ /\ pc = "idle"
       /\ \E address \in Addresses \ {hook} : SetHook(address)
       /\ UNCHANGED <<vars, history, savedManager>>

(* A swap; one that asks for matching is escrowed and becomes a task.  The *)
(* wrong one creates the task before it asks what kind of swap it is.      *)
TakeOrderOfAnySwap ==
    \E u \in Users, p \in Pools, zeroForOne \in BOOLEAN, hookData \in HookData, a \in Amounts :
        /\ PlainSwap(u, p, zeroForOne, -a, hookData)
        /\ CreateNewTask(Hook, Order(zeroForOne, -a, u, p))
        /\ escrowed' = escrowed \cup {latestTaskNum}
        /\ UNCHANGED <<paid, savedManager>>

LetThrough(u, p, zeroForOne, amountSpecified, hookData) ==
    /\ PlainSwap(u, p, zeroForOne, amountSpecified, hookData)
    /\ UNCHANGED <<managerVars, history, savedManager>>

TakeOver(u, p, zeroForOne, amountSpecified, hookData) ==
    /\ BeforeSwap(u, p, zeroForOne, amountSpecified, hookData)
    /\ CreateNewTask(Hook, Order(zeroForOne, amountSpecified, hookData.sender, p))
    /\ savedManager' = Manager
    /\ escrowed' = escrowed \cup {latestTaskNum}
    /\ UNCHANGED paid

TakeOrder ==
    \E u \in Users, p \in Pools, zeroForOne \in BOOLEAN, hookData \in HookData,
       amountSpecified \in Amounts \cup {-a : a \in Amounts} :
        \/ LetThrough(u, p, zeroForOne, amountSpecified, hookData)
        \/ TakeOver(u, p, zeroForOne, amountSpecified, hookData)

(* createNewTask by any other account setHook has named: no swap, no       *)
(* escrow, and whatever order it likes.                                    *)
RecordElsewhere ==
    /\ pc = "idle"
    /\ \E caller \in Addresses \ {Hook}, order \in Orders : CreateNewTask(caller, order)
    /\ UNCHANGED <<vars, history, savedManager>>

Sign(op, p, payload) ==
    [signer |-> op, message |-> [poolId |-> p, payload |-> payload]]

(* respondToBatch, with whatever lists its sender has signed.              *)
RespondSigned(op, refs, tasks, payload) ==
    RespondToBatch(op, tasks, refs, payload, Sign(op, tasks[1].order.poolId, payload))

(* respondToBatch and the settleBalances it makes.                         *)
Settle ==
    /\ pc = "idle" /\ hook = Hook
    /\ \E op \in Operators, refs \in RefLists, payload \in Payloads :
          \E tasks \in [DOMAIN refs -> Recorded] :
            /\ RespondSigned(op, refs, tasks, payload)
            /\ SettleBalances(tasks[1].order.poolId, payload.transfers, payload.swaps)
    /\ savedManager' = Manager
    /\ paid' = paid \cup {Len(settlements')}
    /\ UNCHANGED escrowed

(* The same while the manager points at another contract: settleBalances   *)
(* of that one may return without doing anything.                          *)
SettleElsewhere ==
    /\ pc = "idle" /\ hook \notin {Hook, NoAddress}
    /\ \E op \in Operators, refs \in RefLists, payload \in Payloads :
          \E tasks \in [DOMAIN refs -> Recorded] : RespondSigned(op, refs, tasks, payload)
    /\ UNCHANGED <<vars, history, savedManager>>

AnswerAlone ==
    \E op \in Operators, ref \in TaskIds, task \in Recorded :
        /\ pc = "idle"
        /\ \E answer \in {Empty, Sign(op, task.order.poolId, NoLists)} :
              RespondToTask(op, task, ref, answer)
        /\ UNCHANGED <<vars, history, savedManager>>

Proceed ==
    /\ ChargeSwapper \/ UnlockCallback
    /\ UNCHANGED <<managerVars, history, savedManager>>

Commit ==
    /\ Return
    /\ savedManager' = None
    /\ UNCHANGED <<managerVars, history>>

RevertMoneyOnly ==    \* wrong: the answers survive a settlement that failed
    /\ Revert
    /\ savedManager' = None
    /\ UNCHANGED <<managerVars, history>>

RevertAll ==
    /\ Revert
    /\ latestTaskNum' = savedManager.latestTaskNum
    /\ allTaskHashes' = savedManager.allTaskHashes
    /\ allTaskResponses' = savedManager.allTaskResponses
    /\ settlements' = savedManager.settlements
    /\ escrowed' = savedManager.escrowed
    /\ paid' = savedManager.paid
    /\ savedManager' = None
    /\ UNCHANGED hook

PoolNext ==
    \/ Deploy \/ TakeOrder \/ RecordElsewhere
    \/ Settle \/ SettleElsewhere \/ AnswerAlone
    \/ Proceed \/ Commit \/ RevertAll

PoolSpec == PoolInit /\ [][PoolNext]_poolVars

------------------------------------------------------------------------------
(* What the tasks with these ids gave up in c, what one settlement pays    *)
(* the traders of it, and what it may give to the curve when each of its   *)
(* swaps states its input; then the sums over what the hook has paid.      *)
Ordered(c, ids) ==
    SumFunction([i \in TaskIds |->
        IF i \in ids /\ TaskInput(allTaskHashes[i]) = c THEN TaskAmount(allTaskHashes[i]) ELSE 0])

PaidBy(settlement, c) ==
    SumFunction([u \in Users |-> Owed(settlement.message.payload.transfers, u, c)])
PaidOut(c) ==
    SumFunction([k \in DOMAIN settlements |->
        IF k \in paid THEN PaidBy(settlements[k], c) ELSE 0])

GivenTo(key, swaps, c) ==
    [j \in DOMAIN swaps |->
        IF Input(key, swaps[j].zeroForOne) = c THEN -swaps[j].amountSpecified ELSE 0]
SwappedBy(settlement, c) ==
    SumFunction(GivenTo(PoolKeyOf[settlement.message.poolId], settlement.message.payload.swaps, c))
Swapped(c) ==
    SumFunction([k \in DOMAIN settlements |->
        IF k \in paid THEN SwappedBy(settlements[k], c) ELSE 0])

ExactInput(settlement) ==
    \A j \in DOMAIN settlement.message.payload.swaps :
        settlement.message.payload.swaps[j].amountSpecified <= 0

(* Between transactions the hook's claims and the registry tell the same   *)
(* story of what went through the hook: what was ordered, less what its    *)
(* settlements paid to traders, less what they gave to the curve (at most  *)
(* what their swaps state, when they state their inputs).  No escrow       *)
(* without its task, no answer without its settlement, whatever reverted   *)
(* on the way and whatever another hook recorded in between.               *)
EscrowMatchesTasks ==
    pc = "idle" =>
        \A c \in Currencies :
            LET left == Ordered(c, escrowed) - PaidOut(c)
            IN  /\ claims[c] <= left
                /\ (\A k \in paid : ExactInput(settlements[k])) => claims[c] >= left - Swapped(c)

(* A clean settlement is one whose lists spend, in each currency, no more  *)
(* than its own tasks put into escrow: its tasks were recorded by the      *)
(* hook, none is named by another settlement of the hook, its swaps state  *)
(* their inputs.  Nothing in the contracts checks any of it.               *)
Clean(settlement) ==
    /\ Refs(settlement) \subseteq escrowed
    /\ ExactInput(settlement)
    /\ \A c \in Currencies :
          PaidBy(settlement, c) + SwappedBy(settlement, c) <= Ordered(c, Refs(settlement))

AllClean ==
    /\ \A k \in paid : Clean(settlements[k])
    /\ \A j, k \in paid : j # k => Refs(settlements[j]) \cap Refs(settlements[k]) = {}

PaidIds == UNION {Refs(settlements[k]) : k \in paid}

(* As long as every settlement of the hook is clean, each order that went  *)
(* through the hook and is not settled yet is covered by claims in its     *)
(* input currency: whatever fails, and whatever is recorded through other  *)
(* hooks, does not touch the escrow of pending orders.                     *)
CoveredByCleanBatches ==
    pc = "idle" /\ AllClean =>
        \A c \in Currencies : claims[c] >= Ordered(c, escrowed \ PaidIds)

(* The two contracts implement the atomic pool: a transaction in progress  *)
(* has happened to neither of them yet.                                    *)
Atomic == INSTANCE AtomicPool WITH
    Keys <- {PoolKeyOf[p] : p \in Pools},
    escrow <- Committed(claims, saved.claims),
    amm <- Committed(amm, saved.amm),
    held <- Committed(held, saved.held),
    tasks <- Committed(allTaskHashes, savedManager.allTaskHashes),
    settled <- Committed(settlements, savedManager.settlements),
    attached <- hook = Hook

(* Money and records move together while the manager points at the hook,   *)
(* and money does not move with the records while it points elsewhere:     *)
(* whichever call of either contract fails, a trader's input is in escrow  *)
(* exactly when its task is on record for that amount, and a batch is on   *)
(* record exactly when each trader has what its transfers say.             *)
ImplementsAtomicPool == Atomic!PoolSpec

(* A swap proceeds in full view of its trader: what is not matched falls   *)
(* back to the AMM, and what the AMM gives is not kept by the hook.        *)
ProceedsLeaveTheHook ==
    pc = "idle" => \A c \in Currencies : held[Hook][c] = 0
=============================================================================
